--------------------------- MODULE ShmRingProofs ---------------------------
(* Proofs of what ShmRing promises, for rings and files of any size: no    *)
(* slot has two owners, no line of one transfer is taken for one of the    *)
(* next, and the ring is a stream that delivers each unit once, in order.  *)
EXTENDS ShmRingControlProofs

-----------------------------------------------------------------------------
(* Who owns which slot.                                                    *)
OwnersOK == Started => \A s \in RingSlot : Owners(s) <= 1
GrantsFit == Len(helper.grants) <= Slots
-----------------------------------------------------------------------------
(* How often a slot is somewhere.                                          *)

\* Positions, with one more behind, ...
LEMMA PositionsGrow ==
  ASSUME NEW n \in Nat, NEW A \in SUBSET (1..n), NEW B \in SUBSET (1..n + 1),
         \A i \in 1..n : i \in A <=> i \in B
  PROVE  /\ Cardinality(A) \in Nat /\ Cardinality(B) \in Nat
         /\ n + 1 \in B => Cardinality(B) = Cardinality(A) + 1
         /\ n + 1 \notin B => Cardinality(B) = Cardinality(A)
<1>1. IsFiniteSet(1..n) /\ IsFiniteSet(1..n + 1)
  BY FS_Interval
<1>2. IsFiniteSet(A) /\ IsFiniteSet(B) /\ Cardinality(A) \in Nat /\ Cardinality(B) \in Nat
  BY <1>1, FS_Subset, FS_CardinalityType
<1>3. n + 1 \notin A
  OBVIOUS
<1>4. \A i \in 1..n + 1 : i = n + 1 \/ i \in 1..n
  OBVIOUS
<1>5. CASE n + 1 \in B
  <2>1. B = A \cup {n + 1}
    BY <1>3, <1>4, <1>5
  <2> QED
    BY <1>2, <1>3, <1>5, <2>1, FS_AddElement
<1>6. CASE n + 1 \notin B
  <2>1. B = A
    BY <1>3, <1>4, <1>6
  <2> QED
    BY <1>2, <1>6, <2>1
<1> QED
  BY <1>5, <1>6

\* ... or one less in front.
LEMMA PositionsShrink ==
  ASSUME NEW n \in Nat, NEW A \in SUBSET (1..n + 1), NEW B \in SUBSET (1..n),
         \A i \in 1..n : i \in B <=> i + 1 \in A
  PROVE  /\ Cardinality(A) \in Nat /\ Cardinality(B) \in Nat
         /\ 1 \in A => Cardinality(A) = Cardinality(B) + 1
         /\ 1 \notin A => Cardinality(A) = Cardinality(B)
<1>1. IsFiniteSet(1..n) /\ IsFiniteSet(1..n + 1)
  BY FS_Interval
<1>2. IsFiniteSet(A) /\ IsFiniteSet(B) /\ Cardinality(A) \in Nat /\ Cardinality(B) \in Nat
  BY <1>1, FS_Subset, FS_CardinalityType
<1> DEFINE C == A \ {1}
           f == [i \in B |-> i + 1]
<1>3. f \in [B -> C]
  <2>1. \A i \in B : i + 1 \in A /\ i + 1 # 1
    OBVIOUS
  <2> QED
    BY <2>1
<1>4. \A i, j \in B : f[i] = f[j] => i = j
  OBVIOUS
<1>5. \A k \in C : \E i \in B : f[i] = k
  <2> SUFFICES ASSUME NEW k \in C PROVE \E i \in B : f[i] = k
    OBVIOUS
  <2>1. k - 1 \in 1..n /\ (k - 1) + 1 = k
    OBVIOUS
  <2>2. k - 1 \in B
    BY <2>1
  <2> QED
    BY <2>1, <2>2
<1> HIDE DEF f, C
<1>6. f \in Bijection(B, C)
  BY <1>3, <1>4, <1>5 DEF Bijection, Injection, IsInjective, Surjection
<1>7. Cardinality(C) = Cardinality(B)
  BY <1>2, <1>6, FS_Bijection DEF ExistsBijection
<1>8. Cardinality(C) = IF 1 \in A THEN Cardinality(A) - 1 ELSE Cardinality(A)
  BY <1>2, FS_RemoveElement DEF C
<1> QED
  BY <1>2, <1>7, <1>8

\* A slot more, or one less.
LEMMA HoldsAppend ==
  ASSUME NEW S, NEW q \in Seq(S), NEW x \in S
  PROVE  \A s : /\ Holds(q, s) \in Nat /\ Holds(Append(q, x), s) \in Nat
                /\ x = s => Holds(Append(q, x), s) = Holds(q, s) + 1
                /\ x # s => Holds(Append(q, x), s) = Holds(q, s)
<1> SUFFICES ASSUME NEW s
             PROVE  /\ Holds(q, s) \in Nat /\ Holds(Append(q, x), s) \in Nat
                    /\ x = s => Holds(Append(q, x), s) = Holds(q, s) + 1
                    /\ x # s => Holds(Append(q, x), s) = Holds(q, s)
  OBVIOUS
<1> DEFINE A == {i \in DOMAIN q : q[i] = s}
           B == {i \in DOMAIN Append(q, x) : Append(q, x)[i] = s}
<1>1. PICK n \in Nat : n = Len(q)
  OBVIOUS
<1>2. /\ DOMAIN q = 1..n /\ DOMAIN Append(q, x) = 1..n + 1
      /\ Append(q, x)[n + 1] = x /\ \A i \in 1..n : Append(q, x)[i] = q[i]
  BY <1>1
<1>3. /\ A \in SUBSET (1..n) /\ B \in SUBSET (1..n + 1)
      /\ \A i \in 1..n : i \in A <=> i \in B
      /\ n + 1 \in B <=> x = s
  BY <1>1, <1>2
<1>4. Holds(q, s) = Cardinality(A) /\ Holds(Append(q, x), s) = Cardinality(B)
  BY DEF Holds
<1> HIDE DEF A, B
<1> QED
  BY <1>1, <1>3, <1>4, PositionsGrow

\* A queue of slots without its first.
LEMMA HoldsTail ==
  ASSUME NEW S, NEW q \in Seq(S), q # <<>>
  PROVE  \A s : /\ Holds(q, s) \in Nat /\ Holds(Tail(q), s) \in Nat
                /\ Head(q) = s => Holds(q, s) = Holds(Tail(q), s) + 1
                /\ Head(q) # s => Holds(q, s) = Holds(Tail(q), s)
<1> SUFFICES ASSUME NEW s
             PROVE  /\ Holds(q, s) \in Nat /\ Holds(Tail(q), s) \in Nat
                    /\ Head(q) = s => Holds(q, s) = Holds(Tail(q), s) + 1
                    /\ Head(q) # s => Holds(q, s) = Holds(Tail(q), s)
  OBVIOUS
<1> DEFINE A == {i \in DOMAIN q : q[i] = s}
           B == {i \in DOMAIN Tail(q) : Tail(q)[i] = s}
<1>1. PICK n \in Nat : Len(q) = n + 1
  <2>1. Len(q) \in Nat /\ Len(q) # 0
    BY EmptySeq
  <2>2. Len(q) - 1 \in Nat /\ Len(q) = (Len(q) - 1) + 1
    BY <2>1
  <2> QED
    BY <2>2
<1>2. /\ DOMAIN q = 1..n + 1 /\ DOMAIN Tail(q) = 1..n /\ Head(q) = q[1]
      /\ \A i \in 1..n : Tail(q)[i] = q[i + 1]
  BY <1>1, HeadTailProperties
<1>3. /\ A \in SUBSET (1..n + 1) /\ B \in SUBSET (1..n)
      /\ \A i \in 1..n : i \in B <=> i + 1 \in A
      /\ 1 \in A <=> Head(q) = s
  BY <1>1, <1>2
<1>4. Holds(q, s) = Cardinality(A) /\ Holds(Tail(q), s) = Cardinality(B)
  BY DEF Holds
<1> HIDE DEF A, B
<1>5. /\ Cardinality(A) \in Nat /\ Cardinality(B) \in Nat
      /\ 1 \in A => Cardinality(A) = Cardinality(B) + 1
      /\ 1 \notin A => Cardinality(A) = Cardinality(B)
  <2>1. n \in Nat
    BY <1>1
  <2>2. A \in SUBSET (1..n + 1) /\ B \in SUBSET (1..n)
    BY <1>3
  <2>3. \A i \in 1..n : i \in B <=> i + 1 \in A
    BY <1>3
  <2> QED
    BY <2>1, <2>2, <2>3, PositionsShrink
<1> QED
  BY <1>3, <1>4, <1>5

\* The same for lines, of which those of some kinds count.
LEMMA HoldsLineAppend ==
  ASSUME NEW S, NEW q \in Seq(S), NEW x \in S
  PROVE  \A ks, s : /\ HoldsLine(q, ks, s) \in Nat /\ HoldsLine(Append(q, x), ks, s) \in Nat
                    /\ x.kind \in ks /\ x.slot = s => HoldsLine(Append(q, x), ks, s) = HoldsLine(q, ks, s) + 1
                    /\ x.kind \notin ks \/ x.slot # s => HoldsLine(Append(q, x), ks, s) = HoldsLine(q, ks, s)
<1> SUFFICES ASSUME NEW ks, NEW s
             PROVE  /\ HoldsLine(q, ks, s) \in Nat /\ HoldsLine(Append(q, x), ks, s) \in Nat
                    /\ x.kind \in ks /\ x.slot = s => HoldsLine(Append(q, x), ks, s) = HoldsLine(q, ks, s) + 1
                    /\ x.kind \notin ks \/ x.slot # s => HoldsLine(Append(q, x), ks, s) = HoldsLine(q, ks, s)
  OBVIOUS
<1> DEFINE A == {i \in DOMAIN q : q[i].kind \in ks /\ q[i].slot = s}
           B == {i \in DOMAIN Append(q, x) : Append(q, x)[i].kind \in ks /\ Append(q, x)[i].slot = s}
<1>1. PICK n \in Nat : n = Len(q)
  OBVIOUS
<1>2. /\ DOMAIN q = 1..n /\ DOMAIN Append(q, x) = 1..n + 1
      /\ Append(q, x)[n + 1] = x /\ \A i \in 1..n : Append(q, x)[i] = q[i]
  BY <1>1
<1>3. /\ A \in SUBSET (1..n) /\ B \in SUBSET (1..n + 1)
      /\ \A i \in 1..n : i \in A <=> i \in B
      /\ n + 1 \in B <=> x.kind \in ks /\ x.slot = s
  BY <1>1, <1>2
<1>4. HoldsLine(q, ks, s) = Cardinality(A) /\ HoldsLine(Append(q, x), ks, s) = Cardinality(B)
  BY DEF HoldsLine
<1> HIDE DEF A, B
<1> QED
  BY <1>1, <1>3, <1>4, PositionsGrow

\* A pipe without its first line.
LEMMA HoldsLineTail ==
  ASSUME NEW S, NEW q \in Seq(S), q # <<>>
  PROVE  \A ks, s : /\ HoldsLine(q, ks, s) \in Nat /\ HoldsLine(Tail(q), ks, s) \in Nat
                    /\ Head(q).kind \in ks /\ Head(q).slot = s =>
                         HoldsLine(q, ks, s) = HoldsLine(Tail(q), ks, s) + 1
                    /\ Head(q).kind \notin ks \/ Head(q).slot # s =>
                         HoldsLine(q, ks, s) = HoldsLine(Tail(q), ks, s)
<1> SUFFICES ASSUME NEW ks, NEW s
             PROVE  /\ HoldsLine(q, ks, s) \in Nat /\ HoldsLine(Tail(q), ks, s) \in Nat
                    /\ Head(q).kind \in ks /\ Head(q).slot = s =>
                         HoldsLine(q, ks, s) = HoldsLine(Tail(q), ks, s) + 1
                    /\ Head(q).kind \notin ks \/ Head(q).slot # s =>
                         HoldsLine(q, ks, s) = HoldsLine(Tail(q), ks, s)
  OBVIOUS
<1> DEFINE A == {i \in DOMAIN q : q[i].kind \in ks /\ q[i].slot = s}
           B == {i \in DOMAIN Tail(q) : Tail(q)[i].kind \in ks /\ Tail(q)[i].slot = s}
<1>1. PICK n \in Nat : Len(q) = n + 1
  <2>1. Len(q) \in Nat /\ Len(q) # 0
    BY EmptySeq
  <2>2. Len(q) - 1 \in Nat /\ Len(q) = (Len(q) - 1) + 1
    BY <2>1
  <2> QED
    BY <2>2
<1>2. /\ DOMAIN q = 1..n + 1 /\ DOMAIN Tail(q) = 1..n /\ Head(q) = q[1]
      /\ \A i \in 1..n : Tail(q)[i] = q[i + 1]
  BY <1>1, HeadTailProperties
<1>3. /\ A \in SUBSET (1..n + 1) /\ B \in SUBSET (1..n)
      /\ \A i \in 1..n : i \in B <=> i + 1 \in A
      /\ 1 \in A <=> Head(q).kind \in ks /\ Head(q).slot = s
  BY <1>1, <1>2
<1>4. HoldsLine(q, ks, s) = Cardinality(A) /\ HoldsLine(Tail(q), ks, s) = Cardinality(B)
  BY DEF HoldsLine
<1> HIDE DEF A, B
<1>5. /\ Cardinality(A) \in Nat /\ Cardinality(B) \in Nat
      /\ 1 \in A => Cardinality(A) = Cardinality(B) + 1
      /\ 1 \notin A => Cardinality(A) = Cardinality(B)
  <2>1. n \in Nat
    BY <1>1
  <2>2. A \in SUBSET (1..n + 1) /\ B \in SUBSET (1..n)
    BY <1>3
  <2>3. \A i \in 1..n : i \in B <=> i + 1 \in A
    BY <1>3
  <2> QED
    BY <2>1, <2>2, <2>3, PositionsShrink
<1> QED
  BY <1>3, <1>4, <1>5

\* Nothing is in an empty queue, and counts are numbers.
LEMMA HoldsNothing ==
  /\ \A s : Holds(<<>>, s) = 0
  /\ \A ks, s : HoldsLine(<<>>, ks, s) = 0
<1>1. DOMAIN <<>> = {}
  OBVIOUS
<1>2. \A s : {i \in DOMAIN <<>> : <<>>[i] = s} = {}
  BY <1>1
<1>3. \A ks, s : {i \in DOMAIN <<>> : <<>>[i].kind \in ks /\ <<>>[i].slot = s} = {}
  BY <1>1
<1> QED
  BY <1>2, <1>3, FS_EmptySet DEF Holds, HoldsLine

\* A count is a number.
LEMMA HoldsNat ==
  ASSUME NEW S, NEW q \in Seq(S)
  PROVE  (\A s : Holds(q, s) \in Nat) /\ \A ks, s : HoldsLine(q, ks, s) \in Nat
<1>1. CASE q = <<>>
  BY <1>1, HoldsNothing
<1>2. CASE q # <<>>
  BY <1>2, HoldsTail, HoldsLineTail
<1> QED
  BY <1>1, <1>2

\* One position counts at most.
LEMMA HoldsOnce ==
  ASSUME NEW n \in Nat, NEW A \in SUBSET (1..n), \A i, j \in A : i = j
  PROVE  Cardinality(A) \in 0..1
<1>1. IsFiniteSet(1..n)
  BY FS_Interval
<1>2. IsFiniteSet(A) /\ Cardinality(A) \in Nat
  BY <1>1, FS_Subset, FS_CardinalityType
<1>3. CASE A = {}
  BY <1>3, FS_EmptySet
<1>4. CASE A # {}
  <2>1. PICK i \in A : TRUE
    BY <1>4
  <2>2. A = {i}
    BY <2>1
  <2> QED
    BY <2>2, FS_Singleton
<1> QED
  BY <1>3, <1>4

\* A fresh ring: every slot is free once, or granted once.
LEMMA FreshRing ==
  /\ \A s : Holds(AllFree, s) \in 0..1
  /\ \A s : HoldsLine(<<Line("map")>> \o [i \in 1..Slots |-> SlotLine("grant", i - 1, SlotUnits)], {"grant"}, s) \in 0..1
<1>1. Slots \in Nat
  BY RingAssumption
<1>2. ASSUME NEW s PROVE Holds(AllFree, s) \in 0..1
  <2> DEFINE A == {i \in DOMAIN AllFree : AllFree[i] = s}
  <2>1. A \in SUBSET (1..Slots) /\ \A i, j \in A : i = j
    BY <1>1 DEF AllFree
  <2> QED
    BY <1>1, <2>1, HoldsOnce DEF Holds
<1>3. ASSUME NEW s
      PROVE  HoldsLine(<<Line("map")>> \o [i \in 1..Slots |-> SlotLine("grant", i - 1, SlotUnits)], {"grant"}, s) \in 0..1
  <2> DEFINE grants == [i \in 1..Slots |-> SlotLine("grant", i - 1, SlotUnits)]
             q == <<Line("map")>> \o grants
             A == {i \in DOMAIN q : q[i].kind \in {"grant"} /\ q[i].slot = s}
  <2>1. DOMAIN q = 1..Slots + 1 /\ q[1] = Line("map") /\ \A i \in 1..Slots : q[i + 1] = grants[i]
    <3>1. grants \in Seq(HelperLines) /\ Len(grants) = Slots
      <4>1. \A i \in 1..Slots : i - 1 \in RingSlot
        BY <1>1 DEF RingSlot
      <4>2. \A i \in 1..Slots : SlotLine("grant", i - 1, SlotUnits) \in HelperLines
        BY <4>1, SaidToHelper
      <4>3. grants \in [1..Slots -> HelperLines]
        BY <4>2
      <4> QED
        BY <4>3, <1>1
    <3>2. Len(<<Line("map")>>) = 1 /\ <<Line("map")>>[1] = Line("map")
      OBVIOUS
    <3> HIDE DEF grants
    <3> QED
      BY <3>1, <3>2, <1>1
  <2>2. ASSUME NEW i \in A PROVE i - 1 \in 1..Slots /\ s = i - 2
    <3>1. i \in 1..Slots + 1 /\ q[i].kind = "grant" /\ q[i].slot = s
      BY <2>1
    <3>2. i # 1
      BY <3>1, <2>1, Said
    <3>3. i - 1 \in 1..Slots /\ q[i] = grants[i - 1]
      BY <3>1, <3>2, <2>1, <1>1
    <3>4. q[i] = SlotLine("grant", (i - 1) - 1, SlotUnits)
      BY <3>3
    <3>5. SlotLine("grant", (i - 1) - 1, SlotUnits).slot = (i - 1) - 1
      BY Said
    <3>6. s = (i - 1) - 1
      BY <3>4, <3>1, <3>5
    <3> QED
      BY <3>1, <3>3, <3>6, <1>1
  <2>3. A \in SUBSET (1..Slots + 1) /\ \A i, j \in A : i = j
    <3> HIDE DEF q
    <3>1. A \in SUBSET (1..Slots + 1)
      BY <2>1
    <3>2. \A i \in A : i \in Int
      BY <3>1, <1>1
    <3> HIDE DEF A
    <3> QED
      BY <2>2, <3>1, <3>2, <1>1
  <2>4. HoldsLine(q, {"grant"}, s) = Cardinality(A)
    BY DEF HoldsLine
  <2>5. Cardinality(A) \in 0..1
    <3> HIDE DEF A
    <3>1. Slots + 1 \in Nat
      BY <1>1
    <3> QED
      BY <3>1, <2>3, HoldsOnce
  <2> QED
    BY <2>4, <2>5
<1> QED
  BY <1>2, <1>3

\* Slots that are held once each are no more than there are.
LEMMA OnceEach ==
  ASSUME NEW q \in Seq(RingSlot), \A s \in RingSlot : Holds(q, s) <= 1
  PROVE  Len(q) <= Slots
<1>1. PICK n \in Nat : n = Len(q) /\ DOMAIN q = 1..n
  OBVIOUS
<1>2. Slots \in Nat /\ IsFiniteSet(RingSlot) /\ Cardinality(RingSlot) = Slots
  BY RingAssumption, FS_Interval DEF RingSlot
<1>3. IsFiniteSet(1..n) /\ Cardinality(1..n) = n
  BY FS_Interval
<1>4. SUFFICES ASSUME n > Slots PROVE FALSE
  BY <1>1, <1>2
<1>5. PICK i, j \in 1..n : i # j /\ q[i] = q[j]
  BY <1>1, <1>2, <1>3, <1>4, FS_PigeonHole
<1>6. /\ {i, j} \in SUBSET {k \in DOMAIN q : q[k] = q[i]} /\ q[i] \in RingSlot
      /\ IsFiniteSet({k \in DOMAIN q : q[k] = q[i]})
  BY <1>1, <1>3, <1>5, FS_Subset
<1>7. Cardinality({i, j}) = 2
  <2>1. IsFiniteSet({i}) /\ Cardinality({i}) = 1 /\ {i, j} = {i} \cup {j} /\ j \notin {i}
    BY <1>5, FS_Singleton
  <2> QED
    BY <2>1, FS_AddElement, 1 + 1 = 2
<1>8. 2 <= Holds(q, q[i])
  BY <1>6, <1>7, FS_Subset DEF Holds
<1>9. Holds(q, q[i]) <= 1 /\ Holds(q, q[i]) \in Nat
  BY <1>6, HoldsNat
<1> QED
  BY <1>8, <1>9

USE DEF contextVars, ringState, flagVars, pipeVars, boundVars

\* The counts are numbers.
LEMMA CountsAreNat ==
  ASSUME Types
  PROVE  \A s : /\ Holds(free, s) \in Nat /\ HoldsLine(ready, {"slot"}, s) \in Nat
                /\ HoldsLine(toHelper, {"grant"}, s) \in Nat /\ Holds(helper.grants, s) \in Nat
                /\ HoldsLine(toApp, {"next", "final"}, s) \in Nat
BY HoldsNat, HelperFields DEF Types, RingTypes, ThreadTypes, PipeTypes

\* An action that moves no slot.
LEMMA SameOwners ==
  ASSUME UNCHANGED <<mode, free, ready, lent, toHelper, toApp>>, flusher'.slot = flusher.slot,
         helper'.pc = helper.pc, helper'.slot = helper.slot, helper'.grants = helper.grants, OwnersOK
  PROVE  OwnersOK'
<1>1. Started' <=> Started
  BY DEF Started, Moves, Mapped, Heads
<1>2. \A s : Owners(s)' = Owners(s)
  BY DEF Owners
<1> QED
  BY <1>1, <1>2 DEF OwnersOK

\* The lines of a pipe that are counted.
LEMMA SaysCounts ==
  ASSUME toHelper \in Seq(HelperLines), NEW x \in HelperLines, Says(<<x>>), x.kind # "grant"
  PROVE  \A s : HoldsLine(toHelper', {"grant"}, s) = HoldsLine(toHelper, {"grant"}, s)
<1> SUFFICES ASSUME NEW s PROVE HoldsLine(toHelper', {"grant"}, s) = HoldsLine(toHelper, {"grant"}, s)
  OBVIOUS
<1>1. toHelper' = toHelper \/ toHelper' = Append(toHelper, x)
  BY AppendGrows DEF Says
<1>2. x.kind \notin {"grant"}
  OBVIOUS
<1>3. HoldsLine(Append(toHelper, x), {"grant"}, s) = HoldsLine(toHelper, {"grant"}, s)
  BY <1>2, HoldsLineAppend
<1> QED
  BY <1>1, <1>3

\* The helper reads a line that is not counted.
LEMMA TakeCounts ==
  ASSUME toHelper \in Seq(HelperLines), NEW k, Hears(k), Take, k # "grant"
  PROVE  \A s : HoldsLine(toHelper', {"grant"}, s) = HoldsLine(toHelper, {"grant"}, s)
BY HoldsLineTail DEF Hears, Take

\* The application reads a line.
LEMMA ReadCounts ==
  ASSUME toApp \in Seq(AppLines), NEW k, Read(k), Consume, NEW s
  PROVE  /\ k \notin {"next", "final"} \/ Head(toApp).slot # s =>
              HoldsLine(toApp', {"next", "final"}, s) = HoldsLine(toApp, {"next", "final"}, s)
         /\ k \in {"next", "final"} /\ Head(toApp).slot = s =>
              HoldsLine(toApp, {"next", "final"}, s) = HoldsLine(toApp', {"next", "final"}, s) + 1
         /\ HoldsLine(toApp', {"next", "final"}, s) \in Nat
BY HoldsLineTail DEF Read, Consume

\* The helper says a line.
LEMMA TellsCounts ==
  ASSUME toApp \in Seq(AppLines), NEW x \in AppLines, Tells(x), NEW s
  PROVE  /\ x.kind \notin {"next", "final"} \/ x.slot # s =>
              HoldsLine(toApp', {"next", "final"}, s) = HoldsLine(toApp, {"next", "final"}, s)
         /\ x.kind \in {"next", "final"} /\ x.slot = s =>
              HoldsLine(toApp', {"next", "final"}, s) = HoldsLine(toApp, {"next", "final"}, s) + 1
BY HoldsLineAppend DEF Tells

\* A slot is queued.
LEMMA ReadyCounts ==
  ASSUME ready \in Seq(SlotLines), NEW t \in RingSlot, NEW n \in 1..SlotUnits, NEW s
  PROVE  /\ t = s => HoldsLine(Append(ready, SlotLine("slot", t, n)), {"slot"}, s) = HoldsLine(ready, {"slot"}, s) + 1
         /\ t # s => HoldsLine(Append(ready, SlotLine("slot", t, n)), {"slot"}, s) = HoldsLine(ready, {"slot"}, s)
<1>1. /\ SlotLine("slot", t, n) \in SlotLines
      /\ SlotLine("slot", t, n).kind \in {"slot"} /\ SlotLine("slot", t, n).slot = t
  BY SaidToHelper, Said
<1> QED
  BY <1>1, HoldsLineAppend

\* What is said that is not a mapping starts nothing.
LEMMA SaysNoMap ==
  ASSUME toHelper \in Seq(HelperLines), NEW x \in HelperLines, Says(<<x>>), x.kind # "map",
         helper'.pc = helper.pc, Started'
  PROVE  Started
BY SaysGrows DEF Started, Moves, Mapped, Grown

\* A filled slot is taken from the queue.
LEMMA FlushWaitOwn == ASSUME Control, Control', OwnersOK, FlushWait PROVE OwnersOK'
<1>1. SUFFICES ASSUME Started', NEW s \in RingSlot PROVE Owners(s)' <= 1
  BY DEF OwnersOK
<1>2. Started
  BY <1>1 DEF FlushWait, HelperOnly, Started, Moves, Mapped, Heads
<1>3. Owners(s) <= 1
  BY <1>2 DEF OwnersOK
<1>4. /\ Holds(free, s) \in Nat /\ HoldsLine(ready, {"slot"}, s) \in Nat
      /\ HoldsLine(toHelper, {"grant"}, s) \in Nat /\ Holds(helper.grants, s) \in Nat
      /\ HoldsLine(toApp, {"next", "final"}, s) \in Nat
  BY CountsAreNat DEF Control
<1>5. /\ flusher \in Flushers /\ helper \in Helpers /\ toHelper \in Seq(HelperLines) /\ toApp \in Seq(AppLines)
      /\ free \in Seq(RingSlot) /\ ready \in Seq(SlotLines) /\ lent \in 0..Slots /\ helper.grants \in Seq(RingSlot)
  BY HelperFields DEF Control, Types, RingTypes, ThreadTypes, PipeTypes
<1>6. UNCHANGED <<mode, free, lent, toHelper, toApp, helper>>
  BY DEF FlushWait, HelperOnly
<1>7. flusher.slot # s
  BY DEF FlushWait, Control, FlusherOK
<1>8. \/ HoldsLine(ready', {"slot"}, s) = HoldsLine(ready, {"slot"}, s) /\ flusher'.slot # s
      \/ HoldsLine(ready', {"slot"}, s) \in Nat /\ HoldsLine(ready', {"slot"}, s) + 1 = HoldsLine(ready, {"slot"}, s)
      \/ HoldsLine(ready', {"slot"}, s) = HoldsLine(ready, {"slot"}, s) /\ flusher'.slot # s
  <2>1. CASE Dismiss /\ UNCHANGED ready
    BY <2>1, <1>5, Dismissed, SlotFacts DEF Flushing
  <2>2. CASE flusher' = [flusher EXCEPT !.pc = "finish"] /\ UNCHANGED ready
    BY <2>2, <1>5, <1>7 DEF Flushers
  <2>3. CASE /\ ready # <<>> /\ ready' = Tail(ready)
             /\ flusher' = [flusher EXCEPT !.pc = "flush", !.slot = Head(ready).slot, !.n = Head(ready).n]
    <3>1. Head(ready).kind = "slot" /\ flusher'.slot = Head(ready).slot
      <4>1. Head(ready) \in SlotLines
        BY <2>3, <1>5, TailLines
      <4> QED
        BY <4>1, <2>3, <1>5 DEF SlotLines, Flushers
    <3> QED
      BY <2>3, <3>1, <1>5, HoldsLineTail
  <2> QED
    BY <2>1, <2>2, <2>3 DEF FlushWait
<1> QED
  BY <1>3, <1>4, <1>6, <1>7, <1>8 DEF Owners, One

\* The I/O thread ends.
LEMMA FlushFinishOwn == ASSUME Control, Control', OwnersOK, FlushFinish PROVE OwnersOK'
<1>1. SUFFICES ASSUME Started', NEW s \in RingSlot PROVE Owners(s)' <= 1
  BY DEF OwnersOK
<1>2. Started
  BY <1>1 DEF FlushFinish, HelperOnly, Started, Moves, Mapped, Heads
<1>3. Owners(s) <= 1
  BY <1>2 DEF OwnersOK
<1>4. /\ Holds(free, s) \in Nat /\ HoldsLine(ready, {"slot"}, s) \in Nat
      /\ HoldsLine(toHelper, {"grant"}, s) \in Nat /\ Holds(helper.grants, s) \in Nat
      /\ HoldsLine(toApp, {"next", "final"}, s) \in Nat
  BY CountsAreNat DEF Control
<1>5. /\ flusher \in Flushers /\ helper \in Helpers /\ toHelper \in Seq(HelperLines) /\ toApp \in Seq(AppLines)
      /\ free \in Seq(RingSlot) /\ ready \in Seq(SlotLines) /\ lent \in 0..Slots /\ helper.grants \in Seq(RingSlot)
  BY HelperFields DEF Control, Types, RingTypes, ThreadTypes, PipeTypes
<1>6. UNCHANGED <<mode, free, ready, lent, toHelper, toApp, helper>>
  BY DEF FlushFinish, HelperOnly
<1>7. flusher.slot # s /\ flusher'.slot # s
  BY <1>5, Dismissed, SlotFacts DEF FlushFinish, Control, FlusherOK, Flushing
<1> QED
  BY <1>3, <1>4, <1>6, <1>7 DEF Owners, One

\* A slot is written, and is free where nobody is granted it again.
LEMMA FlushWriteOwn == ASSUME Control, Control', OwnersOK, FlushWrite PROVE OwnersOK'
<1>1. SUFFICES ASSUME Started', NEW s \in RingSlot PROVE Owners(s)' <= 1
  BY DEF OwnersOK
<1>2. Started
  BY <1>1 DEF FlushWrite, HelperOnly, Started, Moves, Mapped, Heads
<1>3. Owners(s) <= 1
  BY <1>2 DEF OwnersOK
<1>4. /\ Holds(free, s) \in Nat /\ HoldsLine(ready, {"slot"}, s) \in Nat
      /\ HoldsLine(toHelper, {"grant"}, s) \in Nat /\ Holds(helper.grants, s) \in Nat
      /\ HoldsLine(toApp, {"next", "final"}, s) \in Nat
  BY CountsAreNat DEF Control
<1>5. /\ flusher \in Flushers /\ helper \in Helpers /\ toHelper \in Seq(HelperLines) /\ toApp \in Seq(AppLines)
      /\ free \in Seq(RingSlot) /\ ready \in Seq(SlotLines) /\ lent \in 0..Slots /\ helper.grants \in Seq(RingSlot)
  BY HelperFields DEF Control, Types, RingTypes, ThreadTypes, PipeTypes
<1>6. UNCHANGED <<mode, ready, lent, toHelper, toApp, helper>>
  BY DEF FlushWrite, HelperOnly
<1>7. \/ flusher'.slot = flusher.slot /\ Holds(free', s) = Holds(free, s)
      \/ /\ flusher'.slot # s
         /\ flusher.slot = s => Holds(free', s) = Holds(free, s) + 1
         /\ flusher.slot # s => Holds(free', s) = Holds(free, s)
  <2>1. flusher.slot \in RingSlot
    BY DEF FlushWrite, Control, FlusherOK
  <2>2. CASE mode = "credit"
    BY <2>2, <1>5 DEF FlushWrite, Flushers
  <2>3. CASE mode # "credit"
    <3>1. flusher'.slot = None
      <4>1. CASE Dismiss
        BY <4>1, <1>5, Dismissed DEF Flushing
      <4>2. CASE flusher' = [flusher EXCEPT !.pc = "wait", !.slot = None, !.n = 0]
        BY <4>2, <1>5 DEF Flushers
      <4> QED
        BY <2>3, <4>1, <4>2 DEF FlushWrite
    <3>2. free' = Append(free, flusher.slot)
      BY <2>3 DEF FlushWrite
    <3> QED
      BY <2>1, <3>1, <3>2, <1>5, HoldsAppend, SlotFacts
  <2> QED
    BY <2>2, <2>3
<1> QED
  BY <1>3, <1>4, <1>6, <1>7 DEF Owners, One

\* A slot is granted again.
LEMMA FlushGrantOwn == ASSUME Control, Control', OwnersOK, FlushGrant PROVE OwnersOK'
<1>1. SUFFICES ASSUME Started', NEW s \in RingSlot PROVE Owners(s)' <= 1
  BY DEF OwnersOK
<1>2. Started
  <2>1. \E x \in HelperLines : Says(<<x>>) /\ x.kind # "map"
    BY Said, SaidToHelper DEF FlushGrant, Control, FlusherOK
  <2> QED
    BY <1>1, <2>1, SaysGrows DEF FlushGrant, Started, Moves, Mapped, Heads, Grown, Control, Types, PipeTypes
<1>3. Owners(s) <= 1
  BY <1>2 DEF OwnersOK
<1>4. /\ Holds(free, s) \in Nat /\ HoldsLine(ready, {"slot"}, s) \in Nat
      /\ HoldsLine(toHelper, {"grant"}, s) \in Nat /\ Holds(helper.grants, s) \in Nat
      /\ HoldsLine(toApp, {"next", "final"}, s) \in Nat
  BY CountsAreNat DEF Control
<1>5. /\ flusher \in Flushers /\ helper \in Helpers /\ toHelper \in Seq(HelperLines) /\ toApp \in Seq(AppLines)
      /\ free \in Seq(RingSlot) /\ ready \in Seq(SlotLines) /\ lent \in 0..Slots /\ helper.grants \in Seq(RingSlot)
  BY HelperFields DEF Control, Types, RingTypes, ThreadTypes, PipeTypes
<1>6. UNCHANGED <<mode, free, ready, lent, toApp, helper>>
  BY DEF FlushGrant, HelperOnly
<1>7. mode = "credit" /\ flusher'.slot # s
  <2>1. CASE Dismiss
    BY <2>1, <1>5, Dismissed, SlotFacts DEF Flushing, FlushGrant, Control, FlusherOK
  <2>2. CASE flusher' = [flusher EXCEPT !.pc = "wait", !.slot = None, !.n = 0]
    BY <2>2, <1>5, SlotFacts DEF FlushGrant, Control, FlusherOK, Flushers
  <2> QED
    BY <2>1, <2>2 DEF FlushGrant
<1>8. \/ HoldsLine(toHelper', {"grant"}, s) = HoldsLine(toHelper, {"grant"}, s)
      \/ flusher.slot = s /\ HoldsLine(toHelper', {"grant"}, s) = HoldsLine(toHelper, {"grant"}, s) + 1
  <2>1. CASE helper.pc = "gone"
    BY <2>1 DEF FlushGrant, Says
  <2>2. CASE helper.pc # "gone" /\ flusher.pc = "grant"
    <3>1. SlotLine("grant", flusher.slot, SlotUnits) \in HelperLines
      BY <2>2, SaidToHelper DEF Control, FlusherOK
    <3>2. toHelper' = Append(toHelper, SlotLine("grant", flusher.slot, SlotUnits))
      BY <2>2, <3>1, <1>5, AppendGrows DEF FlushGrant, Says
    <3> QED
      BY <3>1, <3>2, <1>5, HoldsLineAppend, Said
  <2>3. CASE helper.pc # "gone" /\ flusher.pc # "grant"
    <3>1. Line("error") \in HelperLines
      BY SaidToHelper
    <3>2. toHelper' = Append(toHelper, Line("error"))
      BY <2>3, <3>1, <1>5, AppendGrows DEF FlushGrant, Says
    <3>3. Line("error").kind \notin {"grant"}
      BY Said
    <3> QED
      BY <3>1, <3>2, <3>3, <1>5, HoldsLineAppend
  <2> QED
    BY <2>1, <2>2, <2>3
<1> QED
  BY <1>3, <1>4, <1>6, <1>7, <1>8 DEF Owners, One

\* A free slot is taken.
LEMMA FillWaitOwn == ASSUME Control, Control', OwnersOK, FillWait PROVE OwnersOK'
<1>1. SUFFICES ASSUME Started', NEW s \in RingSlot PROVE Owners(s)' <= 1
  BY DEF OwnersOK
<1>2. Started
  BY <1>1 DEF FillWait, HelperOnly, Started, Moves, Mapped, Heads
<1>3. Owners(s) <= 1
  BY <1>2 DEF OwnersOK
<1>4. /\ Holds(free, s) \in Nat /\ HoldsLine(ready, {"slot"}, s) \in Nat
      /\ HoldsLine(toHelper, {"grant"}, s) \in Nat /\ Holds(helper.grants, s) \in Nat
      /\ HoldsLine(toApp, {"next", "final"}, s) \in Nat
  BY CountsAreNat DEF Control
<1>5. /\ flusher \in Flushers /\ helper \in Helpers /\ toHelper \in Seq(HelperLines) /\ toApp \in Seq(AppLines)
      /\ free \in Seq(RingSlot) /\ ready \in Seq(SlotLines) /\ lent \in 0..Slots /\ helper.grants \in Seq(RingSlot)
  BY HelperFields DEF Control, Types, RingTypes, ThreadTypes, PipeTypes
<1>6. UNCHANGED <<mode, ready, lent, toHelper, toApp, helper>>
  BY DEF FillWait, HelperOnly
<1>7. flusher.slot # s
  BY DEF FillWait, Control, FlusherOK
<1>8. \/ Holds(free', s) = Holds(free, s) /\ flusher'.slot # s
      \/ Holds(free', s) \in Nat /\ Holds(free', s) + 1 = Holds(free, s)
  <2>1. CASE Dismiss /\ UNCHANGED free
    BY <2>1, <1>5, Dismissed, SlotFacts DEF Flushing
  <2>2. CASE /\ free # <<>> /\ free' = Tail(free)
             /\ flusher' = [flusher EXCEPT !.pc = "fill", !.slot = Head(free)]
    <3>1. flusher'.slot = Head(free)
      BY <2>2, <1>5 DEF Flushers
    <3> QED
      BY <2>2, <3>1, <1>5, HoldsTail
  <2> QED
    BY <2>1, <2>2 DEF FillWait
<1> QED
  BY <1>3, <1>4, <1>6, <1>7, <1>8 DEF Owners, One

\* A slot is filled, or is still free.
LEMMA FillReadOwn == ASSUME Control, Control', OwnersOK, FillRead PROVE OwnersOK'
<1>1. SUFFICES ASSUME Started', NEW s \in RingSlot PROVE Owners(s)' <= 1
  BY DEF OwnersOK
<1>2. Started
  BY <1>1 DEF FillRead, HelperOnly, Started, Moves, Mapped, Heads
<1>3. Owners(s) <= 1
  BY <1>2 DEF OwnersOK
<1>4. /\ Holds(free, s) \in Nat /\ HoldsLine(ready, {"slot"}, s) \in Nat
      /\ HoldsLine(toHelper, {"grant"}, s) \in Nat /\ Holds(helper.grants, s) \in Nat
      /\ HoldsLine(toApp, {"next", "final"}, s) \in Nat
  BY CountsAreNat DEF Control
<1>5. /\ flusher \in Flushers /\ helper \in Helpers /\ toHelper \in Seq(HelperLines) /\ toApp \in Seq(AppLines)
      /\ free \in Seq(RingSlot) /\ ready \in Seq(SlotLines) /\ lent \in 0..Slots /\ helper.grants \in Seq(RingSlot)
  BY HelperFields DEF Control, Types, RingTypes, ThreadTypes, PipeTypes
<1>6. UNCHANGED <<mode, lent, toHelper, toApp, helper>>
  BY DEF FillRead, HelperOnly
<1>7. flusher.slot \in RingSlot /\ flusher'.slot # s
  <2>1. flusher.slot \in RingSlot
    BY DEF FillRead, Control, FlusherOK
  <2>2. \E n : flusher' = [flusher EXCEPT !.at = @ + n, !.slot = None, !.pc = IF eof' THEN "over" ELSE "wait"]
    BY DEF FillRead
  <2>3. flusher'.slot = None
    BY <2>2, <1>5 DEF Flushers
  <2> QED
    BY <2>1, <2>3, SlotFacts
<1>8. \/ /\ HoldsLine(ready', {"slot"}, s) = HoldsLine(ready, {"slot"}, s)
         /\ flusher.slot = s => Holds(free', s) = Holds(free, s) + 1
         /\ flusher.slot # s => Holds(free', s) = Holds(free, s)
      \/ /\ Holds(free', s) = Holds(free, s)
         /\ flusher.slot = s => HoldsLine(ready', {"slot"}, s) = HoldsLine(ready, {"slot"}, s) + 1
         /\ flusher.slot # s => HoldsLine(ready', {"slot"}, s) = HoldsLine(ready, {"slot"}, s)
  <2>1. CASE ready' = ready /\ free' = Append(free, flusher.slot)
    BY <2>1, <1>5, <1>7, HoldsAppend
  <2>2. ASSUME NEW n \in 1..SlotUnits, free' = free, ready' = Append(ready, SlotLine("slot", flusher.slot, n))
        PROVE  /\ Holds(free', s) = Holds(free, s)
               /\ flusher.slot = s => HoldsLine(ready', {"slot"}, s) = HoldsLine(ready, {"slot"}, s) + 1
               /\ flusher.slot # s => HoldsLine(ready', {"slot"}, s) = HoldsLine(ready, {"slot"}, s)
    <3>1. SlotLine("slot", flusher.slot, n) \in SlotLines
      BY <1>7, SaidToHelper
    <3>2. /\ SlotLine("slot", flusher.slot, n).kind \in {"slot"}
          /\ SlotLine("slot", flusher.slot, n).slot = flusher.slot
      BY Said
    <3> QED
      BY <2>2, <3>1, <3>2, <1>5, HoldsLineAppend
  <2>3. \/ ready' = ready /\ free' = Append(free, flusher.slot)
        \/ \E n \in 1..SlotUnits : free' = free /\ ready' = Append(ready, SlotLine("slot", flusher.slot, n))
    <3>1. length \in Nat /\ flusher.at \in Nat /\ flusher.at <= length /\ SlotUnits \in Nat
      BY <1>5, RingAssumption, FlusherFields DEF FillRead, Control, Types, ContextTypes, FlusherOK
    <3>2. PICK n \in 0..Lesser(IF whole THEN SlotUnits ELSE Lesser(SlotUnits, length - flusher.at), length - flusher.at) :
            /\ ready' = IF n > 0 THEN Append(ready, SlotLine("slot", flusher.slot, n)) ELSE ready
            /\ free' = IF n > 0 THEN free ELSE Append(free, flusher.slot)
      BY DEF FillRead
    <3>3. n \in Nat /\ n <= SlotUnits
      BY <3>1 DEF Lesser
    <3> QED
      BY <3>1, <3>2, <3>3
  <2> QED
    BY <2>1, <2>2, <2>3
<1> QED
  BY <1>3, <1>4, <1>6, <1>7, <1>8 DEF Owners, One

\* A quota request is granted.
LEMMA OnQuotaOwn == ASSUME Control, Control', OwnersOK, OnQuota PROVE OwnersOK'
<1>1. SUFFICES ASSUME Started', NEW s \in RingSlot PROVE Owners(s)' <= 1
  BY DEF OwnersOK
<1>2. Started
  <2>1. Line("quota") \in HelperLines /\ Line("quota").kind # "map"
    BY SaidToHelper, Said
  <2> QED
    BY <1>1, <2>1, SaysNoMap DEF OnQuota, Control, Types, PipeTypes
<1>3. Owners(s) <= 1
  BY <1>2 DEF OwnersOK
<1>4. /\ Holds(free, s) \in Nat /\ HoldsLine(ready, {"slot"}, s) \in Nat
      /\ HoldsLine(toHelper, {"grant"}, s) \in Nat /\ Holds(helper.grants, s) \in Nat
      /\ HoldsLine(toApp, {"next", "final"}, s) \in Nat
  BY CountsAreNat DEF Control
<1>5. /\ flusher \in Flushers /\ helper \in Helpers /\ toHelper \in Seq(HelperLines) /\ toApp \in Seq(AppLines)
      /\ free \in Seq(RingSlot) /\ ready \in Seq(SlotLines) /\ lent \in 0..Slots /\ helper.grants \in Seq(RingSlot)
  BY HelperFields DEF Control, Types, RingTypes, ThreadTypes, PipeTypes
<1>6. UNCHANGED <<mode, free, ready, lent, flusher, helper>>
  BY DEF OnQuota, HelperOnly
<1>7. /\ HoldsLine(toHelper', {"grant"}, s) = HoldsLine(toHelper, {"grant"}, s)
      /\ HoldsLine(toApp', {"next", "final"}, s) = HoldsLine(toApp, {"next", "final"}, s)
  <2>1. Line("quota") \in HelperLines /\ Line("quota").kind # "grant"
    BY SaidToHelper, Said
  <2>2. HoldsLine(toHelper', {"grant"}, s) = HoldsLine(toHelper, {"grant"}, s)
    BY <2>1, <1>5, SaysCounts DEF OnQuota
  <2>3. "quota" \notin {"next", "final"}
    OBVIOUS
  <2> QED
    BY <2>2, <2>3, <1>5, ReadCounts DEF OnQuota
<1> QED
  BY <1>3, <1>4, <1>6, <1>7 DEF Owners, One

\* A result is for the UI.
LEMMA OnResultOwn == ASSUME Control, Control', OwnersOK, OnResult PROVE OwnersOK'
<1>1. SUFFICES ASSUME Started', NEW s \in RingSlot PROVE Owners(s)' <= 1
  BY DEF OwnersOK
<1>2. Started
  BY <1>1 DEF OnResult, HelperOnly, Started, Moves, Mapped, Heads
<1>3. Owners(s) <= 1
  BY <1>2 DEF OwnersOK
<1>4. /\ Holds(free, s) \in Nat /\ HoldsLine(ready, {"slot"}, s) \in Nat
      /\ HoldsLine(toHelper, {"grant"}, s) \in Nat /\ Holds(helper.grants, s) \in Nat
      /\ HoldsLine(toApp, {"next", "final"}, s) \in Nat
  BY CountsAreNat DEF Control
<1>5. /\ flusher \in Flushers /\ helper \in Helpers /\ toHelper \in Seq(HelperLines) /\ toApp \in Seq(AppLines)
      /\ free \in Seq(RingSlot) /\ ready \in Seq(SlotLines) /\ lent \in 0..Slots /\ helper.grants \in Seq(RingSlot)
  BY HelperFields DEF Control, Types, RingTypes, ThreadTypes, PipeTypes
<1>6. UNCHANGED <<mode, free, ready, lent, flusher, helper, toHelper>>
  BY DEF OnResult, HelperOnly
<1>7. HoldsLine(toApp', {"next", "final"}, s) = HoldsLine(toApp, {"next", "final"}, s)
  <2>1. "done" \notin {"next", "final"}
    OBVIOUS
  <2> QED
    BY <2>1, <1>5, ReadCounts DEF OnResult
<1> QED
  BY <1>3, <1>4, <1>6, <1>7 DEF Owners, One

\* The transfer before is stopped: the ring is not in use.
LEMMA OnOpenOwn == ASSUME Control, Control', OwnersOK, OnOpen PROVE OwnersOK'
<1>1. helper'.pc \in {"open", "gone"}
  BY DEF OnOpen, Goto, Control, ReaderOK, Opening
<1>2. ~Mapped'
  <2>1. helper'.pc = "open" => toHelper' = <<>>
    BY DEF OnOpen, Goto, Control, Wires, OpenWire
  <2> QED
    BY <2>1, Nothing DEF Mapped
<1> QED
  BY <1>1, <1>2 DEF OwnersOK, Started, Moves

\* The file is opened, or not.
LEMMA OnOpenFileOwn == ASSUME Control, Control', OwnersOK, OnOpenFile PROVE OwnersOK'
<1>1. /\ helper'.pc \in {"open", "gone"} /\ helper' = helper /\ toHelper \in Seq(HelperLines)
      /\ helper.pc = "open" => toHelper = <<>>
  BY DEF OnOpenFile, Control, Types, PipeTypes, ReaderOK, Opening, Wires, OpenWire
<1>2. ~Mapped'
  <2>1. CASE UNCHANGED toHelper
    BY <1>1, <2>1, Nothing DEF Mapped
  <2>2. CASE Says(<<Line("refused")>>)
    <3>1. Line("refused") \in HelperLines /\ Line("refused").kind # "map"
      BY SaidToHelper, Said
    <3>2. helper.pc = "open" => toHelper' = <<Line("refused")>>
      BY <1>1, <2>2, <3>1, SaysGrows DEF Grown
    <3>3. ~Heads(<<Line("refused")>>, "map")
      BY <3>1, OneLine
    <3> QED
      BY <1>1, <3>2, <3>3 DEF Mapped
  <2> QED
    BY <2>1, <2>2 DEF OnOpenFile
<1> QED
  BY <1>1, <1>2 DEF OwnersOK, Started, Moves

\* A filled slot is queued.
LEMMA OnNextCreditOwn == ASSUME Control, Control', OwnersOK, OnNextCredit PROVE OwnersOK'
<1>1. SUFFICES ASSUME Started', NEW s \in RingSlot PROVE Owners(s)' <= 1
  BY DEF OwnersOK
<1>2. Started
  BY <1>1 DEF OnNextCredit, HelperOnly, Started, Moves, Mapped, Heads
<1>3. Owners(s) <= 1
  BY <1>2 DEF OwnersOK
<1>4. /\ Holds(free, s) \in Nat /\ HoldsLine(ready, {"slot"}, s) \in Nat
      /\ HoldsLine(toHelper, {"grant"}, s) \in Nat /\ Holds(helper.grants, s) \in Nat
      /\ HoldsLine(toApp, {"next", "final"}, s) \in Nat
  BY CountsAreNat DEF Control
<1>5. /\ flusher \in Flushers /\ helper \in Helpers /\ toHelper \in Seq(HelperLines) /\ toApp \in Seq(AppLines)
      /\ free \in Seq(RingSlot) /\ ready \in Seq(SlotLines) /\ lent \in 0..Slots /\ helper.grants \in Seq(RingSlot)
  BY HelperFields DEF Control, Types, RingTypes, ThreadTypes, PipeTypes
<1>6. UNCHANGED <<mode, free, lent, flusher, helper, toHelper>>
  BY DEF OnNextCredit, HelperOnly
<1>7. /\ Head(toApp).slot # s =>
              HoldsLine(toApp', {"next", "final"}, s) = HoldsLine(toApp, {"next", "final"}, s)
      /\ Head(toApp).slot = s =>
              HoldsLine(toApp, {"next", "final"}, s) = HoldsLine(toApp', {"next", "final"}, s) + 1
      /\ HoldsLine(toApp', {"next", "final"}, s) \in Nat /\ mode = "credit"
  <2>1. "next" \in {"next", "final"}
    OBVIOUS
  <2> QED
    BY <2>1, <1>5, ReadCounts DEF OnNextCredit
<1>8. \/ HoldsLine(ready', {"slot"}, s) = HoldsLine(ready, {"slot"}, s)
      \/ Head(toApp).slot = s /\ HoldsLine(ready', {"slot"}, s) = HoldsLine(ready, {"slot"}, s) + 1
  <2>1. Head(toApp) \in AppLines /\ Head(toApp).kind = "next"
    BY <1>5, ReadShrinks DEF OnNextCredit
  <2>2. Head(toApp).n \in 0..SlotUnits /\ (Head(toApp).n > 0 => Head(toApp).slot \in RingSlot)
    BY <2>1 DEF AppLines
  <2>3. CASE Head(toApp).n > 0
    <3>1. Head(toApp).n \in 1..SlotUnits /\ Head(toApp).slot \in RingSlot
      BY <2>2, <2>3, RingAssumption
    <3>2. ready' = Append(ready, SlotLine("slot", Head(toApp).slot, Head(toApp).n))
      BY <2>3 DEF OnNextCredit, ReadyWith
    <3> QED
      BY <3>1, <3>2, <1>5, ReadyCounts
  <2>4. CASE ~(Head(toApp).n > 0)
    BY <2>4 DEF OnNextCredit, ReadyWith
  <2> QED
    BY <2>3, <2>4
<1> QED
  BY <1>3, <1>4, <1>6, <1>7, <1>8 DEF Owners, One

\* The slot goes back, or to the queue.
LEMMA OnNextReturnOwn == ASSUME Control, Control', OwnersOK, OnNextReturn PROVE OwnersOK'
<1>1. SUFFICES ASSUME Started', NEW s \in RingSlot PROVE Owners(s)' <= 1
  BY DEF OwnersOK
<1>2. Started
  BY <1>1 DEF OnNextReturn, HelperOnly, Started, Moves, Mapped, Heads
<1>3. Owners(s) <= 1
  BY <1>2 DEF OwnersOK
<1>4. /\ Holds(free, s) \in Nat /\ HoldsLine(ready, {"slot"}, s) \in Nat
      /\ HoldsLine(toHelper, {"grant"}, s) \in Nat /\ Holds(helper.grants, s) \in Nat
      /\ HoldsLine(toApp, {"next", "final"}, s) \in Nat
  BY CountsAreNat DEF Control
<1>5. /\ flusher \in Flushers /\ helper \in Helpers /\ toHelper \in Seq(HelperLines) /\ toApp \in Seq(AppLines)
      /\ free \in Seq(RingSlot) /\ ready \in Seq(SlotLines) /\ lent \in 0..Slots /\ helper.grants \in Seq(RingSlot)
  BY HelperFields DEF Control, Types, RingTypes, ThreadTypes, PipeTypes
<1>6. UNCHANGED <<mode, flusher, helper, toHelper>>
  BY DEF OnNextReturn, HelperOnly
<1>7. lent' # s /\ mode # "credit"
  BY SlotFacts DEF OnNextReturn
<1>8. \/ Holds(free', s) = Holds(free, s) /\ HoldsLine(ready', {"slot"}, s) = HoldsLine(ready, {"slot"}, s)
      \/ lent = s /\ Holds(free', s) = Holds(free, s) + 1 /\ HoldsLine(ready', {"slot"}, s) = HoldsLine(ready, {"slot"}, s)
      \/ lent = s /\ Holds(free', s) = Holds(free, s) /\ HoldsLine(ready', {"slot"}, s) = HoldsLine(ready, {"slot"}, s) + 1
  <2>1. Head(toApp) \in AppLines /\ Head(toApp).kind = "next"
    BY <1>5, ReadShrinks DEF OnNextReturn
  <2>2. Head(toApp).n \in 0..SlotUnits
    BY <2>1 DEF AppLines
  <2>3. Head(toApp).n > 0 => Head(toApp).n \in 1..SlotUnits
    BY <2>2, RingAssumption
  <2>4. lent # None => lent \in RingSlot
    BY <1>5, SlotFacts
  <2>5. \/ free' = free /\ ready' = ready
        \/ lent # None /\ free' = Append(free, lent) /\ ready' = ready
        \/ lent # None /\ Head(toApp).n > 0 /\ free' = free /\ ready' = Append(ready, SlotLine("slot", lent, Head(toApp).n))
    BY DEF OnNextReturn, ReadyWith
  <2>6. CASE free' = free /\ ready' = ready
    BY <2>6
  <2>7. CASE lent # None /\ free' = Append(free, lent) /\ ready' = ready
    BY <2>4, <2>7, <1>5, HoldsAppend
  <2>8. CASE /\ lent # None /\ Head(toApp).n > 0 /\ free' = free
             /\ ready' = Append(ready, SlotLine("slot", lent, Head(toApp).n))
    BY <2>3, <2>4, <2>8, <1>5, ReadyCounts
  <2> QED
    BY <2>5, <2>6, <2>7, <2>8
<1> QED
  BY <1>3, <1>4, <1>6, <1>7, <1>8 DEF Owners, One

\* The ring is fresh: every slot is free, or granted, once.
LEMMA OnOpenStartOwn == ASSUME Control, Control', OwnersOK, OnOpenStart PROVE OwnersOK'
<1>1. SUFFICES ASSUME Started', NEW s \in RingSlot PROVE Owners(s)' <= 1
  BY DEF OnOpenStart, OwnersOK
<1>2. /\ helper' = helper /\ helper.pc = "open" /\ toApp' = <<>> /\ toHelper = <<>>
      /\ Download => helper.grants = <<>>
  <2>1. helper.pc \in {"open", "gone"} /\ helper' = helper /\ toApp' = <<>>
    BY DEF OnOpenStart, Control, ReaderOK, Opening
  <2>2. helper.pc = "open"
    BY <1>1, <2>1 DEF Started, Moves, Mapped
  <2> QED
    BY <2>1, <2>2 DEF OnOpenStart, Control, HelperOK, Wires, OpenWire
<1>3. /\ mode' = mode /\ free' = (IF mode = "credit" THEN <<>> ELSE AllFree) /\ ready' = <<>> /\ lent' = None
      /\ flusher'.slot = None
  BY DEF OnOpenStart
<1>4. mode = "credit" => toHelper' = <<Line("map")>> \o [i \in 1..Slots |-> SlotLine("grant", i - 1, SlotUnits)]
  <2>1. \A i \in 1..Slots : i - 1 \in RingSlot
    BY RingAssumption DEF RingSlot
  <2>2. \A i \in 1..Slots : SlotLine("grant", i - 1, SlotUnits) \in HelperLines
    BY <2>1, SaidToHelper
  <2>3. [i \in 1..Slots |-> SlotLine("grant", i - 1, SlotUnits)] \in Seq(HelperLines)
    <3>1. [i \in 1..Slots |-> SlotLine("grant", i - 1, SlotUnits)] \in [1..Slots -> HelperLines]
      BY <2>2
    <3> QED
      BY <3>1, RingAssumption
  <2> DEFINE grants == [i \in 1..Slots |-> SlotLine("grant", i - 1, SlotUnits)]
  <2>4. mode = "credit" => Says(<<Line("map")>> \o grants)
    BY DEF OnOpenStart
  <2> HIDE DEF grants
  <2>5. <<Line("map")>> \o grants \in Seq(HelperLines)
    <3>1. Line("map") \in HelperLines
      BY SaidToHelper
    <3>2. grants \in Seq(HelperLines)
      BY <2>3 DEF grants
    <3> QED
      BY <3>1, <3>2
  <2>6. mode = "credit" => toHelper' = <<Line("map")>> \o grants
    BY <1>2, <2>4, <2>5, ConcatEmptySeq DEF Says
  <2> QED
    BY <2>6 DEF grants
<1>5. lent' # s /\ flusher'.slot # s
  BY <1>3, SlotFacts
<1>6. HoldsLine(ready', {"slot"}, s) = 0 /\ HoldsLine(toApp', {"next", "final"}, s) = 0
  BY <1>2, <1>3, HoldsNothing
<1>7. CASE mode = "credit"
  <2>1. mode' = "credit" /\ Holds(free', s) = 0 /\ Holds(helper.grants, s) = 0
    BY <1>2, <1>3, <1>7, HoldsNothing DEF Download
  <2>2. HoldsLine(toHelper', {"grant"}, s) \in 0..1
    BY <1>4, <1>7, FreshRing
  <2> QED
    BY <1>2, <1>5, <1>6, <2>1, <2>2 DEF Owners, One
<1>8. CASE mode # "credit"
  <2>1. mode' # "credit" /\ Holds(free', s) \in 0..1
    BY <1>3, <1>8, FreshRing
  <2> QED
    BY <1>5, <1>6, <2>1 DEF Owners, One
<1> QED
  BY <1>7, <1>8

\* The reader lends the next slot.
LEMMA OnNextLendOwn == ASSUME Control, Control', OwnersOK, OnNextLend PROVE OwnersOK'
<1>1. SUFFICES ASSUME Started', NEW s \in RingSlot PROVE Owners(s)' <= 1
  BY DEF OwnersOK
<1>2. Started
  <2>1. helper' = helper /\ helper.pc \in {"ask", "gone"}
    BY DEF OnNextLend, Control, ReaderOK
  <2> QED
    BY <1>1, <2>1 DEF Started, Moves, Mapped
<1>3. Owners(s) <= 1
  BY <1>2 DEF OwnersOK
<1>4. /\ Holds(free, s) \in Nat /\ HoldsLine(ready, {"slot"}, s) \in Nat
      /\ HoldsLine(toHelper, {"grant"}, s) \in Nat /\ Holds(helper.grants, s) \in Nat
      /\ HoldsLine(toApp, {"next", "final"}, s) \in Nat
  BY CountsAreNat DEF Control
<1>5. /\ flusher \in Flushers /\ helper \in Helpers /\ toHelper \in Seq(HelperLines) /\ toApp \in Seq(AppLines)
      /\ free \in Seq(RingSlot) /\ ready \in Seq(SlotLines) /\ lent \in 0..Slots /\ helper.grants \in Seq(RingSlot)
  BY HelperFields DEF Control, Types, RingTypes, ThreadTypes, PipeTypes
<1>6. UNCHANGED <<mode, flusher, helper, toApp>>
  BY DEF OnNextLend, HelperOnly
<1>7. lent = None /\ lent # s /\ mode # "credit"
  BY SlotFacts DEF OnNextLend, Control, ReaderOK
<1>8. \/ Holds(free', s) = Holds(free, s) /\ HoldsLine(ready', {"slot"}, s) = HoldsLine(ready, {"slot"}, s) /\ lent' # s
      \/ /\ HoldsLine(ready', {"slot"}, s) = HoldsLine(ready, {"slot"}, s) /\ Holds(free', s) \in Nat
         /\ Holds(free', s) + 1 = Holds(free, s)
      \/ /\ Holds(free', s) = Holds(free, s) /\ HoldsLine(ready', {"slot"}, s) \in Nat
         /\ HoldsLine(ready', {"slot"}, s) + 1 = HoldsLine(ready, {"slot"}, s)
  <2>1. CASE UNCHANGED ringState
    BY <1>7, <2>1
  <2>2. CASE free # <<>> /\ lent' = Head(free) /\ free' = Tail(free) /\ UNCHANGED ready
    BY <2>2, <1>5, HoldsTail
  <2>3. CASE ready # <<>> /\ lent' = Head(ready).slot /\ ready' = Tail(ready) /\ UNCHANGED free
    <3>1. Head(ready).kind \in {"slot"}
      <4>1. Head(ready) \in SlotLines
        BY <2>3, <1>5, TailLines
      <4> QED
        BY <4>1 DEF SlotLines
    <3> QED
      BY <2>3, <3>1, <1>5, HoldsLineTail
  <2> QED
    BY <2>1, <2>2, <2>3 DEF OnNextLend
<1> QED
  BY <1>3, <1>4, <1>6, <1>7, <1>8 DEF Owners, One

\* The trailing slot is queued.
LEMMA OnFinalizeOwn == ASSUME Control, Control', OwnersOK, OnFinalize PROVE OwnersOK'
<1>1. SUFFICES ASSUME Started', NEW s \in RingSlot PROVE Owners(s)' <= 1
  BY DEF OwnersOK
<1>2. Started
  BY <1>1 DEF OnFinalize, HelperOnly, Started, Moves, Mapped, Heads
<1>3. Owners(s) <= 1
  BY <1>2 DEF OwnersOK
<1>4. /\ Holds(free, s) \in Nat /\ HoldsLine(ready, {"slot"}, s) \in Nat
      /\ HoldsLine(toHelper, {"grant"}, s) \in Nat /\ Holds(helper.grants, s) \in Nat
      /\ HoldsLine(toApp, {"next", "final"}, s) \in Nat
  BY CountsAreNat DEF Control
<1>5. /\ flusher \in Flushers /\ helper \in Helpers /\ toHelper \in Seq(HelperLines) /\ toApp \in Seq(AppLines)
      /\ free \in Seq(RingSlot) /\ ready \in Seq(SlotLines) /\ lent \in 0..Slots /\ helper.grants \in Seq(RingSlot)
  BY HelperFields DEF Control, Types, RingTypes, ThreadTypes, PipeTypes
<1>6. UNCHANGED <<mode, free, flusher, helper, toHelper>>
  BY DEF OnFinalize, HelperOnly
<1>7. /\ Head(toApp).slot # s =>
              HoldsLine(toApp', {"next", "final"}, s) = HoldsLine(toApp, {"next", "final"}, s)
      /\ Head(toApp).slot = s =>
              HoldsLine(toApp, {"next", "final"}, s) = HoldsLine(toApp', {"next", "final"}, s) + 1
      /\ HoldsLine(toApp', {"next", "final"}, s) \in Nat
  <2>1. "final" \in {"next", "final"}
    OBVIOUS
  <2> QED
    BY <2>1, <1>5, ReadCounts DEF OnFinalize
<1>8. lent' # s
  BY SlotFacts DEF OnFinalize
<1>9. \/ HoldsLine(ready', {"slot"}, s) = HoldsLine(ready, {"slot"}, s)
      \/ /\ HoldsLine(ready', {"slot"}, s) = HoldsLine(ready, {"slot"}, s) + 1
         /\ IF mode = "credit" THEN Head(toApp).slot = s ELSE lent = s
  <2>1. Head(toApp) \in AppLines /\ Head(toApp).kind = "final"
    BY <1>5, ReadShrinks DEF OnFinalize
  <2>2. Head(toApp).n \in 0..SlotUnits /\ (Head(toApp).n > 0 => Head(toApp).slot \in RingSlot)
    BY <2>1 DEF AppLines
  <2>3. Head(toApp).n > 0 => Head(toApp).n \in 1..SlotUnits
    BY <2>2, RingAssumption
  <2>4. lent # None => lent \in RingSlot
    BY <1>5, SlotFacts
  <2>5. \/ ready' = ready
        \/ Head(toApp).n > 0 /\ mode = "credit" /\ ready' = Append(ready, SlotLine("slot", Head(toApp).slot, Head(toApp).n))
        \/ /\ Head(toApp).n > 0 /\ mode # "credit" /\ lent # None
           /\ ready' = Append(ready, SlotLine("slot", lent, Head(toApp).n))
    BY DEF OnFinalize, ReadyWith
  <2>6. CASE ready' = ready
    BY <2>6
  <2>7. CASE /\ Head(toApp).n > 0 /\ mode = "credit"
             /\ ready' = Append(ready, SlotLine("slot", Head(toApp).slot, Head(toApp).n))
    BY <2>2, <2>3, <2>7, <1>5, ReadyCounts
  <2>8. CASE /\ Head(toApp).n > 0 /\ mode # "credit" /\ lent # None
             /\ ready' = Append(ready, SlotLine("slot", lent, Head(toApp).n))
    BY <2>3, <2>4, <2>8, <1>5, ReadyCounts
  <2> QED
    BY <2>5, <2>6, <2>7, <2>8
<1> QED
  BY <1>3, <1>4, <1>6, <1>7, <1>8, <1>9 DEF Owners, One

\* The verdict is said.
LEMMA OnFinalizeJoinOwn == ASSUME Control, Control', OwnersOK, OnFinalizeJoin PROVE OwnersOK'
<1>1. SUFFICES ASSUME Started', NEW s \in RingSlot PROVE Owners(s)' <= 1
  BY DEF OwnersOK
<1>2. Started
  <2>1. \E x \in HelperLines : Says(<<x>>) /\ x.kind # "map"
    BY Said, SaidToHelper DEF OnFinalizeJoin
  <2> QED
    BY <1>1, <2>1, SaysNoMap DEF OnFinalizeJoin, Control, Types, PipeTypes
<1>3. Owners(s) <= 1
  BY <1>2 DEF OwnersOK
<1>4. /\ Holds(free, s) \in Nat /\ HoldsLine(ready, {"slot"}, s) \in Nat
      /\ HoldsLine(toHelper, {"grant"}, s) \in Nat /\ Holds(helper.grants, s) \in Nat
      /\ HoldsLine(toApp, {"next", "final"}, s) \in Nat
  BY CountsAreNat DEF Control
<1>5. /\ flusher \in Flushers /\ helper \in Helpers /\ toHelper \in Seq(HelperLines) /\ toApp \in Seq(AppLines)
      /\ free \in Seq(RingSlot) /\ ready \in Seq(SlotLines) /\ lent \in 0..Slots /\ helper.grants \in Seq(RingSlot)
  BY HelperFields DEF Control, Types, RingTypes, ThreadTypes, PipeTypes
<1>6. UNCHANGED <<mode, free, ready, lent, flusher, helper, toApp>>
  BY DEF OnFinalizeJoin, HelperOnly
<1>7. \E x \in HelperLines : Says(<<x>>) /\ x.kind # "grant"
  BY Said, SaidToHelper DEF OnFinalizeJoin
<1>8. HoldsLine(toHelper', {"grant"}, s) = HoldsLine(toHelper, {"grant"}, s)
  BY <1>5, <1>7, SaysCounts
<1> QED
  BY <1>3, <1>4, <1>6, <1>8 DEF Owners, One

\* The reader ends.
LEMMA OnEndOwn == ASSUME Control, Control', OwnersOK, OnEnd PROVE OwnersOK'
<1> QED
  BY SameOwners DEF OnEnd, HelperOnly

\* A unit is stored.
LEMMA StoreOwn == ASSUME Control, Control', OwnersOK, Store PROVE OwnersOK'
<1>1. helper'.pc = helper.pc /\ helper'.slot = helper.slot /\ helper'.grants = helper.grants
  <2>1. helper \in Helpers
    BY DEF Control, Types, ThreadTypes
  <2> QED
    BY <2>1 DEF Store, Helpers
<1> QED
  BY <1>1, SameOwners DEF Store, HelperOnly

\* A unit is sent.
LEMMA SendOwn == ASSUME Control, Control', OwnersOK, Send PROVE OwnersOK'
<1>1. helper'.pc = helper.pc /\ helper'.slot = helper.slot /\ helper'.grants = helper.grants
  <2>1. helper \in Helpers
    BY DEF Control, Types, ThreadTypes
  <2> QED
    BY <2>1 DEF Send, Helpers
<1> QED
  BY <1>1, SameOwners DEF Send, HelperOnly

\* The I/O thread is stopped.
LEMMA SetIoContextOwn == ASSUME Control, Control', OwnersOK, SetIoContext PROVE OwnersOK'
<1> QED
  BY SameOwners DEF SetIoContext, HelperOnly

\* The result is taken.
LEMMA ResultOwn == ASSUME Control, Control', OwnersOK, Result PROVE OwnersOK'
<1> QED
  BY SameOwners DEF Result, HelperOnly

\* The helper is gone.
LEMMA ConnectionClosedOwn == ASSUME Control, Control', OwnersOK, ConnectionClosed PROVE OwnersOK'
<1> QED
  BY SameOwners DEF ConnectionClosed, HelperOnly

\* The user stops the transfer.
LEMMA PauseOwn == ASSUME Control, Control', OwnersOK, Pause PROVE OwnersOK'
<1> QED
  BY SameOwners DEF Pause, HelperOnly

\* The I/O thread is woken.
LEMMA StopSignalOwn == ASSUME Control, Control', OwnersOK, StopSignal PROVE OwnersOK'
<1> QED
  BY SameOwners DEF StopSignal, HelperOnly

\* The reader is joined.
LEMMA StopJoinOwn == ASSUME Control, Control', OwnersOK, StopJoin PROVE OwnersOK'
<1> QED
  BY SameOwners DEF StopJoin, HelperOnly

\* The results are forgotten.
LEMMA StopDropOwn == ASSUME Control, Control', OwnersOK, StopDrop PROVE OwnersOK'
<1> QED
  BY SameOwners DEF StopDrop, HelperOnly

\* Nothing happens.
LEMMA RestOwn == ASSUME Control, Control', OwnersOK, UNCHANGED ringVars PROVE OwnersOK'
<1> QED
  BY SameOwners DEF ringVars, HelperOnly

\* A transfer begins.
LEMMA CommandOwn == ASSUME Control, Control', OwnersOK, Command PROVE OwnersOK'
<1>1. helper \in Helpers /\ toHelper \in Seq(HelperLines)
  BY DEF Control, Types, ThreadTypes, PipeTypes
<1>2. helper'.pc \in {"open", "report"}
  BY <1>1 DEF Command, Fails, Helpers
<1>3. toHelper' = <<>>
  <2>1. Has(toHelper, "get") /\ Alive
    BY <1>1, TakeShrinks DEF Command, Alive, Hears, Shrunk
  <2>2. toHelper = <<Line("get")>>
    BY <2>1 DEF Control, Wires, CommandWire, GetState
  <2> QED
    BY <2>2, LoneLines DEF Command, Take
<1>4. ~Mapped'
  BY <1>3, Nothing DEF Mapped
<1> QED
  BY <1>2, <1>4 DEF OwnersOK, Started, Moves

\* The helper gives up.
LEMMA StrayLineOwn == ASSUME Control, Control', OwnersOK, StrayLine PROVE OwnersOK'
<1>1. helper'.pc = "gone"
  BY NoHelperIs DEF StrayLine
<1>2. ~Mapped'
  BY <1>1 DEF Mapped
<1> QED
  BY <1>1, <1>2 DEF OwnersOK, Started, Moves

\* The helper dies.
LEMMA HelperDiesOwn == ASSUME Control, Control', OwnersOK, HelperDies PROVE OwnersOK'
<1>1. helper'.pc = "gone"
  BY NoHelperIs DEF HelperDies
<1>2. ~Mapped'
  BY <1>1 DEF Mapped
<1> QED
  BY <1>1, <1>2 DEF OwnersOK, Started, Moves

\* The helper is killed.
LEMMA StopKillOwn == ASSUME Control, Control', OwnersOK, StopKill PROVE OwnersOK'
<1>1. helper'.pc = "gone"
  BY NoHelperIs DEF StopKill
<1>2. ~Mapped'
  BY <1>1 DEF Mapped
<1> QED
  BY <1>1, <1>2 DEF OwnersOK, Started, Moves

\* The helper hears of an error.
LEMMA QuotaLostOwn == ASSUME Control, Control', OwnersOK, helper' = NoHelper PROVE OwnersOK'
<1>1. helper'.pc = "gone"
  BY NoHelperIs 
<1>2. ~Mapped'
  BY <1>1 DEF Mapped
<1> QED
  BY <1>1, <1>2 DEF OwnersOK, Started, Moves

\* A helper is started.
LEMMA LaunchOwn == ASSUME Control, Control', OwnersOK, Launch PROVE OwnersOK'
<1>1. helper'.pc = "command"
  BY DEF Launch, NoHelper
<1>2. ~Mapped'
  BY <1>1 DEF Mapped
<1> QED
  BY <1>1, <1>2 DEF OwnersOK, Started, Moves

\* The command is sent.
LEMMA SendXferOwn == ASSUME Control, Control', OwnersOK, SendXfer PROVE OwnersOK'
<1>1. helper'.pc \in {"command", "gone"}
  BY DEF SendXfer, Control, BossOK, Idle
<1>2. ~Mapped'
  BY <1>1 DEF Mapped
<1> QED
  BY <1>1, <1>2 DEF OwnersOK, Started, Moves

\* The helper gets no slot.
LEMMA NextNoneOwn == ASSUME Control, Control', OwnersOK, NextNone PROVE OwnersOK'
<1>1. helper'.pc = "report"
  <2>1. helper \in Helpers
    BY DEF Control, Types, ThreadTypes
  <2> QED
    BY <2>1, Turned DEF NextNone, Helping, HelperPlaces
<1>2. ~Mapped'
  BY <1>1 DEF Mapped
<1> QED
  BY <1>1, <1>2 DEF OwnersOK, Started, Moves

\* The helper gets the verdict.
LEMMA FinalizedOwn == ASSUME Control, Control', OwnersOK, Finalized PROVE OwnersOK'
<1>1. helper'.pc = "report"
  <2>1. helper \in Helpers
    BY DEF Control, Types, ThreadTypes
  <2> QED
    BY <2>1, Turned DEF Finalized, Helping, HelperPlaces
<1>2. ~Mapped'
  BY <1>1 DEF Mapped
<1> QED
  BY <1>1, <1>2 DEF OwnersOK, Started, Moves

\* The result is told.
LEMMA ReportDoneOwn == ASSUME Control, Control', OwnersOK, ReportDone PROVE OwnersOK'
<1>1. helper'.pc = "command"
  <2>1. helper \in Helpers
    BY DEF Control, Types, ThreadTypes
  <2> QED
    BY <2>1, Turned DEF ReportDone, Helping, HelperPlaces
<1>2. ~Mapped'
  BY <1>1 DEF Mapped
<1> QED
  BY <1>1, <1>2 DEF OwnersOK, Started, Moves

\* A grant is put aside.
LEMMA SiphonOwn == ASSUME Control, Control', OwnersOK, Siphon PROVE OwnersOK'
<1>1. SUFFICES ASSUME Started', NEW s \in RingSlot PROVE Owners(s)' <= 1
  BY DEF OwnersOK
<1>2. Started
  <2>1. helper.pc # "open" /\ helper.pc \in {"open", "ask", "quota", "final"}
    BY LoneLines, Said DEF Siphon, Hears, Control, Wires, OpenWire, Mapped, Heads
  <2> QED
    BY <2>1 DEF Started, Moves
<1>3. Owners(s) <= 1
  BY <1>2 DEF OwnersOK
<1>4. /\ Holds(free, s) \in Nat /\ HoldsLine(ready, {"slot"}, s) \in Nat
      /\ HoldsLine(toHelper, {"grant"}, s) \in Nat /\ Holds(helper.grants, s) \in Nat
      /\ HoldsLine(toApp, {"next", "final"}, s) \in Nat
  BY CountsAreNat DEF Control
<1>5. /\ flusher \in Flushers /\ helper \in Helpers /\ toHelper \in Seq(HelperLines) /\ toApp \in Seq(AppLines)
      /\ free \in Seq(RingSlot) /\ ready \in Seq(SlotLines) /\ lent \in 0..Slots /\ helper.grants \in Seq(RingSlot)
  BY HelperFields DEF Control, Types, RingTypes, ThreadTypes, PipeTypes
<1>6. UNCHANGED <<mode, free, ready, lent, flusher, toApp>>
  BY DEF Siphon, HelperOnly
<1>a. helper'.pc = helper.pc /\ helper'.slot = helper.slot /\ helper'.grants = Append(helper.grants, Head(toHelper).slot)
  BY <1>5 DEF Siphon, Helpers
<1>b. Head(toHelper) \in HelperLines /\ Head(toHelper).kind = "grant" /\ toHelper # <<>>
  BY <1>5, TakeShrinks DEF Siphon, Hears
<1>c. Head(toHelper).slot \in RingSlot
  BY <1>b DEF HelperLines
<1>7. /\ Head(toHelper).slot # s => Holds(helper'.grants, s) = Holds(helper.grants, s)
      /\ Head(toHelper).slot = s => Holds(helper'.grants, s) = Holds(helper.grants, s) + 1
  BY <1>5, <1>a, <1>c, HoldsAppend
<1>8. /\ Head(toHelper).slot # s => HoldsLine(toHelper', {"grant"}, s) = HoldsLine(toHelper, {"grant"}, s)
      /\ Head(toHelper).slot = s => HoldsLine(toHelper, {"grant"}, s) = HoldsLine(toHelper', {"grant"}, s) + 1
      /\ HoldsLine(toHelper', {"grant"}, s) \in Nat
  <2>1. Head(toHelper).kind \in {"grant"}
    BY <1>b
  <2> QED
    BY <2>1, <1>5, <1>b, HoldsLineTail DEF Siphon, Take
<1> QED
  BY <1>3, <1>4, <1>6, <1>a, <1>7, <1>8 DEF Owners, One

\* The helper hears of the mapping.
LEMMA OpenedOwn == ASSUME Control, Control', OwnersOK, Opened PROVE OwnersOK'
<1>1. SUFFICES ASSUME Started', NEW s \in RingSlot PROVE Owners(s)' <= 1
  BY DEF OwnersOK
<1>2. Started
  <2>1. helper \in Helpers
    BY DEF Control, Types, ThreadTypes
  <2>2. CASE Hears("map")
    BY <2>2 DEF Opened, Started, Mapped, Hears, Heads
  <2>3. CASE Fails("report")
    BY <1>1, <2>1, <2>3, Turned DEF Started, Moves, Mapped, Helping, HelperPlaces
  <2> QED
    BY <2>2, <2>3 DEF Opened
<1>3. Owners(s) <= 1
  BY <1>2 DEF OwnersOK
<1>4. /\ Holds(free, s) \in Nat /\ HoldsLine(ready, {"slot"}, s) \in Nat
      /\ HoldsLine(toHelper, {"grant"}, s) \in Nat /\ Holds(helper.grants, s) \in Nat
      /\ HoldsLine(toApp, {"next", "final"}, s) \in Nat
  BY CountsAreNat DEF Control
<1>5. /\ flusher \in Flushers /\ helper \in Helpers /\ toHelper \in Seq(HelperLines) /\ toApp \in Seq(AppLines)
      /\ free \in Seq(RingSlot) /\ ready \in Seq(SlotLines) /\ lent \in 0..Slots /\ helper.grants \in Seq(RingSlot)
  BY HelperFields DEF Control, Types, RingTypes, ThreadTypes, PipeTypes
<1>6. UNCHANGED <<mode, free, ready, lent, flusher, toApp>>
  BY DEF Opened, HelperOnly
<1>7. /\ helper'.grants = helper.grants /\ helper'.slot # s /\ helper.slot # s
  <2>1. helper.slot = None
    BY DEF Opened, Control, HelperOK
  <2>2. helper'.slot = helper.slot /\ helper'.grants = helper.grants
    BY <1>5, Turned DEF Opened, Helping, HelperPlaces
  <2> QED
    BY <2>1, <2>2, SlotFacts
<1>8. HoldsLine(toHelper', {"grant"}, s) = HoldsLine(toHelper, {"grant"}, s)
  <2>1. CASE Hears("map")
    BY <2>1, <1>5, TakeCounts DEF Opened
  <2>2. CASE Hears("refused")
    BY <2>2, <1>5, TakeCounts DEF Opened
  <2> QED
    BY <2>1, <2>2 DEF Opened
<1> QED
  BY <1>3, <1>4, <1>6, <1>7, <1>8 DEF Owners, One

\* The next slot is asked for.
LEMMA AskOwn == ASSUME Control, Control', OwnersOK, Ask PROVE OwnersOK'
<1>1. SUFFICES ASSUME Started', NEW s \in RingSlot PROVE Owners(s)' <= 1
  BY DEF OwnersOK
<1>2. Started
  BY DEF Ask, Started, Moves
<1>3. Owners(s) <= 1
  BY <1>2 DEF OwnersOK
<1>4. /\ Holds(free, s) \in Nat /\ HoldsLine(ready, {"slot"}, s) \in Nat
      /\ HoldsLine(toHelper, {"grant"}, s) \in Nat /\ Holds(helper.grants, s) \in Nat
      /\ HoldsLine(toApp, {"next", "final"}, s) \in Nat
  BY CountsAreNat DEF Control
<1>5. /\ flusher \in Flushers /\ helper \in Helpers /\ toHelper \in Seq(HelperLines) /\ toApp \in Seq(AppLines)
      /\ free \in Seq(RingSlot) /\ ready \in Seq(SlotLines) /\ lent \in 0..Slots /\ helper.grants \in Seq(RingSlot)
  BY HelperFields DEF Control, Types, RingTypes, ThreadTypes, PipeTypes
<1>6. UNCHANGED <<mode, free, ready, lent, flusher, toHelper>>
  BY DEF Ask, HelperOnly
<1>7. helper'.grants = helper.grants /\ helper'.pc = "ask" /\ helper.pc = "run"
  BY <1>5, Turned DEF Ask, Helping, HelperPlaces
<1>8. \/ HoldsLine(toApp', {"next", "final"}, s) = HoldsLine(toApp, {"next", "final"}, s)
      \/ /\ helper.slot = s
         /\ HoldsLine(toApp', {"next", "final"}, s) = HoldsLine(toApp, {"next", "final"}, s) + 1
  <2>1. SlotLine("next", helper.slot, helper.fill) \in AppLines
    BY <1>5, HelperFields, SaidToApp DEF Control, HelperOK
  <2>2. /\ SlotLine("next", helper.slot, helper.fill).kind \in {"next", "final"}
        /\ SlotLine("next", helper.slot, helper.fill).slot = helper.slot
    BY Said
  <2>3. UNCHANGED toApp \/ Tells(SlotLine("next", helper.slot, helper.fill))
    BY DEF Ask
  <2>4. CASE Tells(SlotLine("next", helper.slot, helper.fill))
    BY <2>1, <2>2, <2>4, <1>5, TellsCounts
  <2> QED
    BY <2>3, <2>4
<1> QED
  BY <1>3, <1>4, <1>6, <1>7, <1>8 DEF Owners, One

\* A grant is used.
LEMMA NextGrantOwn == ASSUME Control, Control', OwnersOK, NextGrant PROVE OwnersOK'
<1>1. SUFFICES ASSUME Started', NEW s \in RingSlot PROVE Owners(s)' <= 1
  BY DEF OwnersOK
<1>2. Started
  BY DEF NextGrant, Started, Moves
<1>3. Owners(s) <= 1
  BY <1>2 DEF OwnersOK
<1>4. /\ Holds(free, s) \in Nat /\ HoldsLine(ready, {"slot"}, s) \in Nat
      /\ HoldsLine(toHelper, {"grant"}, s) \in Nat /\ Holds(helper.grants, s) \in Nat
      /\ HoldsLine(toApp, {"next", "final"}, s) \in Nat
  BY CountsAreNat DEF Control
<1>5. /\ flusher \in Flushers /\ helper \in Helpers /\ toHelper \in Seq(HelperLines) /\ toApp \in Seq(AppLines)
      /\ free \in Seq(RingSlot) /\ ready \in Seq(SlotLines) /\ lent \in 0..Slots /\ helper.grants \in Seq(RingSlot)
  BY HelperFields DEF Control, Types, RingTypes, ThreadTypes, PipeTypes
<1>6. UNCHANGED <<mode, free, ready, lent, flusher, toHelper, toApp>>
  BY DEF NextGrant, HelperOnly
<1>7. /\ helper.pc = "ask" /\ helper'.slot = Head(helper.grants) /\ helper'.grants = Tail(helper.grants)
      /\ helper.grants # <<>>
  BY <1>5 DEF NextGrant, Helpers
<1>8. /\ helper'.slot # s => Holds(helper'.grants, s) = Holds(helper.grants, s)
      /\ helper'.slot = s => Holds(helper.grants, s) = Holds(helper'.grants, s) + 1
      /\ Holds(helper'.grants, s) \in Nat
  BY <1>5, <1>7, HoldsTail
<1> QED
  BY <1>3, <1>4, <1>6, <1>7, <1>8 DEF Owners, One

\* The helper gets a slot.
LEMMA NextLentOwn == ASSUME Control, Control', OwnersOK, NextLent PROVE OwnersOK'
<1>1. SUFFICES ASSUME Started', NEW s \in RingSlot PROVE Owners(s)' <= 1
  BY DEF OwnersOK
<1>2. Started
  BY DEF NextLent, Started, Moves
<1>3. Owners(s) <= 1
  BY <1>2 DEF OwnersOK
<1>4. /\ Holds(free, s) \in Nat /\ HoldsLine(ready, {"slot"}, s) \in Nat
      /\ HoldsLine(toHelper, {"grant"}, s) \in Nat /\ Holds(helper.grants, s) \in Nat
      /\ HoldsLine(toApp, {"next", "final"}, s) \in Nat
  BY CountsAreNat DEF Control
<1>5. /\ flusher \in Flushers /\ helper \in Helpers /\ toHelper \in Seq(HelperLines) /\ toApp \in Seq(AppLines)
      /\ free \in Seq(RingSlot) /\ ready \in Seq(SlotLines) /\ lent \in 0..Slots /\ helper.grants \in Seq(RingSlot)
  BY HelperFields DEF Control, Types, RingTypes, ThreadTypes, PipeTypes
<1>6. UNCHANGED <<mode, free, ready, lent, flusher, toApp>>
  BY DEF NextLent, HelperOnly
<1>7. mode # "credit"
  BY DEF NextLent
<1> QED
  BY <1>3, <1>4, <1>6, <1>7 DEF Owners, One

\* Quota is asked for.
LEMMA QuotaAskOwn == ASSUME Control, Control', OwnersOK, /\ helper.pc = "run" /\ Tells(Line("quota"))
         /\ helper' = [helper EXCEPT !.pc = "quota", !.asked = TRUE]
         /\ UNCHANGED <<toHelper, contextVars, ringState, flagVars, flusher, reader, boss, inbox, starts, memory, landed, mishaps>> PROVE OwnersOK'
<1>1. SUFFICES ASSUME Started', NEW s \in RingSlot PROVE Owners(s)' <= 1
  BY DEF OwnersOK
<1>2. Started
  BY DEF Started, Moves
<1>3. Owners(s) <= 1
  BY <1>2 DEF OwnersOK
<1>4. /\ Holds(free, s) \in Nat /\ HoldsLine(ready, {"slot"}, s) \in Nat
      /\ HoldsLine(toHelper, {"grant"}, s) \in Nat /\ Holds(helper.grants, s) \in Nat
      /\ HoldsLine(toApp, {"next", "final"}, s) \in Nat
  BY CountsAreNat DEF Control
<1>5. /\ flusher \in Flushers /\ helper \in Helpers /\ toHelper \in Seq(HelperLines) /\ toApp \in Seq(AppLines)
      /\ free \in Seq(RingSlot) /\ ready \in Seq(SlotLines) /\ lent \in 0..Slots /\ helper.grants \in Seq(RingSlot)
  BY HelperFields DEF Control, Types, RingTypes, ThreadTypes, PipeTypes
<1>6. UNCHANGED <<mode, free, ready, lent, flusher, toHelper>>
  OBVIOUS
<1>7. /\ helper.pc = "run" /\ helper'.pc = "quota" /\ helper'.slot = helper.slot
      /\ helper'.grants = helper.grants
  BY <1>5 DEF Helpers
<1>8. HoldsLine(toApp', {"next", "final"}, s) = HoldsLine(toApp, {"next", "final"}, s)
  <2>1. Line("quota") \in AppLines /\ Line("quota").kind \notin {"next", "final"}
    BY SaidToApp, Said
  <2> QED
    BY <2>1, <1>5, TellsCounts
<1> QED
  BY <1>3, <1>4, <1>6, <1>7, <1>8 DEF Owners, One

\* Quota is granted.
LEMMA QuotaHeardOwn == ASSUME Control, Control', OwnersOK, /\ helper.pc = "quota" /\ Hears("quota") /\ Take /\ Turn("run")
         /\ UNCHANGED <<toApp, contextVars, ringState, flagVars, flusher, reader, boss, inbox, starts, memory, landed, mishaps>> PROVE OwnersOK'
<1>1. SUFFICES ASSUME Started', NEW s \in RingSlot PROVE Owners(s)' <= 1
  BY DEF OwnersOK
<1>2. Started
  BY DEF Started, Moves
<1>3. Owners(s) <= 1
  BY <1>2 DEF OwnersOK
<1>4. /\ Holds(free, s) \in Nat /\ HoldsLine(ready, {"slot"}, s) \in Nat
      /\ HoldsLine(toHelper, {"grant"}, s) \in Nat /\ Holds(helper.grants, s) \in Nat
      /\ HoldsLine(toApp, {"next", "final"}, s) \in Nat
  BY CountsAreNat DEF Control
<1>5. /\ flusher \in Flushers /\ helper \in Helpers /\ toHelper \in Seq(HelperLines) /\ toApp \in Seq(AppLines)
      /\ free \in Seq(RingSlot) /\ ready \in Seq(SlotLines) /\ lent \in 0..Slots /\ helper.grants \in Seq(RingSlot)
  BY HelperFields DEF Control, Types, RingTypes, ThreadTypes, PipeTypes
<1>6. UNCHANGED <<mode, free, ready, lent, flusher, toApp>>
  OBVIOUS
<1>7. /\ helper.pc = "quota" /\ helper'.pc = "run" /\ helper'.slot = helper.slot
      /\ helper'.grants = helper.grants
  BY <1>5, Turned DEF Helping, HelperPlaces
<1>8. HoldsLine(toHelper', {"grant"}, s) = HoldsLine(toHelper, {"grant"}, s)
  BY <1>5, TakeCounts
<1> QED
  BY <1>3, <1>4, <1>6, <1>7, <1>8 DEF Owners, One

\* The helper is done with the data.
LEMMA FinalizeOwn == ASSUME Control, Control', OwnersOK, Finalize PROVE OwnersOK'
<1>1. SUFFICES ASSUME Started', NEW s \in RingSlot PROVE Owners(s)' <= 1
  BY DEF OwnersOK
<1>2. Started
  BY DEF Finalize, Started, Moves
<1>3. Owners(s) <= 1
  BY <1>2 DEF OwnersOK
<1>4. /\ Holds(free, s) \in Nat /\ HoldsLine(ready, {"slot"}, s) \in Nat
      /\ HoldsLine(toHelper, {"grant"}, s) \in Nat /\ Holds(helper.grants, s) \in Nat
      /\ HoldsLine(toApp, {"next", "final"}, s) \in Nat
  BY CountsAreNat DEF Control
<1>5. /\ flusher \in Flushers /\ helper \in Helpers /\ toHelper \in Seq(HelperLines) /\ toApp \in Seq(AppLines)
      /\ free \in Seq(RingSlot) /\ ready \in Seq(SlotLines) /\ lent \in 0..Slots /\ helper.grants \in Seq(RingSlot)
  BY HelperFields DEF Control, Types, RingTypes, ThreadTypes, PipeTypes
<1>6. UNCHANGED <<mode, free, ready, lent, flusher, toHelper>>
  BY DEF Finalize, HelperOnly
<1>7. helper'.grants = helper.grants /\ helper'.pc \in {"final", "report"} /\ helper.pc = "run"
  BY <1>5, Turned DEF Finalize, Helping, HelperPlaces
<1>8. \/ HoldsLine(toApp', {"next", "final"}, s) = HoldsLine(toApp, {"next", "final"}, s)
      \/ /\ helper.slot = s
         /\ HoldsLine(toApp', {"next", "final"}, s) = HoldsLine(toApp, {"next", "final"}, s) + 1
  <2>1. Trailing \in AppLines /\ Trailing.kind \in {"next", "final"} /\ Trailing.slot = helper.slot
    BY <1>5, HelperFields, SaidToApp, SlotFacts, Said DEF Trailing, Control, HelperOK
  <2>2. UNCHANGED toApp \/ Tells(Trailing)
    BY DEF Finalize
  <2>3. CASE Tells(Trailing)
    BY <2>1, <2>3, <1>5, TellsCounts
  <2> QED
    BY <2>2, <2>3
<1> QED
  BY <1>3, <1>4, <1>6, <1>7, <1>8 DEF Owners, One

-----------------------------------------------------------------------------
(* The theorems.                                                           *)

\* What the helper holds fits its FIFO: it is granted no slot twice.
LEMMA GrantsFitNext ==
  ASSUME Control, Control', OwnersOK', GrantsFit, [RingNext]_ringVars
  PROVE  GrantsFit'
<1>1. helper \in Helpers /\ helper' \in Helpers /\ helper.grants \in Seq(RingSlot) /\ helper'.grants \in Seq(RingSlot)
  BY DEF Control, Types, ThreadTypes, Helpers
<1>2. NoHelper.grants = <<>> /\ Len(<<>>) = 0 /\ Slots \in Nat /\ [NoHelper EXCEPT !.pc = "command"].grants = <<>>
  BY RingAssumption DEF NoHelper
<1>3. CASE Siphon
  <2>1. /\ helper.pc # "open" /\ helper.pc \in {"open", "ask", "quota", "final"}
        /\ mode' = mode
    BY <1>3, LoneLines, Said DEF Siphon, HelperOnly, Hears, Control, Wires, OpenWire, Mapped, Heads
  <2>2. helper'.pc = helper.pc
    BY <1>1, <1>3 DEF Siphon, Helpers
  <2>3. mode' = "credit"
    <3>1. helper.pc \in {"ask", "quota", "final"} /\ Heads(toHelper, "grant") /\ toHelper \in Seq(HelperLines)
      BY <1>3, <2>1 DEF Siphon, Hears, Heads, Control, Types, PipeTypes
    <3>2. helper.pc = "ask" => mode = "credit"
      BY <3>1, LoneLines, Said DEF Control, Wires, AskWire, Heads
    <3>3. Has(toHelper, "grant") /\ Head(toHelper).kind = "grant" /\ Shrunk(toHelper, toHelper')
      BY <1>3, <3>1, TakeShrinks, OnlyLines DEF Siphon, Heads
    <3>4. helper.pc = "final" => mode = "credit"
      BY <3>1, <3>3, OnlyLines DEF Control, Wires, FinalWire, IoOf, Shrunk
    <3>5. helper.pc = "quota" => mode = "credit"
      BY <3>3 DEF Control, Wires, QuotaWire, IoOf, Shrunk, Kinds
    <3> QED
      BY <2>1, <3>1, <3>2, <3>4, <3>5
  <2>4. \A s \in RingSlot : Owners(s)' <= 1
    BY <2>1, <2>2 DEF OwnersOK, Started, Moves
  <2>5. \A s \in RingSlot : Holds(helper'.grants, s) <= 1
    <3> SUFFICES ASSUME NEW s \in RingSlot PROVE Holds(helper'.grants, s) <= 1
      OBVIOUS
    <3>1. /\ Holds(free', s) \in Nat /\ HoldsLine(ready', {"slot"}, s) \in Nat
          /\ HoldsLine(toHelper', {"grant"}, s) \in Nat /\ Holds(helper'.grants, s) \in Nat
          /\ HoldsLine(toApp', {"next", "final"}, s) \in Nat
      BY <1>1, HoldsNat DEF Control, Types, RingTypes, PipeTypes
    <3> QED
      BY <2>3, <2>4, <3>1 DEF Owners, One
  <2> QED
    BY <1>1, <2>5, OnceEach DEF GrantsFit
<1>4. CASE ~Siphon
  <2>1. \/ helper'.grants = helper.grants \/ helper'.grants = <<>>
        \/ helper.grants # <<>> /\ helper'.grants = Tail(helper.grants)
    <3>1. CASE Flusher \/ Reader \/ SetIoContext \/ SendXfer \/ Result \/ ConnectionClosed \/ Pause
      BY <3>1 DEF Flusher, FlushWait, FlushFinish, FlushWrite, FlushGrant, FillWait, FillRead, Reader,
         OnQuota, OnResult, OnOpen, OnOpenFile, OnOpenStart, OnNextCredit, OnNextReturn, OnNextLend,
         OnFinalize, OnFinalizeJoin, OnEnd, SetIoContext, SendXfer, Result, ConnectionClosed, Pause
    <3>2. CASE Command
      BY <1>1, <3>2 DEF Command, Fails, Helpers
    <3>3. CASE StrayLine \/ HelperDies \/ StopKill \/ Launch
      BY <1>2, <3>3 DEF StrayLine, HelperDies, StopKill, Launch
    <3>4. CASE Opened \/ NextNone \/ Finalized \/ Ask \/ Finalize \/ ReportDone
      <4>1. \E pc \in HelperPlaces : Turn(pc) \/ Fails(pc)
        BY <3>4 DEF Opened, NextNone, Finalized, Ask, Finalize, ReportDone, HelperPlaces
      <4> QED
        BY <1>1, <4>1, Turned DEF Helping
    <3>5. CASE Store \/ Send \/ NextLent
      BY <1>1, <3>5 DEF Store, Send, NextLent, Helpers
    <3>6. CASE NextGrant
      BY <1>1, <3>6 DEF NextGrant, Helpers
    <3>7. CASE Quota
      BY <1>1, <1>2, <3>7 DEF Quota, Turn, Helpers
    <3>8. CASE StopSignal \/ StopJoin \/ StopDrop \/ UNCHANGED ringVars
      BY <3>8 DEF StopSignal, StopJoin, StopDrop, ringVars
    <3> QED
      BY <1>4, <3>1, <3>2, <3>3, <3>4, <3>5, <3>6, <3>7, <3>8 DEF RingNext, HelperStep, BossPolls, Stop
  <2>2. helper.grants # <<>> => Len(Tail(helper.grants)) = Len(helper.grants) - 1 /\ Len(helper.grants) \in Nat
    BY <1>1, EmptySeq
  <2>3. Len(helper.grants) <= Slots
    BY DEF GrantsFit
  <2>4. CASE helper'.grants = helper.grants
    BY <2>3, <2>4 DEF GrantsFit
  <2>5. CASE helper'.grants = <<>>
    BY <1>2, <2>5 DEF GrantsFit
  <2>6. CASE helper.grants # <<>> /\ helper'.grants = Tail(helper.grants)
    <3>1. Len(helper'.grants) <= Slots
      BY <1>2, <2>2, <2>3, <2>6
    <3> QED
      BY <3>1 DEF GrantsFit
  <2> QED
    BY <2>1, <2>4, <2>5, <2>6
<1> QED
  BY <1>3, <1>4

\* No step gives a slot two owners.
LEMMA NextOwn == ASSUME Control, Control', OwnersOK, [RingNext]_ringVars PROVE OwnersOK'
<1>1. CASE Flusher
  BY <1>1, FlushWaitOwn, FlushFinishOwn, FlushWriteOwn, FlushGrantOwn, FillWaitOwn, FillReadOwn
     DEF Flusher
<1>2. CASE Reader
  BY <1>2, OnQuotaOwn, OnResultOwn, OnOpenOwn, OnOpenFileOwn, OnOpenStartOwn, OnNextCreditOwn,
     OnNextReturnOwn, OnNextLendOwn, OnFinalizeOwn, OnFinalizeJoinOwn, OnEndOwn DEF Reader
<1>3. CASE Quota
  BY <1>3, QuotaAskOwn, QuotaHeardOwn, QuotaLostOwn DEF Quota, HelperOnly
<1>4. CASE HelperStep
  BY <1>4, <1>3, CommandOwn, StrayLineOwn, SiphonOwn, OpenedOwn, StoreOwn, SendOwn, AskOwn,
     NextGrantOwn, NextLentOwn, NextNoneOwn, FinalizeOwn, FinalizedOwn, ReportDoneOwn DEF HelperStep
<1> QED
  BY <1>1, <1>2, <1>4, HelperDiesOwn, LaunchOwn, SetIoContextOwn, SendXferOwn, ResultOwn,
     ConnectionClosedOwn, PauseOwn, StopKillOwn, StopSignalOwn, StopJoinOwn, StopDropOwn, RestOwn
  DEF RingNext, BossPolls, Stop

\* At first nothing is mapped.
LEMMA InitOwn == RingInit => OwnersOK /\ GrantsFit
<1> SUFFICES ASSUME RingInit PROVE OwnersOK /\ GrantsFit
  OBVIOUS
<1>1. helper.pc = "gone" /\ helper.grants = <<>> /\ Slots \in Nat
  BY RingAssumption DEF RingInit, NoHelper
<1> QED
  BY <1>1 DEF OwnersOK, GrantsFit, Started, Moves, Mapped

\* While the ring is in use no slot has two owners, and the helper holds no more grants than its
\* FIFO has room for.
THEOREM OwnersInvariant == RingSpec => [](Control /\ OwnersOK /\ GrantsFit)
<1>1. RingInit => Control /\ OwnersOK /\ GrantsFit
  BY InitCtl, InitOwn
<1>2. Control /\ OwnersOK /\ GrantsFit /\ [RingNext]_ringVars => (Control /\ OwnersOK /\ GrantsFit)'
  BY NextCtl, NextOwn, GrantsFitNext
<1> QED
  BY <1>1, <1>2, PTL DEF RingSpec

\* A slot never has two owners (`one grant per slot it flushes'): no unit is overwritten before it
\* is used, for any number of slots, in either flow control, across transfers, pauses and mishaps.
THEOREM SlotsAreOwnedOnce == RingSpec => []SlotOwnedOnce
<1>1. Control /\ OwnersOK /\ GrantsFit => SlotOwnedOnce
  BY DEF OwnersOK, SlotOwnedOnce, Started, Moves
<1> QED
  BY <1>1, OwnersInvariant, PTL

\* A helper that is used again finds no line of the transfer before where it looks for its next
\* command: every grant, error and verdict was read by then.
THEOREM NoLineIsStray == RingSpec => []NoStrayLines
<1>1. Control => NoStrayLines
  BY DEF Control, BossOK, NoStrayLines, Alive
<1> QED
  BY <1>1, ControlInvariant, PTL
-----------------------------------------------------------------------------
(* What is where.                                                          *)

\* The units that are handed over by a line of a queue.
Amount(m) == IF m.kind \in {"slot", "next", "final"} THEN m.n ELSE 0

\* Line m stands for the units of its slot, which are those after the first b of the file.
Fits(mem, b, m) == Amount(m) > 0 => m.slot \in RingSlot /\ mem[m.slot] = Piece(b, m.n)

\* The lines of q follow each other from unit a to unit b of the file.
Chain(mem, a, q, b) ==
  \E off \in [1..Len(q) + 1 -> 0..MaxLen] :
    /\ off[1] = a /\ off[Len(q) + 1] = b
    /\ \A j, k \in 1..Len(q) + 1 : j <= k => off[j] <= off[k]
    /\ \A k \in 1..Len(q) : off[k + 1] = off[k] + Amount(q[k]) /\ Fits(mem, off[k], q[k])

MemoryOK ==
  /\ DOMAIN memory = RingSlot
  /\ \A s \in RingSlot : memory[s] \in Seq(1..MaxLen) /\ Len(memory[s]) <= SlotUnits
LandedOK == Len(landed) \in 0..length /\ landed = Stream!Units(Len(landed))

\* A download: the queue to the I/O thread and the lines to the reader continue each other, up
\* to what the helper has handed over.
HandedOver == IF Holding THEN helper.moved - helper.fill ELSE helper.moved
Flushes == Download /\ flusher.pc \in {"wait", "flush", "grant", "finish"}
InFlush == IF flusher.pc = "flush" THEN flusher.n ELSE 0

\* Queues rdy and app continue each other from unit a to unit c of the file.
Between(mem, a, rdy, app, c) ==
  \E b \in 0..MaxLen : Chain(mem, a, rdy, b) /\ Chain(mem, b, app, c)

QueueOK ==
  Flushes =>
    /\ flusher.pc = "flush" => memory[flusher.slot] = Piece(Len(landed), flusher.n)
    /\ \E c \in 0..length :
         /\ Between(memory, Len(landed) + InFlush, ready, toApp, c)
         /\ Started => c = HandedOver

\* The helper's slot holds the units before the next.
FillOK ==
  Download /\ Started =>
    /\ helper.moved <= length
    /\ Holding => helper.fill <= helper.moved
    /\ Holding /\ helper.fill > 0 =>
         memory[helper.slot] = Piece(helper.moved - helper.fill, helper.fill)
\* Nothing is left when the I/O thread is over.
DrainOK ==
  /\ Download /\ Started /\ flusher.pc \in {"finish", "over"} /\ ~broken =>
       final /\ ready = <<>> /\ Len(landed) = helper.moved
  /\ helper.pc = "final" /\ Has(toHelper, "kept") => Len(landed) = helper.moved

\* The last f units of slot m are those after the first t of the file.
Rest(m, f, t) == Len(m) >= f /\ t + f >= Len(m) /\ m = Piece(t + f - Len(m), Len(m))

\* An upload: what is read of the file is sent, lent or queued.
UploadOK ==
  mode = "upload" /\ Started =>
    /\ Len(landed) = helper.moved
    /\ flusher.pc \in {"wait", "fill", "over"} /\ flusher.at <= length
    /\ \E mid \in 0..length :
         /\ Chain(memory, mid, ready, flusher.at)
         /\ helper.pc = "ask" => Chain(memory, helper.moved, toHelper, mid)
         /\ helper.pc # "ask" => mid = helper.moved + helper.fill
    /\ Holding /\ helper.fill > 0 =>
         Rest(memory[helper.slot], helper.fill, helper.moved)
    /\ eof /\ ~broken => flusher.at = length
    /\ Heads(toHelper, "eof") => helper.moved = length

\* A transfer that is done well is complete.
Succeeds ==
  \/ helper.pc = "report" /\ helper.ok
  \/ \E k \in 1..Len(toApp) : toApp[k].kind = "done" /\ toApp[k].n = 1
  \/ inbox # <<>> /\ Head(inbox).n = 1
  \/ boss.outcome = "ok"
CompleteOK == Succeeds => Len(landed) = length

Data == MemoryOK /\ LandedOK /\ QueueOK /\ FillOK /\ DrainOK /\ UploadOK /\ CompleteOK

-----------------------------------------------------------------------------
(* Chains of lines.                                                        *)

\* Lines are about units.
LEMMA AmountIs ==
  /\ \A m \in AppLines : Amount(m) \in Nat /\ Amount(m) <= SlotUnits
  /\ \A m \in SlotLines : Amount(m) \in Nat /\ Amount(m) = m.n
  /\ \A m \in HelperLines : Amount(m) \in Nat
  /\ \A m : m.kind \in {"next", "final", "slot"} => Amount(m) = m.n
  /\ \A m : m.kind \notin {"next", "final", "slot"} => Amount(m) = 0
BY RingAssumption DEF Amount, AppLines, SlotLines, HelperLines

\* Nothing is from a to a.
LEMMA ChainNone ==
  ASSUME NEW mem
  PROVE  /\ \A a \in 0..MaxLen : Chain(mem, a, <<>>, a)
         /\ \A a, b : Chain(mem, a, <<>>, b) => a = b
<1>1. Len(<<>>) = 0 /\ 1..Len(<<>>) = {} /\ 1..Len(<<>>) + 1 = {1}
  OBVIOUS
<1>2. ASSUME NEW a \in 0..MaxLen PROVE Chain(mem, a, <<>>, a)
  <2> DEFINE off == [i \in {1} |-> a]
  <2>1. off \in [1..Len(<<>>) + 1 -> 0..MaxLen] /\ off[1] = a
    BY <1>1
  <2> HIDE DEF off
  <2>2. MaxLen \in Nat /\ a <= a
    BY RingAssumption
  <2> QED
    BY <1>1, <2>1, <2>2 DEF Chain
<1>3. ASSUME NEW a, NEW b, Chain(mem, a, <<>>, b) PROVE a = b
  BY <1>1, <1>3 DEF Chain
<1> QED
  BY <1>2, <1>3

\* A chain stays inside the file and does not go back.
LEMMA ChainBounds ==
  ASSUME NEW mem, NEW a, NEW b, NEW S, NEW q \in Seq(S), Chain(mem, a, q, b)
  PROVE  a \in 0..MaxLen /\ b \in 0..MaxLen /\ a <= b
<1>1. PICK n \in Nat : n = Len(q)
  OBVIOUS
<1>2. PICK off \in [1..n + 1 -> 0..MaxLen] :
        /\ off[1] = a /\ off[n + 1] = b
        /\ \A j, k \in 1..n + 1 : j <= k => off[j] <= off[k]
  BY <1>1 DEF Chain
<1>3. 1 \in 1..n + 1 /\ n + 1 \in 1..n + 1 /\ 1 <= n + 1
  BY <1>1
<1>4. off[1] <= off[n + 1]
  BY <1>2, <1>3
<1> QED
  BY <1>2, <1>3, <1>4

\* The first line is taken.
LEMMA ChainTake ==
  ASSUME NEW mem, NEW a, NEW b, NEW S, NEW q \in Seq(S), q # <<>>, Chain(mem, a, q, b)
  PROVE  /\ Chain(mem, a + Amount(Head(q)), Tail(q), b) /\ Fits(mem, a, Head(q))
         /\ a + Amount(Head(q)) \in 0..MaxLen
<1>1. PICK n \in Nat : n + 1 = Len(q)
  <2>1. Len(q) \in Nat /\ Len(q) # 0
    OBVIOUS
  <2>2. Len(q) - 1 \in Nat /\ (Len(q) - 1) + 1 = Len(q)
    BY <2>1
  <2> QED
    BY <2>2
<1> DEFINE t == Tail(q)
<1>2. Len(t) = n /\ Head(q) = q[1] /\ \A i \in 1..n : t[i] = q[i + 1]
  BY <1>1
<1> HIDE DEF t
<1>3. PICK off \in [1..n + 2 -> 0..MaxLen] :
        /\ off[1] = a /\ off[n + 2] = b
        /\ \A j, k \in 1..n + 2 : j <= k => off[j] <= off[k]
        /\ \A k \in 1..n + 1 : off[k + 1] = off[k] + Amount(q[k]) /\ Fits(mem, off[k], q[k])
  <2>1. (n + 1) + 1 = n + 2
    BY <1>1
  <2> QED
    BY <1>1, <2>1 DEF Chain
<1> DEFINE to == [i \in 1..n + 1 |-> off[i + 1]]
<1>4. \A i \in 1..n + 1 : i + 1 \in 1..n + 2 /\ off[i + 1] \in 0..MaxLen
  BY <1>3
<1>5. to \in [1..n + 1 -> 0..MaxLen] /\ \A i \in 1..n + 1 : to[i] = off[i + 1]
  BY <1>4
<1> HIDE DEF to
<1>6. /\ 1 \in 1..n + 1 /\ n + 1 \in 1..n + 1 /\ 1 + 1 = 2 /\ (n + 1) + 1 = n + 2
      /\ \A k \in 1..n : k \in 1..n + 1 /\ k + 1 \in 1..n + 1
  OBVIOUS
<1>7. off[2] = a + Amount(Head(q)) /\ Fits(mem, a, Head(q))
  BY <1>2, <1>3, <1>6
<1>8. to[1] = a + Amount(Head(q)) /\ to[n + 1] = b
  BY <1>3, <1>5, <1>6, <1>7
<1>9. ASSUME NEW j \in 1..n + 1, NEW k \in 1..n + 1, j <= k PROVE to[j] <= to[k]
  <2>1. j + 1 \in 1..n + 2 /\ k + 1 \in 1..n + 2 /\ j + 1 <= k + 1
    BY <1>9
  <2> QED
    BY <2>1, <1>3, <1>5
<1>10. ASSUME NEW k \in 1..n PROVE to[k + 1] = to[k] + Amount(t[k]) /\ Fits(mem, to[k], t[k])
  BY <1>2, <1>3, <1>5, <1>6
<1>11. Chain(mem, a + Amount(Head(q)), t, b)
  BY <1>2, <1>5, <1>8, <1>9, <1>10 DEF Chain
<1> QED
  BY <1>2, <1>5, <1>6, <1>7, <1>8, <1>11 DEF t

\* A line is added.
LEMMA ChainGrow ==
  ASSUME NEW mem, NEW a, NEW b, NEW S, NEW q \in Seq(S), NEW x \in S, Chain(mem, a, q, b),
         Amount(x) \in Nat, b + Amount(x) <= MaxLen, Fits(mem, b, x)
  PROVE  Chain(mem, a, Append(q, x), b + Amount(x))
<1>1. PICK n \in Nat : n = Len(q)
  OBVIOUS
<1> DEFINE r == Append(q, x)
<1>2. Len(r) = n + 1 /\ r[n + 1] = x /\ \A i \in 1..n : r[i] = q[i]
  BY <1>1
<1> HIDE DEF r
<1>3. PICK off \in [1..n + 1 -> 0..MaxLen] :
        /\ off[1] = a /\ off[n + 1] = b
        /\ \A j, k \in 1..n + 1 : j <= k => off[j] <= off[k]
        /\ \A k \in 1..n : off[k + 1] = off[k] + Amount(q[k]) /\ Fits(mem, off[k], q[k])
  BY <1>1 DEF Chain
<1>4. n + 1 \in 1..n + 1 /\ b \in 0..MaxLen /\ MaxLen \in Nat /\ (n + 1) + 1 = n + 2
  BY <1>3, RingAssumption
<1>5. PICK e : e = b + Amount(x) /\ e \in 0..MaxLen /\ b <= e
  BY <1>4
<1> DEFINE to == [i \in 1..n + 2 |-> IF i = n + 2 THEN e ELSE off[i]]
<1>6. \A i \in 1..n + 2 : i = n + 2 \/ (i \in 1..n + 1 /\ off[i] \in 0..MaxLen)
  BY <1>3
<1>7. /\ to \in [1..n + 2 -> 0..MaxLen] /\ to[n + 2] = e
      /\ \A i \in 1..n + 1 : to[i] = off[i]
  BY <1>5, <1>6
<1> HIDE DEF to
<1>8. to[1] = a /\ 1 \in 1..n + 1
  BY <1>3, <1>7
<1>9. ASSUME NEW j \in 1..n + 2, NEW k \in 1..n + 2, j <= k PROVE to[j] <= to[k]
  <2>1. CASE k = n + 2 /\ j = n + 2
    BY <2>1, <1>5, <1>7
  <2>2. CASE k = n + 2 /\ j # n + 2
    <3>1. j \in 1..n + 1 /\ j <= n + 1
      BY <2>2
    <3>2. off[j] <= b /\ to[j] = off[j] /\ off[j] \in 0..MaxLen
      BY <3>1, <1>3, <1>4, <1>7
    <3> QED
      BY <3>2, <2>2, <1>4, <1>5, <1>7
  <2>3. CASE k # n + 2
    <3>1. j \in 1..n + 1 /\ k \in 1..n + 1
      BY <1>9, <2>3
    <3> QED
      BY <3>1, <1>9, <1>3, <1>7
  <2> QED
    BY <2>1, <2>2, <2>3
<1>10. ASSUME NEW k \in 1..n + 1 PROVE to[k + 1] = to[k] + Amount(r[k]) /\ Fits(mem, to[k], r[k])
  <2>1. CASE k = n + 1
    <3>1. to[k + 1] = e /\ to[k] = b /\ r[k] = x
      BY <2>1, <1>2, <1>3, <1>4, <1>7
    <3> QED
      BY <3>1, <1>5
  <2>2. CASE k # n + 1
    <3>1. k \in 1..n /\ k \in 1..n + 1 /\ k + 1 \in 1..n + 1
      BY <2>2
    <3> QED
      BY <3>1, <1>2, <1>3, <1>7
  <2> QED
    BY <2>1, <2>2
<1>11. Len(r) + 1 = n + 2 /\ to[Len(r) + 1] = e
  BY <1>2, <1>4, <1>7
<1>12. Chain(mem, a, r, e)
  BY <1>2, <1>7, <1>8, <1>9, <1>10, <1>11 DEF Chain
<1> QED
  BY <1>5, <1>12 DEF r

\* The slots of the lines are not written.
LEMMA ChainStill ==
  ASSUME NEW mem, NEW mem2, NEW a, NEW b, NEW q, Chain(mem, a, q, b),
         \A k \in 1..Len(q) : Amount(q[k]) > 0 => mem2[q[k].slot] = mem[q[k].slot]
  PROVE  Chain(mem2, a, q, b)
<1>1. ASSUME NEW c, NEW k \in 1..Len(q), Fits(mem, c, q[k]) PROVE Fits(mem2, c, q[k])
  BY <1>1 DEF Fits
<1> QED
  BY <1>1 DEF Chain

\* Two queues.
LEMMA BetweenBounds ==
  ASSUME NEW mem, NEW a, NEW c, NEW S, NEW rdy \in Seq(S), NEW T, NEW app \in Seq(T), Between(mem, a, rdy, app, c)
  PROVE  a \in 0..MaxLen /\ c \in 0..MaxLen /\ a <= c
<1>1. PICK b \in 0..MaxLen : Chain(mem, a, rdy, b) /\ Chain(mem, b, app, c)
  BY DEF Between
<1>2. a \in 0..MaxLen /\ a <= b /\ c \in 0..MaxLen /\ b <= c
  BY <1>1, ChainBounds
<1> QED
  BY <1>2, RingAssumption

\* Nothing is between two queues that are empty.
LEMMA BetweenNone ==
  ASSUME NEW mem
  PROVE  /\ \A a \in 0..MaxLen : Between(mem, a, <<>>, <<>>, a)
         /\ \A a, c : Between(mem, a, <<>>, <<>>, c) => a = c
BY ChainNone DEF Between

\* The I/O thread takes a slot.
LEMMA BetweenTake ==
  ASSUME NEW mem, NEW a, NEW c, NEW rdy \in Seq(SlotLines), NEW app, rdy # <<>>, Between(mem, a, rdy, app, c)
  PROVE  Between(mem, a + Head(rdy).n, Tail(rdy), app, c) /\ mem[Head(rdy).slot] = Piece(a, Head(rdy).n)
<1>1. PICK b \in 0..MaxLen : Chain(mem, a, rdy, b) /\ Chain(mem, b, app, c)
  BY DEF Between
<1>2. Head(rdy) \in SlotLines /\ Head(rdy).n > 0
  <2>1. Head(rdy) \in SlotLines
    OBVIOUS
  <2> QED
    BY <2>1, RingAssumption DEF SlotLines
<1>3. Amount(Head(rdy)) = Head(rdy).n
  BY <1>2, AmountIs
<1>4. Chain(mem, a + Head(rdy).n, Tail(rdy), b) /\ Fits(mem, a, Head(rdy))
  BY <1>1, <1>3, ChainTake
<1> QED
  BY <1>1, <1>2, <1>3, <1>4 DEF Between, Fits

\* The reader queues the slot of a line.
LEMMA BetweenRead ==
  ASSUME NEW mem, NEW a, NEW c, NEW rdy \in Seq(SlotLines), NEW app \in Seq(AppLines), app # <<>>,
         Between(mem, a, rdy, app, c)
  PROVE  Between(mem, a, IF Amount(Head(app)) > 0
                         THEN Append(rdy, SlotLine("slot", Head(app).slot, Head(app).n)) ELSE rdy, Tail(app), c)
<1>1. PICK b \in 0..MaxLen : Chain(mem, a, rdy, b) /\ Chain(mem, b, app, c)
  BY DEF Between
<1> DEFINE n == Amount(Head(app))
           x == SlotLine("slot", Head(app).slot, Head(app).n)
<1>2. /\ Chain(mem, b + n, Tail(app), c) /\ Fits(mem, b, Head(app)) /\ b + n \in 0..MaxLen
      /\ Head(app) \in AppLines /\ n \in Nat /\ n <= SlotUnits
  BY <1>1, ChainTake, AmountIs
<1>3. CASE n > 0
  <2>1. n = Head(app).n /\ Head(app).kind \in {"next", "final"}
    BY <1>2, <1>3 DEF Amount, AppLines
  <2>2. Head(app).slot \in RingSlot
    BY <1>2, <1>3, <2>1 DEF Fits
  <2>3. x \in SlotLines /\ Amount(x) = n /\ x.slot = Head(app).slot /\ x.n = n
    BY <1>2, <1>3, <2>1, <2>2, RingAssumption DEF SlotLine, SlotLines, Amount
  <2>4. Fits(mem, b, x)
    BY <1>2, <1>3, <2>1, <2>3 DEF Fits
  <2> HIDE DEF x, n
  <2>5. b + n <= MaxLen
    BY <1>2, RingAssumption
  <2>6. Chain(mem, a, Append(rdy, x), b + n)
    BY <1>1, <1>2, <2>3, <2>4, <2>5, ChainGrow
  <2> QED
    BY <1>2, <1>3, <2>6 DEF Between, n, x
<1>4. CASE ~(n > 0)
  <2>1. n = 0
    BY <1>2, <1>4
  <2>2. b + n = b
    BY <2>1, RingAssumption
  <2> QED
    BY <1>1, <1>2, <1>4, <2>2 DEF Between
<1> QED
  BY <1>3, <1>4

\* The helper says a line.
LEMMA BetweenTold ==
  ASSUME NEW mem, NEW a, NEW c, NEW rdy, NEW app \in Seq(AppLines), NEW x \in AppLines,
         Between(mem, a, rdy, app, c), c + Amount(x) <= MaxLen, Fits(mem, c, x)
  PROVE  Between(mem, a, rdy, Append(app, x), c + Amount(x))
<1>1. PICK b \in 0..MaxLen : Chain(mem, a, rdy, b) /\ Chain(mem, b, app, c)
  BY DEF Between
<1>2. Amount(x) \in Nat
  BY AmountIs
<1>3. Chain(mem, b, Append(app, x), c + Amount(x))
  BY <1>1, <1>2, ChainGrow
<1> QED
  BY <1>1, <1>3 DEF Between

\* A slot that is in neither queue is written.
LEMMA BetweenStill ==
  ASSUME NEW mem, NEW mem2, NEW a, NEW c, NEW rdy, NEW app, Between(mem, a, rdy, app, c),
         \A k \in 1..Len(rdy) : mem2[rdy[k].slot] = mem[rdy[k].slot],
         \A k \in 1..Len(app) : Amount(app[k]) > 0 => mem2[app[k].slot] = mem[app[k].slot]
  PROVE  Between(mem2, a, rdy, app, c)
BY ChainStill DEF Between

\* Only the helper of a download and the I/O thread of an upload write to a slot.
LEMMA MemoryStays ==
  ASSUME [RingNext]_ringVars, ~Store, ~FillRead
  PROVE  memory' = memory
<1>1. CASE Flusher
  BY <1>1 DEF Flusher, FlushWait, FlushFinish, FlushWrite, FlushGrant, FillWait
<1>2. CASE Reader
  BY <1>2 DEF Reader, OnQuota, OnResult, OnOpen, OnOpenFile, OnOpenStart, OnNextCredit,
    OnNextReturn, OnNextLend, OnFinalize, OnFinalizeJoin, OnEnd
<1>3. CASE HelperStep
  BY <1>3 DEF HelperStep, Command, StrayLine, Siphon, Opened, Send, Ask, NextGrant, NextLent,
    NextNone, Quota, Finalize, Finalized, ReportDone, HelperOnly
<1>4. CASE ~Flusher /\ ~Reader /\ ~HelperStep
  BY <1>4 DEF RingNext, BossPolls, Stop, HelperOnly, ringVars, HelperDies, Launch,
    SetIoContext, SendXfer, Result, ConnectionClosed, Pause, StopKill, StopSignal, StopJoin,
    StopDrop
<1> QED
  BY <1>1, <1>2, <1>3, <1>4

\* The target is written by the I/O thread or the server.
LEMMA LandedStays ==
  ASSUME [RingNext]_ringVars, ~FlushWrite, ~Send, ~SendXfer
  PROVE  landed' = landed
<1>1. CASE Flusher
  BY <1>1 DEF Flusher, FlushWait, FlushFinish, FlushGrant, FillWait, FillRead
<1>2. CASE Reader
  BY <1>2 DEF Reader, OnQuota, OnResult, OnOpen, OnOpenFile, OnOpenStart, OnNextCredit,
    OnNextReturn, OnNextLend, OnFinalize, OnFinalizeJoin, OnEnd
<1>3. CASE HelperStep
  BY <1>3 DEF HelperStep, Command, StrayLine, Siphon, Opened, Store, Ask, NextGrant, NextLent,
    NextNone, Quota, Finalize, Finalized, ReportDone, HelperOnly
<1>4. CASE ~Flusher /\ ~Reader /\ ~HelperStep
  BY <1>4 DEF RingNext, BossPolls, Stop, HelperOnly, ringVars, HelperDies, Launch,
    SetIoContext, Result, ConnectionClosed, Pause, StopKill, StopSignal, StopJoin, StopDrop
<1> QED
  BY <1>1, <1>2, <1>3, <1>4

\* A transfer is what it is.
LEMMA ContextStays ==
  ASSUME [RingNext]_ringVars, ~SendXfer
  PROVE  UNCHANGED <<mode, whole, length>>
<1>1. CASE Flusher
  BY <1>1 DEF Flusher, FlushWait, FlushFinish, FlushWrite, FlushGrant, FillWait, FillRead
<1>2. CASE Reader
  BY <1>2 DEF Reader, OnQuota, OnResult, OnOpen, OnOpenFile, OnOpenStart, OnNextCredit,
    OnNextReturn, OnNextLend, OnFinalize, OnFinalizeJoin, OnEnd
<1>3. CASE HelperStep
  BY <1>3 DEF HelperStep, Command, StrayLine, Siphon, Opened, Store, Send, Ask, NextGrant,
    NextLent, NextNone, Quota, Finalize, Finalized, ReportDone, HelperOnly
<1>4. CASE ~Flusher /\ ~Reader /\ ~HelperStep
  BY <1>4 DEF RingNext, BossPolls, Stop, HelperOnly, ringVars, HelperDies, Launch,
    SetIoContext, Result, ConnectionClosed, Pause, StopKill, StopSignal, StopJoin, StopDrop
<1> QED
  BY <1>1, <1>2, <1>3, <1>4

\* Nobody else moves the I/O thread, but for starting it.
LEMMA FlusherStays ==
  ASSUME [RingNext]_ringVars, ~FlushWait, ~FlushFinish, ~FlushWrite, ~FlushGrant, ~FillWait,
         ~FillRead, ~OnOpenStart
  PROVE  UNCHANGED flusher
<1>1. ~Flusher
  BY DEF Flusher
<1>2. CASE Reader
  BY <1>2 DEF Reader, OnQuota, OnResult, OnOpen, OnOpenFile, OnNextCredit, OnNextReturn,
    OnNextLend, OnFinalize, OnFinalizeJoin, OnEnd
<1>3. CASE HelperStep
  BY <1>3 DEF HelperStep, Command, StrayLine, Siphon, Opened, Store, Send, Ask, NextGrant,
    NextLent, NextNone, Quota, Finalize, Finalized, ReportDone, HelperOnly
<1>4. CASE ~Flusher /\ ~Reader /\ ~HelperStep
  BY <1>4 DEF RingNext, BossPolls, Stop, HelperOnly, ringVars, HelperDies, Launch,
    SetIoContext, SendXfer, Result, ConnectionClosed, Pause, StopKill, StopSignal, StopJoin,
    StopDrop
<1> QED
  BY <1>1, <1>2, <1>3, <1>4

\* The ring is in use from when it is mapped.
LEMMA StartsOnce ==
  ASSUME Control, [RingNext]_ringVars, ~OnOpenStart, Started' PROVE Started
<1>1. helper \in Helpers /\ toHelper \in Seq(HelperLines)
  BY DEF Control, Types, ThreadTypes, PipeTypes
<1>2. CASE UNCHANGED <<helper, toHelper>>
  BY <1>2 DEF Started, Moves, Mapped
<1>3. ASSUME NEW x \in HelperLines, Says(<<x>>), x.kind # "map", helper' = helper PROVE Started
  BY <1>1, <1>3, SaysNoMap
<1>4. CASE Flusher \/ OnQuota
  <2>1. CASE FlushWait \/ FlushFinish \/ FlushWrite \/ FillWait \/ FillRead
    BY <1>2, <2>1 DEF FlushWait, FlushFinish, FlushWrite, FillWait, FillRead
  <2>2. CASE FlushGrant
    <3>1. flusher.pc = "grant" => flusher.slot \in RingSlot
      BY DEF Control, FlusherOK
    <3>2. helper' = helper /\ \E x \in HelperLines : Says(<<x>>) /\ x.kind # "map"
      BY <2>2, <3>1, Said, SaidToHelper DEF FlushGrant
    <3> QED
      BY <3>2, <1>3
  <2>3. CASE OnQuota
    <3>1. Line("quota") \in HelperLines /\ Line("quota").kind # "map"
      BY SaidToHelper, Said
    <3> QED
      BY <2>3, <3>1, <1>3 DEF OnQuota
  <2> QED
    BY <2>1, <2>2, <2>3, <1>4 DEF Flusher
<1>5. CASE OnOpenFile \/ OnNextLend \/ OnFinalizeJoin
  <2>1. CASE OnNextLend
    BY <2>1 DEF OnNextLend, Control, ReaderOK, Started, Moves, Mapped
  <2>2. CASE OnOpenFile
    <3>1. Line("refused") \in HelperLines /\ Line("refused").kind # "map"
      BY SaidToHelper, Said
    <3>2. UNCHANGED <<helper, toHelper>> \/ (helper' = helper /\ Says(<<Line("refused")>>))
      BY <2>2 DEF OnOpenFile
    <3> QED
      BY <3>1, <3>2, <1>2, <1>3
  <2>3. CASE OnFinalizeJoin
    <3>1. helper' = helper /\ \E x \in HelperLines : Says(<<x>>) /\ x.kind # "map"
      BY <2>3, Said, SaidToHelper DEF OnFinalizeJoin
    <3> QED
      BY <3>1, <1>3
  <2> QED
    BY <2>1, <2>2, <2>3, <1>5
<1>6. CASE \/ OnResult \/ OnOpen \/ OnNextCredit \/ OnNextReturn \/ OnFinalize \/ OnEnd
           \/ SetIoContext \/ Result \/ ConnectionClosed \/ Pause
           \/ StopSignal \/ StopJoin \/ StopDrop \/ UNCHANGED ringVars
  BY <1>2, <1>6 DEF OnResult, OnOpen, OnNextCredit, OnNextReturn, OnFinalize, OnEnd, SetIoContext, Result,
     ConnectionClosed, Pause, StopSignal, StopJoin, StopDrop, ringVars
<1>7. CASE Siphon
  BY <1>7, LoneLines, Said DEF Siphon, Hears, Control, Wires, OpenWire, Mapped, Heads, Started, Moves
<1>8. CASE Opened
  <2>1. CASE Hears("map")
    BY <2>1, <1>8 DEF Opened, Started, Mapped, Hears, Heads
  <2>2. CASE Fails("report")
    BY <1>1, <2>2, Turned DEF Started, Moves, Mapped, Helping, HelperPlaces
  <2> QED
    BY <2>1, <2>2, <1>8 DEF Opened
<1>9. CASE Store \/ Send \/ Ask \/ NextGrant \/ NextLent \/ Quota \/ Finalize \/ NextNone \/ Finalized
  BY <1>9, NoHelperIs DEF Store, Send, Ask, NextGrant, NextLent, Quota, Finalize, NextNone, Finalized, Started, Moves
<1>10. CASE ReportDone
  BY <1>1, <1>10, Turned DEF ReportDone, Helping, HelperPlaces, Started, Moves, Mapped
<1>11. CASE Command
  <2>1. helper'.pc \in {"open", "report"}
    BY <1>1, <1>11 DEF Command, Fails, Helpers
  <2>2. Has(toHelper, "get") /\ Alive
    BY <1>1, <1>11, TakeShrinks DEF Command, Alive, Hears, Shrunk
  <2>3. toHelper = <<Line("get")>>
    BY <2>2 DEF Control, Wires, CommandWire, GetState
  <2>4. toHelper' = <<>>
    BY <1>11, <2>3, LoneLines DEF Command, Take
  <2> QED
    BY <2>1, <2>4, Nothing DEF Started, Moves, Mapped
<1>12. CASE StrayLine \/ HelperDies \/ StopKill
  BY <1>12, NoHelperIs DEF StrayLine, HelperDies, StopKill, Started, Moves, Mapped
<1>13. CASE Launch
  BY <1>13 DEF Launch, NoHelper, Started, Moves, Mapped
<1>14. CASE SendXfer
  BY <1>14 DEF SendXfer, Control, BossOK, Idle, Started, Moves, Mapped
<1> QED
  BY <1>4, <1>5, <1>6, <1>7, <1>8, <1>9, <1>10, <1>11, <1>12, <1>13, <1>14
  DEF RingNext, Reader, HelperStep, BossPolls, Stop

\* What is counted nowhere is nowhere.
LEMMA HeldNowhere ==
  ASSUME NEW S, NEW q \in Seq(S), NEW ks, NEW s, HoldsLine(q, ks, s) = 0
  PROVE  \A k \in 1..Len(q) : q[k].kind \in ks => q[k].slot # s
<1> DEFINE A == {i \in DOMAIN q : q[i].kind \in ks /\ q[i].slot = s}
<1>1. A \subseteq 1..Len(q) /\ DOMAIN q = 1..Len(q) /\ Len(q) \in Nat
  OBVIOUS
<1>2. IsFiniteSet(A) /\ Cardinality(A) = 0
  <2>1. IsFiniteSet(1..Len(q))
    BY <1>1, FS_Interval
  <2>2. Cardinality(A) = 0
    BY DEF HoldsLine
  <2> HIDE DEF A
  <2> QED
    BY <1>1, <2>1, <2>2, FS_Subset
<1>3. A = {}
  <2> HIDE DEF A
  <2> QED
    BY <1>2, FS_EmptySet
<1> QED
  BY <1>1, <1>3

\* The lines of the queue.
LEMMA ReadyKinds ==
  ASSUME NEW q \in Seq(SlotLines), NEW k \in 1..Len(q)
  PROVE  q[k].kind = "slot" /\ q[k].slot \in RingSlot /\ q[k].n \in 1..SlotUnits
<1>1. q[k] \in SlotLines
  OBVIOUS
<1> QED
  BY <1>1 DEF SlotLines

\* A slot that somebody has is nowhere else: s is the helper's, ...
LEMMA HelperAlone ==
  ASSUME Control, OwnersOK, Holding, helper.slot # None
  PROVE  /\ \A k \in 1..Len(ready) : ready[k].slot # helper.slot
         /\ \A k \in 1..Len(toApp) : Amount(toApp[k]) > 0 => toApp[k].slot # helper.slot
         /\ flusher.slot # helper.slot
<1> DEFINE s == helper.slot
<1>1. /\ helper \in Helpers /\ ready \in Seq(SlotLines) /\ toApp \in Seq(AppLines) /\ s \in RingSlot
      /\ Started
  BY HelperFields, SlotFacts DEF Control, Types, ThreadTypes, PipeTypes, RingTypes, Holding, Started, Moves
<1> HIDE DEF s
<1>2. Owners(s) <= 1
  BY <1>1 DEF OwnersOK
<1>3. /\ Holds(free, s) \in Nat /\ HoldsLine(ready, {"slot"}, s) \in Nat
      /\ HoldsLine(toHelper, {"grant"}, s) \in Nat /\ Holds(helper.grants, s) \in Nat
      /\ HoldsLine(toApp, {"next", "final"}, s) \in Nat
  BY CountsAreNat DEF Control
<1>4. mode # "credit" => lent = s
  BY DEF Control, HelperOK, s
<1>5. helper.slot = s /\ helper.pc \in {"run", "quota"}
  BY DEF s, Holding
<1>6. HoldsLine(ready, {"slot"}, s) = 0 /\ flusher.slot # s
  BY <1>2, <1>3, <1>4, <1>5 DEF Owners, One
<1>7. mode = "credit" => HoldsLine(toApp, {"next", "final"}, s) = 0
  BY <1>2, <1>3, <1>5 DEF Owners, One
<1>8. \A k \in 1..Len(ready) : ready[k].slot # s
  <2>1. \A k \in 1..Len(ready) : ready[k].kind \in {"slot"}
    BY <1>1, ReadyKinds
  <2> QED
    BY <1>1, <1>6, <2>1, HeldNowhere
<1>9. ASSUME NEW k \in 1..Len(toApp), Amount(toApp[k]) > 0 PROVE toApp[k].slot # s
  <2>1. toApp[k] \in AppLines
    BY <1>1
  <2>2. toApp[k].kind \in {"next", "final"}
    BY <2>1, <1>9 DEF Amount, AppLines
  <2>3. CASE mode = "credit"
    BY <1>1, <1>7, <2>2, <2>3, HeldNowhere
  <2>4. CASE mode # "credit"
    <3>1. Has(toApp, toApp[k].kind)
      BY DEF Has
    <3>2. helper.pc \in {"ask", "gone"} \/ helper.pc \in {"final", "report", "command", "gone"}
      BY <2>2, <2>4, <3>1 DEF Control, ReaderOK
    <3> QED
      BY <3>2, <1>5
  <2> QED
    BY <2>3, <2>4
<1> QED
  BY <1>6, <1>8, <1>9 DEF s

\* ... or the I/O thread's.
LEMMA FlusherAlone ==
  ASSUME Control, OwnersOK, Started, flusher.slot \in RingSlot
  PROVE  /\ \A k \in 1..Len(ready) : ready[k].slot # flusher.slot
         /\ mode # "credit" => lent # flusher.slot
<1> DEFINE s == flusher.slot
<1>1. /\ ready \in Seq(SlotLines) /\ s \in RingSlot
  BY DEF Control, Types, RingTypes
<1> HIDE DEF s
<1>2. Owners(s) <= 1
  BY <1>1 DEF OwnersOK
<1>3. /\ Holds(free, s) \in Nat /\ HoldsLine(ready, {"slot"}, s) \in Nat
      /\ HoldsLine(toHelper, {"grant"}, s) \in Nat /\ Holds(helper.grants, s) \in Nat
      /\ HoldsLine(toApp, {"next", "final"}, s) \in Nat
  BY CountsAreNat DEF Control
<1>4. flusher.slot = s
  BY DEF s
<1>5. HoldsLine(ready, {"slot"}, s) = 0 /\ (mode # "credit" => lent # s)
  BY <1>2, <1>3, <1>4 DEF Owners, One
<1>6. \A k \in 1..Len(ready) : ready[k].slot # s
  <2>1. \A k \in 1..Len(ready) : ready[k].kind \in {"slot"}
    BY <1>1, ReadyKinds
  <2> QED
    BY <1>1, <1>5, <2>1, HeldNowhere
<1> QED
  BY <1>5, <1>6 DEF s

-----------------------------------------------------------------------------
(* What the stream promises.                                               *)

\* The units of a file are a sequence of that length.
LEMMA UnitsLen ==
  ASSUME NEW n \in Nat
  PROVE  Stream!Units(n) \in Seq(Nat) /\ Len(Stream!Units(n)) = n
<1>1. Stream!Units(n) \in [1..n -> Nat]
  BY DEF Stream!Units
<1> QED
  BY <1>1

\* No unit is there before a file is.
LEMMA StreamInitOK == Stream!StreamInit => Stream!StreamOK
<1>1. Stream!Units(0) = <<>>
  BY DEF Stream!Units
<1> QED
  BY <1>1 DEF Stream!StreamInit, Stream!StreamOK

\* Units arrive in order and inside the file, and it is complete with the last of them.
LEMMA StreamNextOK ==
  ASSUME Stream!StreamOK, [Stream!StreamNext]_(Stream!streamVars) PROVE Stream!StreamOK'
<1>0. Len(landed) \in Nat /\ MaxLen \in Nat
  BY UnitsLen, RingAssumption DEF Stream!StreamOK
<1>1. ASSUME NEW n \in 0..MaxLen, Stream!Begin(n) PROVE Stream!StreamOK'
  <2>1. Stream!Units(0) = <<>>
    BY DEF Stream!Units
  <2> QED
    BY <1>1, <2>1 DEF Stream!Begin, Stream!StreamOK
<1>2. ASSUME NEW n \in 0..MaxLen, Stream!Arrive(n) PROVE Stream!StreamOK'
  <2>1. Len(landed') = Len(landed) + n
    BY <1>0, <1>2, UnitsLen DEF Stream!Arrive
  <2> QED
    BY <1>2, <2>1 DEF Stream!Arrive, Stream!StreamOK
<1>3. CASE Stream!Finish
  BY <1>3 DEF Stream!Finish, Stream!StreamOK
<1>4. CASE Stream!Fail
  BY <1>4 DEF Stream!Fail, Stream!StreamOK
<1>5. CASE UNCHANGED Stream!streamVars
  BY <1>5 DEF Stream!streamVars, Stream!StreamOK
<1> QED
  BY <1>1, <1>2, <1>3, <1>4, <1>5 DEF Stream!StreamNext

\* What arrived is a beginning of the file, and all of it once it is reported complete: the
\* specification that the ring implements promises this, for files of any length.
THEOREM StreamIsInOrder == Stream!StreamSpec => []Stream!StreamOK
BY StreamInitOK, StreamNextOK, PTL DEF Stream!StreamSpec

-----------------------------------------------------------------------------
(* Pieces of a file.                                                       *)

\* The units after the first b.
LEMMA PieceIs ==
  ASSUME NEW b \in Nat, NEW n \in Nat
  PROVE  /\ Piece(b, n) \in Seq(Nat) /\ Len(Piece(b, n)) = n
         /\ b + n <= MaxLen => Piece(b, n) \in Seq(1..MaxLen)
         /\ \A i \in 1..n : Piece(b, n)[i] = b + i
<1>1. Piece(b, n) \in [1..n -> Nat] /\ \A i \in 1..n : Piece(b, n)[i] = b + i
  BY DEF Piece
<1>2. ASSUME b + n <= MaxLen PROVE Piece(b, n) \in [1..n -> 1..MaxLen]
  <2>1. \A i \in 1..n : b + i \in 1..MaxLen
    BY <1>2, RingAssumption
  <2> QED
    BY <2>1 DEF Piece
<1> DEFINE p == Piece(b, n)
<1>3. p \in [1..n -> Nat] /\ (b + n <= MaxLen => p \in [1..n -> 1..MaxLen])
  BY <1>1, <1>2
<1> HIDE DEF p
<1>4. p \in Seq(Nat) /\ Len(p) = n
  BY <1>3
<1>5. ASSUME b + n <= MaxLen PROVE p \in Seq(1..MaxLen)
  <2> DEFINE S == 1..MaxLen
  <2>1. p \in [1..n -> S]
    BY <1>3, <1>5
  <2> HIDE DEF S
  <2>2. p \in Seq(S)
    BY <2>1
  <2> QED
    BY <2>2 DEF S
<1> QED
  BY <1>1, <1>4, <1>5 DEF p

\* A unit is stored, after those that are there.
LEMMA PieceGrows ==
  ASSUME NEW b \in Nat, NEW n \in Nat, NEW S, NEW m \in Seq(S), n > 0 => m = Piece(b, n)
  PROVE  Append(SubSeq(m, 1, n), b + n + 1) = Piece(b, n + 1)
<1>1. Len(m) \in Nat /\ (n > 0 => Len(m) = n)
  <2>1. Len(Piece(b, n)) = n
    BY PieceIs
  <2>2. Len(m) \in Nat
    OBVIOUS
  <2> QED
    BY <2>1, <2>2
<1> DEFINE t == SubSeq(m, 1, n)
<1>2. Len(t) = n /\ t \in Seq(S) /\ \A i \in 1..n : t[i] = m[i]
  BY <1>1
<1> HIDE DEF t
<1> DEFINE a == Append(t, b + n + 1)
<1>3. /\ DOMAIN a = 1..n + 1 /\ a[n + 1] = b + n + 1
      /\ \A i \in 1..n : a[i] = t[i]
  <2>1. t \in Seq(S \cup Nat)
    BY <1>2
  <2>2. b + n + 1 \in S \cup Nat
    OBVIOUS
  <2> QED
    BY <1>2, <2>1, <2>2
<1>4. a \in Seq(S \cup Nat)
  <2>1. t \in Seq(S \cup Nat) /\ b + n + 1 \in S \cup Nat
    BY <1>2
  <2> QED
    BY <2>1
<1> HIDE DEF a
<1>5. \A i \in 1..n + 1 : a[i] = b + i
  <2> SUFFICES ASSUME NEW i \in 1..n + 1 PROVE a[i] = b + i
    OBVIOUS
  <2>1. CASE i = n + 1
    BY <2>1, <1>3
  <2>2. CASE i # n + 1
    <3>1. i \in 1..n /\ n > 0
      BY <2>2
    <3> QED
      BY <3>1, <1>2, <1>3, PieceIs
  <2> QED
    BY <2>1, <2>2
<1>6. a = [i \in 1..n + 1 |-> a[i]]
  BY <1>3, <1>4
<1>7. a = [i \in 1..n + 1 |-> b + i]
  BY <1>5, <1>6
<1> QED
  BY <1>7 DEF a, t, Piece

\* The beginning of what arrived is longer by what is flushed.
LEMMA UnitsGrow ==
  ASSUME NEW n \in Nat, NEW k \in Nat, NEW l \in Nat, k <= l
  PROVE  Stream!Units(n) \o SubSeq(Piece(n, l), 1, k) = Stream!Units(n + k)
<1> DEFINE u == Stream!Units(n)
           t == SubSeq(Piece(n, l), 1, k)
           a == u \o t
<1>1. u \in Seq(Nat) /\ Len(u) = n /\ \A i \in 1..n : u[i] = i
  BY UnitsLen DEF Stream!Units
<1>2. t \in Seq(Nat) /\ Len(t) = k /\ \A i \in 1..k : t[i] = n + i
  <2> DEFINE p == Piece(n, l)
  <2>1. p \in Seq(Nat) /\ Len(p) = l /\ \A i \in 1..l : p[i] = n + i
    BY PieceIs
  <2> HIDE DEF p
  <2>2. SubSeq(p, 1, k) \in Seq(Nat) /\ Len(SubSeq(p, 1, k)) = k /\ \A i \in 1..k : SubSeq(p, 1, k)[i] = p[i]
    BY <2>1
  <2> QED
    BY <2>1, <2>2 DEF p
<1> HIDE DEF u, t
<1>3. a \in Seq(Nat) /\ DOMAIN a = 1..n + k
  <2>1. a \in Seq(Nat) /\ Len(a) = n + k
    BY <1>1, <1>2
  <2> HIDE DEF a
  <2> QED
    BY <2>1
<1>4. \A i \in 1..n + k : a[i] = i
  <2> SUFFICES ASSUME NEW i \in 1..n + k PROVE a[i] = i
    OBVIOUS
  <2>1. CASE i <= n
    <3>1. i \in 1..n /\ a[i] = u[i]
      BY <2>1, <1>1, <1>2
    <3> QED
      BY <3>1, <1>1
  <2>2. CASE ~(i <= n)
    <3>1. i - n \in 1..k /\ a[i] = t[i - n]
      BY <2>2, <1>1, <1>2
    <3>2. t[i - n] = n + (i - n)
      BY <3>1, <1>2
    <3> QED
      BY <3>1, <3>2
  <2> QED
    BY <2>1, <2>2
<1> HIDE DEF a
<1>5. a = [i \in 1..n + k |-> a[i]]
  BY <1>3
<1>6. a = [i \in 1..n + k |-> i]
  BY <1>4, <1>5
<1> QED
  BY <1>6 DEF a, u, t, Stream!Units

\* Or by a unit that is sent.
LEMMA UnitsAppend ==
  ASSUME NEW n \in Nat
  PROVE  Append(Stream!Units(n), n + 1) = Stream!Units(n + 1)
<1> DEFINE u == Stream!Units(n)
           a == Append(u, n + 1)
<1>1. u \in Seq(Nat) /\ Len(u) = n /\ \A i \in 1..n : u[i] = i
  BY UnitsLen DEF Stream!Units
<1> HIDE DEF u
<1>2. a \in Seq(Nat) /\ DOMAIN a = 1..n + 1 /\ \A i \in 1..n + 1 : a[i] = i
  BY <1>1
<1> HIDE DEF a
<1>3. a = [i \in 1..n + 1 |-> a[i]]
  BY <1>2
<1>4. a = [i \in 1..n + 1 |-> i]
  BY <1>2, <1>3
<1> QED
  BY <1>4 DEF a, u, Stream!Units

-----------------------------------------------------------------------------
(* The steps that write.                                                   *)

\* A unit from the server is stored.
LEMMA StoreFacts ==
  ASSUME Control, MemoryOK, FillOK, Store
  PROVE  /\ Download /\ Started /\ helper.pc = "run" /\ helper.slot \in RingSlot /\ helper.slot # None
         /\ helper.moved \in Nat /\ helper.fill \in Nat /\ helper.moved < length
         /\ helper.fill <= helper.moved /\ helper.fill < SlotUnits
         /\ helper'.pc = "run" /\ helper'.slot = helper.slot
         /\ helper'.fill = helper.fill + 1 /\ helper'.moved = helper.moved + 1
         /\ memory' = [memory EXCEPT ![helper.slot] = Piece(helper.moved - helper.fill, helper.fill + 1)]
<1>1. /\ helper \in Helpers /\ length \in Nat /\ SlotUnits \in Nat
      /\ helper.moved \in Nat /\ helper.fill \in 0..SlotUnits /\ helper.slot \in 0..Slots
  BY HelperFields, RingAssumption DEF Control, Types, ThreadTypes, ContextTypes
<1>2. /\ Download /\ Started /\ Holding /\ helper.pc = "run" /\ helper.slot \in RingSlot /\ helper.slot # None
      /\ helper.moved < length /\ helper.fill < SlotUnits
  BY <1>1, SlotFacts DEF Store, Expects, Full, Started, Moves, Holding
<1>3. /\ helper.fill <= helper.moved
      /\ helper.fill > 0 => memory[helper.slot] = Piece(helper.moved - helper.fill, helper.fill)
  BY <1>2 DEF FillOK
<1>4. /\ helper'.pc = "run" /\ helper'.slot = helper.slot
      /\ helper'.fill = helper.fill + 1 /\ helper'.moved = helper.moved + 1
  BY <1>1, <1>2 DEF Store, Helpers
<1>5. PICK b \in Nat : b = helper.moved - helper.fill /\ b + helper.fill + 1 = helper.moved + 1
  BY <1>1, <1>3
<1>6. Append(SubSeq(memory[helper.slot], 1, helper.fill), helper.moved + 1) = Piece(b, helper.fill + 1)
  <2>1. memory[helper.slot] \in Seq(1..MaxLen)
    BY <1>2 DEF MemoryOK
  <2>2. helper.fill \in Nat /\ (helper.fill > 0 => memory[helper.slot] = Piece(b, helper.fill))
    BY <1>1, <1>3, <1>5
  <2>3. Append(SubSeq(memory[helper.slot], 1, helper.fill), b + helper.fill + 1) = Piece(b, helper.fill + 1)
    BY <2>1, <2>2, PieceGrows
  <2> QED
    BY <2>3, <1>5
<1>7. memory' = [memory EXCEPT ![helper.slot] = Append(SubSeq(memory[helper.slot], 1, helper.fill), helper.moved + 1)]
  BY DEF Store
<1>8. memory' = [memory EXCEPT ![helper.slot] = Piece(helper.moved - helper.fill, helper.fill + 1)]
  BY <1>5, <1>6, <1>7
<1> QED
  BY <1>1, <1>2, <1>3, <1>4, <1>8

\* A slot is filled from the file.
LEMMA FillFacts ==
  ASSUME Control, FillRead
  PROVE  \E n \in 0..SlotUnits :
           /\ flusher.at \in Nat /\ flusher.at + n <= length /\ length <= MaxLen
           /\ mode = "upload" /\ flusher.slot \in RingSlot
           /\ memory' = [memory EXCEPT ![flusher.slot] = Piece(flusher.at, n)]
           /\ ready' = IF n > 0 THEN Append(ready, SlotLine("slot", flusher.slot, n)) ELSE ready
           /\ flusher'.pc \in {"over", "wait"} /\ flusher'.at = flusher.at + n
           /\ eof' /\ ~broken' => eof \/ flusher.at + n = length
           /\ ~broken' => ~broken
<1>1. /\ flusher \in Flushers /\ flusher.at \in Nat /\ length \in Nat /\ flusher.at <= length /\ length <= MaxLen
      /\ mode = "upload" /\ flusher.slot \in RingSlot /\ SlotUnits \in Nat
  BY RingAssumption, FlusherFields DEF FillRead, Control, Types, ContextTypes, ThreadTypes, FlusherOK
<1> DEFINE left == length - flusher.at
           want == IF whole THEN SlotUnits ELSE Lesser(SlotUnits, left)
           full == Lesser(want, left)
<1>2. PICK n \in 0..full :
        /\ \/ n = full /\ UNCHANGED broken /\ Smooth
           \/ n < want /\ broken' = TRUE /\ Mishap
        /\ memory' = [memory EXCEPT ![flusher.slot] = Piece(flusher.at, n)]
        /\ ready' = IF n > 0 THEN Append(ready, SlotLine("slot", flusher.slot, n)) ELSE ready
        /\ eof' = (eof \/ n < want \/ (~whole /\ n = left))
        /\ flusher' = [flusher EXCEPT !.at = @ + n, !.slot = None,
                                      !.pc = IF eof' THEN "over" ELSE "wait"]
  BY DEF FillRead
<1>3. /\ left \in Nat /\ want \in Nat /\ full \in Nat /\ want <= SlotUnits /\ full <= want /\ full <= left
      /\ full = want \/ full = left
      /\ flusher.at + left = length
  BY <1>1 DEF Lesser
<1>4. n \in 0..SlotUnits /\ flusher.at + n <= length
  <2>1. n \in 0..full
    BY <1>2
  <2> HIDE DEF left, want, full
  <2>2. n \in Nat /\ n <= SlotUnits /\ n <= left
    BY <1>1, <1>3, <2>1
  <2> QED
    BY <1>1, <1>3, <2>2
<1>5. flusher'.pc \in {"over", "wait"} /\ flusher'.at = flusher.at + n
  BY <1>1, <1>2 DEF Flushers
<1>6. eof' /\ ~broken' => eof \/ flusher.at + n = length
  <2>1. ~broken' => n = full
    BY <1>2
  <2>2. n = full /\ n < want => n = left
    BY <1>3
  <2>3. n = left => flusher.at + n = length
    BY <1>1
  <2>4. eof' => eof \/ n < want \/ n = left
    BY <1>2
  <2> QED
    BY <2>1, <2>2, <2>3, <2>4
<1>7. ~broken' => ~broken
  BY <1>2
<1>8. memory' = [memory EXCEPT ![flusher.slot] = Piece(flusher.at, n)]
  BY <1>2
<1>9. ready' = IF n > 0 THEN Append(ready, SlotLine("slot", flusher.slot, n)) ELSE ready
  BY <1>2
<1> HIDE DEF left, want, full
<1> QED
  BY <1>1, <1>4, <1>5, <1>6, <1>7, <1>8, <1>9

\* A slot is written to the target: the units that follow those that arrived.
LEMMA FlushFacts ==
  ASSUME Control, LandedOK, QueueOK, FlushWrite
  PROVE  \E k \in 0..flusher.n :
           /\ flusher.n \in Nat /\ Len(landed) \in Nat /\ Len(landed) + flusher.n <= length /\ Flushes
           /\ landed' = Stream!Units(Len(landed) + k) /\ Len(landed') = Len(landed) + k
           /\ \/ k = flusher.n /\ broken' = broken
                 /\ flusher'.pc = (IF mode = "credit" THEN "grant" ELSE "wait")
              \/ broken' /\ flusher'.pc \in {"excuse", "over"}
<1>1. /\ flusher \in Flushers /\ flusher.n \in Nat /\ Len(landed) \in Nat /\ flusher.slot \in RingSlot
      /\ flusher.pc = "flush" /\ ready \in Seq(SlotLines) /\ landed = Stream!Units(Len(landed))
      /\ Flushes /\ length \in Nat
  BY FlusherFields DEF Control, Types, ThreadTypes, ContextTypes, RingTypes, FlusherOK, FlushWrite, LandedOK, Flushes,
     Download
<1>2. memory[flusher.slot] = Piece(Len(landed), flusher.n)
  BY <1>1 DEF QueueOK
<1>3. Len(landed) + flusher.n <= length
  <2>1. PICK c \in 0..length : Between(memory, Len(landed) + InFlush, ready, toApp, c)
    BY <1>1 DEF QueueOK
  <2>2. toApp \in Seq(AppLines)
    BY DEF Control, Types, PipeTypes
  <2>3. Len(landed) + InFlush <= c
    BY <2>1, <2>2, <1>1, BetweenBounds
  <2> QED
    BY <2>1, <2>3, <1>1 DEF InFlush
<1>4. ASSUME NEW k \in 0..flusher.n, landed' = landed \o SubSeq(memory[flusher.slot], 1, k)
      PROVE  landed' = Stream!Units(Len(landed) + k) /\ Len(landed') = Len(landed) + k
  <2>1. k \in Nat /\ k <= flusher.n /\ Len(landed) + k \in Nat
    BY <1>1
  <2>2. Stream!Units(Len(landed)) \o SubSeq(Piece(Len(landed), flusher.n), 1, k) = Stream!Units(Len(landed) + k)
    BY <1>1, <2>1, UnitsGrow
  <2>3. landed' = Stream!Units(Len(landed) + k)
    BY <1>1, <1>2, <1>4, <2>2
  <2> QED
    BY <2>1, <2>3, UnitsLen
<1>5. CASE /\ landed' = landed \o SubSeq(memory[flusher.slot], 1, flusher.n)
           /\ flusher' = IF mode = "credit" THEN [flusher EXCEPT !.pc = "grant"]
                         ELSE [flusher EXCEPT !.pc = "wait", !.slot = None, !.n = 0]
           /\ UNCHANGED broken
  <2>1. flusher'.pc = (IF mode = "credit" THEN "grant" ELSE "wait")
    BY <1>1, <1>5 DEF Flushers
  <2>2. flusher.n \in 0..flusher.n
    BY <1>1
  <2> QED
    BY <1>1, <1>3, <1>4, <1>5, <2>1, <2>2
<1>6. CASE /\ \E k \in 0..flusher.n - 1 : landed' = landed \o SubSeq(memory[flusher.slot], 1, k)
           /\ IF mode = "credit" THEN flusher' = [flusher EXCEPT !.pc = "excuse"] ELSE Dismiss
           /\ broken' = TRUE
  <2>1. flusher'.pc \in {"excuse", "over"}
    BY <1>1, <1>6 DEF Flushers, Dismiss
  <2>2. PICK k \in 0..flusher.n - 1 : landed' = landed \o SubSeq(memory[flusher.slot], 1, k)
    BY <1>6
  <2>3. k \in 0..flusher.n
    BY <1>1, <2>2
  <2> QED
    BY <1>1, <1>3, <1>4, <1>6, <2>1, <2>2, <2>3
<1> QED
  BY <1>5, <1>6 DEF FlushWrite

\* A unit is sent: the one that follows.
LEMMA SendFacts ==
  ASSUME Control, LandedOK, UploadOK, Send
  PROVE  /\ mode = "upload" /\ Started /\ helper.pc = "run" /\ helper.fill > 0
         /\ helper.moved \in Nat /\ helper.fill \in Nat /\ Len(landed) = helper.moved
         /\ helper.moved + helper.fill <= length
         /\ helper'.pc = "run" /\ helper'.slot = helper.slot
         /\ helper'.fill = helper.fill - 1 /\ helper'.moved = helper.moved + 1
         /\ landed' = Stream!Units(helper.moved + 1) /\ Len(landed') = helper.moved + 1
<1>1. /\ helper \in Helpers /\ length \in Nat /\ helper.moved \in Nat /\ helper.fill \in Nat
      /\ mode = "upload" /\ Started /\ Holding /\ helper.pc = "run" /\ helper.fill > 0
  BY HelperFields DEF Control, Types, ThreadTypes, ContextTypes, Send, Download, Started, Moves, Holding
<1>2. /\ Len(landed) = helper.moved
      /\ Rest(memory[helper.slot], helper.fill, helper.moved)
      /\ \E mid \in 0..length : mid = helper.moved + helper.fill
  BY <1>1 DEF UploadOK
<1>3. helper.moved + helper.fill <= length
  BY <1>1, <1>2
<1>4. memory[helper.slot][Len(memory[helper.slot]) - helper.fill + 1] = helper.moved + 1
  <2>1. Len(memory[helper.slot]) \in Nat
    <3>1. helper.slot \in RingSlot
      BY <1>1, HelperFields, SlotFacts DEF Control, HelperOK
    <3> QED
      BY <3>1, <1>1, <1>2
  <2>2. \A l, m, f \in Nat : l >= f /\ m + f >= l /\ f > 0 =>
           m + f - l \in Nat /\ l - f + 1 \in 1..l /\ (m + f - l) + (l - f + 1) = m + 1
    OBVIOUS
  <2> DEFINE l == Len(memory[helper.slot])
             b == helper.moved + helper.fill - l
             i == l - helper.fill + 1
  <2>3. l \in Nat /\ l >= helper.fill /\ helper.moved + helper.fill >= l
    BY <1>2, <2>1 DEF Rest
  <2>4. memory[helper.slot] = Piece(b, l)
    BY <1>2 DEF Rest
  <2> HIDE DEF l
  <2>5. b \in Nat /\ i \in 1..l /\ b + i = helper.moved + 1
    BY <1>1, <2>2, <2>3
  <2> HIDE DEF b, i
  <2>6. Piece(b, l)[i] = helper.moved + 1
    BY <2>3, <2>5, PieceIs
  <2> QED
    BY <2>4, <2>6 DEF i, l
<1>5. /\ helper'.pc = "run" /\ helper'.slot = helper.slot
      /\ helper'.fill = helper.fill - 1 /\ helper'.moved = helper.moved + 1
  BY <1>1 DEF Send, Helpers
<1>6. landed' = Append(landed, helper.moved + 1)
  BY <1>4 DEF Send
<1>7. landed = Stream!Units(helper.moved)
  BY <1>2 DEF LandedOK
<1>8. landed' = Stream!Units(helper.moved + 1) /\ helper.moved + 1 \in Nat
  <2>1. Append(Stream!Units(helper.moved), helper.moved + 1) = Stream!Units(helper.moved + 1)
    BY <1>1, UnitsAppend
  <2> QED
    BY <2>1, <1>1, <1>6, <1>7
<1> QED
  BY <1>1, <1>2, <1>3, <1>5, <1>8, UnitsLen

\* The helper of a ring that is in use stays where it is, or goes on.
HelperSame == UNCHANGED <<helper.pc, helper.slot, helper.fill, helper.moved, helper.ok>>
HelperMoves(from, to) ==
  /\ helper.pc = from /\ helper'.pc = to
  /\ UNCHANGED <<helper.slot, helper.fill, helper.moved>>

\* What a step does to the helper, while the ring is in use.
LEMMA HelperGoesOn ==
  ASSUME Control, [RingNext]_ringVars, Started, Started'
  PROVE  \/ HelperSame
         \/ Store
         \/ Send
         \/ Opened /\ Hears("map") /\ HelperMoves("open", "run")
         \/ NextGrant /\ helper'.pc = "run" /\ helper'.moved = helper.moved /\ helper'.fill = 0
         \/ /\ NextLent /\ helper'.pc = "run" /\ helper'.moved = helper.moved
            /\ helper'.slot = Head(toHelper).slot
            /\ helper'.fill = IF Download THEN 0 ELSE Head(toHelper).n
         \/ Ask /\ HelperMoves("run", "ask")
         \/ Tells(Line("quota")) /\ Quota /\ HelperMoves("run", "quota")
         \/ Hears("quota") /\ Take /\ Quota /\ UNCHANGED toApp /\ HelperMoves("quota", "run")
         \/ Finalize /\ Download /\ HelperMoves("run", "final")
<1>1. helper \in Helpers
  BY DEF Control, Types, ThreadTypes
<1>2. helper.pc # "command" /\ helper.pc # "report" /\ helper.pc # "gone"
  BY DEF Started, Moves, Mapped
<1>3. helper'.pc # "command" /\ helper'.pc # "report" /\ helper'.pc # "gone"
  BY DEF Started, Moves, Mapped
<1>4. CASE Flusher
  BY <1>4 DEF Flusher, FlushWait, FlushFinish, FlushWrite, FlushGrant, FillWait, FillRead, HelperSame
<1>5. CASE Reader
  BY <1>5 DEF Reader, OnQuota, OnResult, OnOpen, OnOpenFile, OnOpenStart, OnNextCredit, OnNextReturn,
     OnNextLend, OnFinalize, OnFinalizeJoin, OnEnd, HelperSame
<1>6. CASE Command \/ StrayLine \/ ReportDone
  BY <1>2, <1>3, <1>6, NoHelperIs DEF Command, StrayLine, ReportDone
<1>7. CASE NextNone \/ Finalized
  BY <1>1, <1>3, <1>7, Turned DEF NextNone, Finalized, Helping, HelperPlaces
<1>8. CASE Siphon
  BY <1>1, <1>8 DEF Siphon, Helpers, HelperSame
<1>9. CASE Opened
  <2>1. CASE Hears("map") /\ Turn("run")
    BY <1>1, <1>9, <2>1, Turned DEF Opened, Helping, HelperPlaces, HelperMoves
  <2>2. CASE Fails("report")
    BY <1>1, <1>3, <2>2, Turned DEF Helping, HelperPlaces
  <2> QED
    BY <1>9, <2>1, <2>2 DEF Opened
<1>10. CASE Ask
  BY <1>1, <1>10, Turned DEF Ask, Helping, HelperPlaces, HelperMoves
<1>11. CASE NextGrant
  BY <1>1, <1>11 DEF NextGrant, Helpers
<1>12. CASE NextLent
  BY <1>1, <1>12 DEF NextLent, Helpers
<1>13. CASE Quota
  <2>1. CASE /\ helper.pc = "run" /\ Tells(Line("quota"))
             /\ helper' = [helper EXCEPT !.pc = "quota", !.asked = TRUE]
    BY <1>1, <1>13, <2>1 DEF Helpers, HelperMoves
  <2>2. CASE helper.pc = "quota" /\ Hears("quota") /\ Take /\ Turn("run") /\ UNCHANGED toApp
    BY <1>1, <1>13, <2>2, Turned DEF Helping, HelperPlaces, HelperMoves
  <2>3. CASE helper' = NoHelper
    BY <1>3, <2>3, NoHelperIs
  <2> QED
    BY <1>13, <2>1, <2>2, <2>3 DEF Quota
<1>14. CASE Finalize
  <2>1. CASE Turn(IF Download THEN "final" ELSE "report")
    BY <1>1, <1>3, <1>14, <2>1, Turned DEF Finalize, Helping, HelperPlaces, HelperMoves
  <2>2. CASE Fails(IF Download THEN "final" ELSE "report")
    BY <1>1, <1>3, <1>14, <2>2, Turned DEF Finalize, Helping, HelperPlaces, HelperMoves
  <2> QED
    BY <1>14, <2>1, <2>2 DEF Finalize
<1>15. CASE HelperDies \/ Launch \/ StopKill
  BY <1>2, <1>3, <1>15, NoHelperIs DEF HelperDies, Launch, StopKill, NoHelper
<1>16. CASE \/ SetIoContext \/ SendXfer \/ Result \/ ConnectionClosed \/ Pause \/ StopSignal \/ StopJoin
            \/ StopDrop \/ UNCHANGED ringVars
  BY <1>16 DEF SetIoContext, SendXfer, Result, ConnectionClosed, Pause, StopSignal, StopJoin, StopDrop,
     ringVars, HelperSame
<1> QED
  BY <1>4, <1>5, <1>6, <1>7, <1>8, <1>9, <1>10, <1>11, <1>12, <1>13, <1>14, <1>15, <1>16
  DEF RingNext, HelperStep, BossPolls, Stop

-----------------------------------------------------------------------------
(* Slots, target and helper.                                               *)

\* No step puts more than its size into a slot.
LEMMA MemoryNext == ASSUME Control, Data, [RingNext]_ringVars PROVE MemoryOK'
<1>1. DOMAIN memory = RingSlot /\ \A s \in RingSlot : memory[s] \in Seq(1..MaxLen) /\ Len(memory[s]) <= SlotUnits
  BY DEF Data, MemoryOK
<1>2. ASSUME NEW t \in RingSlot, NEW b \in Nat, NEW n \in 0..SlotUnits, b + n <= MaxLen,
             memory' = [memory EXCEPT ![t] = Piece(b, n)]
      PROVE  MemoryOK'
  <2>1. n \in Nat /\ n <= SlotUnits
    BY RingAssumption
  <2>2. Piece(b, n) \in Seq(1..MaxLen) /\ Len(Piece(b, n)) = n
    BY <1>2, <2>1, PieceIs
  <2>3. DOMAIN memory' = RingSlot
    BY <1>1, <1>2
  <2>4. \A s \in RingSlot : memory'[s] = IF s = t THEN Piece(b, n) ELSE memory[s]
    BY <1>1, <1>2
  <2> QED
    BY <1>1, <2>1, <2>2, <2>3, <2>4 DEF MemoryOK
<1>3. CASE Store
  <2>1. /\ helper.slot \in RingSlot /\ helper.moved - helper.fill \in Nat /\ helper.fill + 1 \in 0..SlotUnits
        /\ (helper.moved - helper.fill) + (helper.fill + 1) <= length
        /\ memory' = [memory EXCEPT ![helper.slot] = Piece(helper.moved - helper.fill, helper.fill + 1)]
    <3>1. length \in Nat /\ SlotUnits \in Nat
      BY RingAssumption DEF Control, Types, ContextTypes
    <3>2. /\ helper.moved \in Nat /\ helper.fill \in Nat /\ helper.moved < length
          /\ helper.fill <= helper.moved /\ helper.fill < SlotUnits /\ helper.slot \in RingSlot
          /\ memory' = [memory EXCEPT ![helper.slot] = Piece(helper.moved - helper.fill, helper.fill + 1)]
      BY <1>3, StoreFacts DEF Data
    <3> QED
      BY <3>1, <3>2
  <2>2. length \in Nat /\ length <= MaxLen /\ MaxLen \in Nat
    BY RingAssumption DEF Control, Types, ContextTypes
  <2>3. (helper.moved - helper.fill) + (helper.fill + 1) <= MaxLen
    <3>1. \A b, n, l, m \in Nat : b + n <= l /\ l <= m => b + n <= m
      OBVIOUS
    <3>2. helper.fill + 1 \in Nat
      BY <2>1, RingAssumption
    <3> QED
      BY <2>1, <2>2, <3>1, <3>2
  <2> QED
    BY <1>2, <2>1, <2>3
<1>4. CASE FillRead
  <2>1. PICK n \in 0..SlotUnits :
          /\ flusher.at \in Nat /\ flusher.at + n <= length /\ length <= MaxLen /\ flusher.slot \in RingSlot
          /\ memory' = [memory EXCEPT ![flusher.slot] = Piece(flusher.at, n)]
    BY <1>4, FillFacts
  <2>2. flusher.at + n <= MaxLen
    BY <2>1, RingAssumption DEF Control, Types, ContextTypes
  <2> QED
    BY <1>2, <2>1, <2>2
<1>5. CASE memory' = memory
  BY <1>1, <1>5 DEF MemoryOK
<1> QED
  BY <1>3, <1>4, <1>5, MemoryStays

\* What arrived is a beginning of the file.
LEMMA LandedNext == ASSUME Control, Data, [RingNext]_ringVars PROVE LandedOK'
<1>1. Len(landed) \in 0..length /\ landed = Stream!Units(Len(landed)) /\ length \in Nat
  BY DEF Data, LandedOK, Control, Types, ContextTypes
<1>2. CASE SendXfer
  <2>1. landed' = <<>> /\ length' \in Nat
    BY <1>2, RingAssumption DEF SendXfer
  <2>2. Stream!Units(0) = <<>> /\ Len(<<>>) = 0
    BY DEF Stream!Units
  <2> QED
    BY <2>1, <2>2 DEF LandedOK
<1>3. CASE FlushWrite
  <2>1. PICK k \in 0..flusher.n :
          /\ flusher.n \in Nat /\ Len(landed) + flusher.n <= length
          /\ landed' = Stream!Units(Len(landed) + k) /\ Len(landed') = Len(landed) + k
    BY <1>3, FlushFacts DEF Data
  <2>2. length' = length
    BY <1>3 DEF FlushWrite
  <2>3. Len(landed) + k \in 0..length
    BY <1>1, <2>1
  <2> QED
    BY <2>1, <2>2, <2>3 DEF LandedOK
<1>4. CASE Send
  <2>1. /\ helper.moved \in Nat /\ helper.fill \in Nat /\ helper.fill > 0 /\ helper.moved + helper.fill <= length
        /\ landed' = Stream!Units(helper.moved + 1) /\ Len(landed') = helper.moved + 1
    BY <1>4, SendFacts DEF Data
  <2>2. length' = length
    BY <1>4 DEF Send, HelperOnly
  <2>3. helper.moved + 1 \in 0..length
    BY <1>1, <2>1
  <2> QED
    BY <2>1, <2>2, <2>3 DEF LandedOK
<1>5. CASE ~SendXfer /\ ~FlushWrite /\ ~Send
  BY <1>1, <1>5, LandedStays, ContextStays DEF LandedOK
<1> QED
  BY <1>2, <1>3, <1>4, <1>5

\* The helper's slot holds the units before the next.
LEMMA FillNext == ASSUME Control, Data, [RingNext]_ringVars PROVE FillOK'
<1>1. SUFFICES ASSUME Download', Started' PROVE FillOK'
  BY DEF FillOK
<1>2. helper \in Helpers /\ helper.moved \in Nat /\ helper.fill \in Nat /\ length \in Nat
  BY HelperFields DEF Control, Types, ThreadTypes, ContextTypes
<1>3. CASE OnOpenStart
  <2>1. helper' = helper /\ length' = length
    BY <1>3 DEF OnOpenStart
  <2>2. helper.pc = "open"
    BY <1>1, <1>3, <2>1 DEF OnOpenStart, Control, ReaderOK, Opening, Started, Moves, Mapped
  <2>3. helper.moved = 0
    BY <2>2 DEF Control, HelperOK
  <2> QED
    BY <1>2, <2>1, <2>2, <2>3 DEF FillOK, Holding
<1>4. CASE ~OnOpenStart
  <2>1. Started
    BY <1>1, <1>4, StartsOnce
  <2>2. ~SendXfer
    BY <2>1 DEF SendXfer, Control, BossOK, Idle, Started, Moves, Mapped
  <2>3. Download /\ length' = length /\ ~FillRead
    BY <1>1, <2>2, ContextStays DEF Download, FillRead, Control, FlusherOK
  <2>4. /\ helper.moved <= length
        /\ Holding => helper.fill <= helper.moved
        /\ Holding /\ helper.fill > 0 => memory[helper.slot] = Piece(helper.moved - helper.fill, helper.fill)
    BY <2>1, <2>3 DEF Data, FillOK
  <2>5. CASE Store
    <3>1. /\ helper.moved < length /\ helper.fill <= helper.moved /\ helper.slot \in RingSlot
          /\ helper'.slot = helper.slot
          /\ helper'.fill = helper.fill + 1 /\ helper'.moved = helper.moved + 1
          /\ memory' = [memory EXCEPT ![helper.slot] = Piece(helper.moved - helper.fill, helper.fill + 1)]
      BY <2>5, StoreFacts DEF Data
    <3>2. memory'[helper.slot] = Piece(helper.moved - helper.fill, helper.fill + 1)
      BY <3>1 DEF Data, MemoryOK
    <3>3. helper'.moved - helper'.fill = helper.moved - helper.fill
      BY <1>2, <3>1
    <3>4. memory'[helper'.slot] = Piece(helper'.moved - helper'.fill, helper'.fill)
      BY <3>1, <3>2, <3>3
    <3>5. helper'.moved <= length /\ helper'.fill <= helper'.moved
      BY <1>2, <3>1
    <3> QED
      BY <2>3, <3>4, <3>5 DEF FillOK
  <2>6. CASE ~Store
    <3>1. memory' = memory
      BY <2>3, <2>6, MemoryStays
    <3>2. ~Send
      BY <2>3 DEF Send
    <3>3. CASE Opened /\ HelperMoves("open", "run")
      <4>1. helper.fill = 0 /\ helper.moved = 0
        BY <3>3 DEF HelperMoves, Control, HelperOK
      <4> QED
        BY <1>2, <2>3, <3>3, <4>1 DEF FillOK, HelperMoves
    <3>4. CASE helper'.moved = helper.moved /\ helper'.fill = 0
      BY <1>2, <2>3, <2>4, <3>4 DEF FillOK
    <3>5. CASE HelperSame
      BY <1>2, <2>3, <2>4, <3>1, <3>5 DEF FillOK, Holding, HelperSame
    <3>6. CASE HelperMoves("run", "quota") \/ HelperMoves("quota", "run") \/ HelperMoves("run", "ask")
                \/ HelperMoves("run", "final")
      BY <1>2, <2>3, <2>4, <3>1, <3>6 DEF FillOK, Holding, HelperMoves
    <3> QED
      BY <1>1, <2>1, <2>3, <2>6, <3>2, <3>3, <3>4, <3>5, <3>6, HelperGoesOn
  <2> QED
    BY <2>5, <2>6
<1> QED
  BY <1>3, <1>4

\* The queue of slots changes when one is queued or taken.
LEMMA ReadyStays ==
  ASSUME [RingNext]_ringVars, ~FlushWait, ~FillRead, ~OnOpenStart, ~OnNextCredit,
         ~OnNextReturn, ~OnNextLend, ~OnFinalize
  PROVE  ready' = ready
<1>1. CASE Flusher
  BY <1>1 DEF Flusher, FlushFinish, FlushWrite, FlushGrant, FillWait
<1>2. CASE Reader
  BY <1>2 DEF Reader, OnQuota, OnResult, OnOpen, OnOpenFile, OnFinalizeJoin, OnEnd
<1>3. CASE HelperStep
  BY <1>3 DEF HelperStep, Command, StrayLine, Siphon, Opened, Store, Send, Ask, NextGrant,
    NextLent, NextNone, Quota, Finalize, Finalized, ReportDone, HelperOnly
<1>4. CASE ~Flusher /\ ~Reader /\ ~HelperStep
  BY <1>4 DEF RingNext, BossPolls, Stop, HelperOnly, ringVars, HelperDies, Launch,
    SetIoContext, SendXfer, Result, ConnectionClosed, Pause, StopKill, StopSignal, StopJoin,
    StopDrop
<1> QED
  BY <1>1, <1>2, <1>3, <1>4

\* A line comes when the helper says one and goes when the reader reads it.
LEMMA ToAppStays ==
  ASSUME [RingNext]_ringVars, ~OnQuota, ~OnResult, ~OnOpen, ~OnNextCredit, ~OnNextReturn,
         ~OnFinalize, ~Command, ~Ask, ~Quota, ~Finalize, ~ReportDone, ~Launch
  PROVE  toApp' = toApp
<1>1. CASE Flusher
  BY <1>1 DEF Flusher, FlushWait, FlushFinish, FlushWrite, FlushGrant, FillWait, FillRead
<1>2. CASE Reader
  BY <1>2 DEF Reader, OnOpenFile, OnOpenStart, OnNextLend, OnFinalizeJoin, OnEnd
<1>3. CASE HelperStep
  BY <1>3 DEF HelperStep, StrayLine, Siphon, Opened, Store, Send, NextGrant, NextLent,
    NextNone, Finalized, HelperOnly
<1>4. CASE ~Flusher /\ ~Reader /\ ~HelperStep
  BY <1>4 DEF RingNext, BossPolls, Stop, HelperOnly, ringVars, HelperDies, SetIoContext,
    SendXfer, Result, ConnectionClosed, Pause, StopKill, StopSignal, StopJoin, StopDrop
<1> QED
  BY <1>1, <1>2, <1>3, <1>4

\* A line goes when the helper hears it.
LEMMA ToHelperStays ==
  ASSUME [RingNext]_ringVars, ~FlushGrant, ~OnQuota, ~OnOpenFile, ~OnOpenStart, ~OnNextLend,
         ~OnFinalizeJoin, ~Command, ~Siphon, ~Opened, ~NextLent, ~NextNone, ~Quota,
         ~Finalized, ~SendXfer, ~Launch
  PROVE  toHelper' = toHelper
<1>1. CASE Flusher
  BY <1>1 DEF Flusher, FlushWait, FlushFinish, FlushWrite, FillWait, FillRead
<1>2. CASE Reader
  BY <1>2 DEF Reader, OnResult, OnOpen, OnNextCredit, OnNextReturn, OnFinalize, OnEnd
<1>3. CASE HelperStep
  BY <1>3 DEF HelperStep, StrayLine, Store, Send, Ask, NextGrant, Finalize, ReportDone,
    HelperOnly
<1>4. CASE ~Flusher /\ ~Reader /\ ~HelperStep
  BY <1>4 DEF RingNext, BossPolls, Stop, HelperOnly, ringVars, HelperDies, SetIoContext,
    Result, ConnectionClosed, Pause, StopKill, StopSignal, StopJoin, StopDrop
<1> QED
  BY <1>1, <1>2, <1>3, <1>4

\* An error stays one till the next transfer.
LEMMA BrokenStays ==
  ASSUME [RingNext]_ringVars, ~OnOpenStart, ~SendXfer
  PROVE  broken => broken'
<1>1. CASE Flusher
  BY <1>1 DEF Flusher, FlushWait, FlushFinish, FlushWrite, FlushGrant, FillWait, FillRead
<1>2. CASE Reader
  BY <1>2 DEF Reader, OnQuota, OnResult, OnOpen, OnOpenFile, OnNextCredit, OnNextReturn,
    OnNextLend, OnFinalize, OnFinalizeJoin, OnEnd
<1>3. CASE HelperStep
  BY <1>3 DEF HelperStep, Command, StrayLine, Siphon, Opened, Store, Send, Ask, NextGrant,
    NextLent, NextNone, Quota, Finalize, Finalized, ReportDone, HelperOnly
<1>4. CASE ~Flusher /\ ~Reader /\ ~HelperStep
  BY <1>4 DEF RingNext, BossPolls, Stop, HelperOnly, ringVars, HelperDies, Launch,
    SetIoContext, Result, ConnectionClosed, Pause, StopKill, StopSignal, StopJoin, StopDrop
<1> QED
  BY <1>1, <1>2, <1>3, <1>4

\* A download is finalized once.
LEMMA FinalStays ==
  ASSUME [RingNext]_ringVars, ~OnOpenStart, ~OnFinalize
  PROVE  final' = final
<1>1. CASE Flusher
  BY <1>1 DEF Flusher, FlushWait, FlushFinish, FlushWrite, FlushGrant, FillWait, FillRead
<1>2. CASE Reader
  BY <1>2 DEF Reader, OnQuota, OnResult, OnOpen, OnOpenFile, OnNextCredit, OnNextReturn,
    OnNextLend, OnFinalizeJoin, OnEnd
<1>3. CASE HelperStep
  BY <1>3 DEF HelperStep, Command, StrayLine, Siphon, Opened, Store, Send, Ask, NextGrant,
    NextLent, NextNone, Quota, Finalize, Finalized, ReportDone, HelperOnly
<1>4. CASE ~Flusher /\ ~Reader /\ ~HelperStep
  BY <1>4 DEF RingNext, BossPolls, Stop, HelperOnly, ringVars, HelperDies, Launch,
    SetIoContext, SendXfer, Result, ConnectionClosed, Pause, StopKill, StopSignal, StopJoin,
    StopDrop
<1> QED
  BY <1>1, <1>2, <1>3, <1>4

\* The I/O thread finds the end of the file.
LEMMA EofStays ==
  ASSUME [RingNext]_ringVars, ~OnOpenStart, ~FillRead
  PROVE  eof' = eof
<1>1. CASE Flusher
  BY <1>1 DEF Flusher, FlushWait, FlushFinish, FlushWrite, FlushGrant, FillWait
<1>2. CASE Reader
  BY <1>2 DEF Reader, OnQuota, OnResult, OnOpen, OnOpenFile, OnNextCredit, OnNextReturn,
    OnNextLend, OnFinalize, OnFinalizeJoin, OnEnd
<1>3. CASE HelperStep
  BY <1>3 DEF HelperStep, Command, StrayLine, Siphon, Opened, Store, Send, Ask, NextGrant,
    NextLent, NextNone, Quota, Finalize, Finalized, ReportDone, HelperOnly
<1>4. CASE ~Flusher /\ ~Reader /\ ~HelperStep
  BY <1>4 DEF RingNext, BossPolls, Stop, HelperOnly, ringVars, HelperDies, Launch,
    SetIoContext, SendXfer, Result, ConnectionClosed, Pause, StopKill, StopSignal, StopJoin,
    StopDrop
<1> QED
  BY <1>1, <1>2, <1>3, <1>4

\* The helper moves itself, or is killed.
LEMMA HelperStays ==
  ASSUME [RingNext]_ringVars, ~Command, ~StrayLine, ~Siphon, ~Opened, ~Store, ~Send, ~Ask,
         ~NextGrant, ~NextLent, ~NextNone, ~Quota, ~Finalize, ~Finalized, ~ReportDone,
         ~HelperDies, ~Launch, ~StopKill
  PROVE  helper' = helper
<1>1. CASE Flusher
  BY <1>1 DEF Flusher, FlushWait, FlushFinish, FlushWrite, FlushGrant, FillWait, FillRead
<1>2. CASE Reader
  BY <1>2 DEF Reader, OnQuota, OnResult, OnOpen, OnOpenFile, OnOpenStart, OnNextCredit,
    OnNextReturn, OnNextLend, OnFinalize, OnFinalizeJoin, OnEnd
<1>3. ~HelperStep
  BY DEF HelperStep
<1>4. CASE ~Flusher /\ ~Reader /\ ~HelperStep
  BY <1>4 DEF RingNext, BossPolls, Stop, HelperOnly, ringVars, SetIoContext, SendXfer, Result,
    ConnectionClosed, Pause, StopSignal, StopJoin, StopDrop
<1> QED
  BY <1>1, <1>2, <1>3, <1>4

\* A result goes to the UI thread.
LEMMA InboxStays ==
  ASSUME [RingNext]_ringVars, ~OnResult, ~Result, ~StopDrop
  PROVE  inbox' = inbox
<1>1. CASE Flusher
  BY <1>1 DEF Flusher, FlushWait, FlushFinish, FlushWrite, FlushGrant, FillWait, FillRead
<1>2. CASE Reader
  BY <1>2 DEF Reader, OnQuota, OnOpen, OnOpenFile, OnOpenStart, OnNextCredit, OnNextReturn,
    OnNextLend, OnFinalize, OnFinalizeJoin, OnEnd
<1>3. CASE HelperStep
  BY <1>3 DEF HelperStep, Command, StrayLine, Siphon, Opened, Store, Send, Ask, NextGrant,
    NextLent, NextNone, Quota, Finalize, Finalized, ReportDone, HelperOnly
<1>4. CASE ~Flusher /\ ~Reader /\ ~HelperStep
  BY <1>4 DEF RingNext, BossPolls, Stop, HelperOnly, ringVars, HelperDies, Launch,
    SetIoContext, SendXfer, ConnectionClosed, Pause, StopKill, StopSignal, StopJoin
<1> QED
  BY <1>1, <1>2, <1>3, <1>4

\* It is one when it is read.
LEMMA OutcomeStays ==
  ASSUME ThreadTypes, [RingNext]_ringVars, ~SendXfer, ~Result, ~ConnectionClosed
  PROVE  boss'.outcome = boss.outcome
<1>1. CASE Flusher
  BY <1>1 DEF Flusher, FlushWait, FlushFinish, FlushWrite, FlushGrant, FillWait, FillRead,
    BossGoes, ThreadTypes
<1>2. CASE Reader
  BY <1>2 DEF Reader, OnQuota, OnResult, OnOpen, OnOpenFile, OnOpenStart, OnNextCredit,
    OnNextReturn, OnNextLend, OnFinalize, OnFinalizeJoin, OnEnd, BossGoes, ThreadTypes
<1>3. CASE HelperStep
  BY <1>3 DEF HelperStep, Command, StrayLine, Siphon, Opened, Store, Send, Ask, NextGrant,
    NextLent, NextNone, Quota, Finalize, Finalized, ReportDone, HelperOnly, BossGoes,
    ThreadTypes
<1>4. CASE ~Flusher /\ ~Reader /\ ~HelperStep
  BY <1>4 DEF RingNext, BossPolls, Stop, HelperOnly, ringVars, HelperDies, Launch,
    SetIoContext, Pause, StopKill, StopSignal, StopJoin, StopDrop, BossGoes, ThreadTypes
<1> QED
  BY <1>1, <1>2, <1>3, <1>4

-----------------------------------------------------------------------------
(* The queue of a download.                                                *)

\* What the helper has handed over changes as it hands over.
LEMMA HandedOverStays ==
  ASSUME Control, [RingNext]_ringVars, Started, Started', Download, FillOK, ~Ask, ~Finalize
  PROVE  HandedOver' = HandedOver
<1>1. /\ helper \in Helpers /\ helper.moved \in Nat /\ helper.fill \in Nat
  BY HelperFields DEF Control, Types, ThreadTypes
<1>2. Holding => helper.fill <= helper.moved
  BY DEF FillOK
<1>3. CASE HelperSame
  BY <1>3 DEF HelperSame, HandedOver, Holding
<1>4. CASE Store
  <2>1. /\ helper.pc = "run" /\ helper'.pc = "run"
        /\ helper'.fill = helper.fill + 1 /\ helper'.moved = helper.moved + 1
    BY <1>1, <1>4 DEF Store, Helpers
  <2> QED
    BY <1>1, <2>1 DEF HandedOver, Holding
<1>5. ~Send
  BY DEF Send
<1>6. CASE HelperMoves("open", "run")
  <2>1. helper.fill = 0 /\ helper.moved = 0
    BY <1>6 DEF HelperMoves, Control, HelperOK
  <2> QED
    BY <1>6, <2>1 DEF HelperMoves, HandedOver, Holding
<1>7. CASE (NextGrant \/ NextLent) /\ helper'.pc = "run" /\ helper'.moved = helper.moved /\ helper'.fill = 0
  BY <1>1, <1>7 DEF NextGrant, NextLent, HandedOver, Holding
<1>8. CASE HelperMoves("run", "quota") \/ HelperMoves("quota", "run")
  BY <1>8 DEF HelperMoves, HandedOver, Holding
<1> QED
  BY <1>3, <1>4, <1>5, <1>6, <1>7, <1>8, HelperGoesOn

\* A line of the helper with what it has in its slot.
LEMMA HandsOver ==
  ASSUME Control, FillOK, Started, Download, Ask \/ Finalize
  PROVE  /\ HandedOver \in Nat /\ HandedOver + helper.fill = helper.moved /\ HandedOver' = helper.moved
         /\ helper.moved <= length
         /\ \/ toApp' = toApp /\ helper.fill = 0
            \/ \E x \in AppLines : /\ Tells(x) /\ Amount(x) = helper.fill
                                   /\ Fits(memory, HandedOver, x)
<1>1. /\ helper \in Helpers /\ helper.moved \in Nat /\ helper.fill \in Nat /\ helper.fill \in 0..SlotUnits
      /\ helper.slot \in 0..Slots /\ Holding /\ helper.pc = "run"
  BY HelperFields DEF Control, Types, ThreadTypes, Ask, Finalize, Holding
<1>2. /\ helper.fill <= helper.moved /\ helper.moved <= length
      /\ helper.fill > 0 => memory[helper.slot] = Piece(helper.moved - helper.fill, helper.fill)
  BY <1>1 DEF FillOK
<1>3. HandedOver = helper.moved - helper.fill
  BY <1>1 DEF HandedOver
<1>4. /\ HandedOver \in Nat /\ HandedOver + helper.fill = helper.moved
  BY <1>1, <1>2, <1>3
<1>5. helper'.pc \in {"ask", "final"} /\ helper'.moved = helper.moved
  BY <1>1, Turned DEF Ask, Finalize, Helping, HelperPlaces
<1>6. HandedOver' = helper.moved
  BY <1>5 DEF HandedOver, Holding
<1>7. helper.slot = None => helper.fill = 0
  BY DEF Control, HelperOK
<1>8. \/ toApp' = toApp /\ helper.fill = 0
      \/ \E k \in {"next", "final"} : Tells(SlotLine(k, helper.slot, helper.fill))
  <2>1. CASE Ask
    BY <2>1, <1>7 DEF Ask
  <2>2. CASE Finalize
    <3>1. Trailing = SlotLine("final", helper.slot, helper.fill)
      BY <1>7 DEF Trailing
    <3>2. Tells(SlotLine("final", helper.slot, helper.fill))
      BY <2>2, <3>1 DEF Finalize
    <3> QED
      BY <3>2
  <2> QED
    BY <2>1, <2>2
<1>9. ASSUME NEW k \in {"next", "final"}, Tells(SlotLine(k, helper.slot, helper.fill))
      PROVE  \E x \in AppLines : Tells(x) /\ Amount(x) = helper.fill /\ Fits(memory, HandedOver, x)
  <2> DEFINE x == SlotLine(k, helper.slot, helper.fill)
  <2>1. x \in AppLines
    BY <1>1, <1>7, SaidToApp
  <2>2. x.kind = k /\ x.slot = helper.slot /\ x.n = helper.fill
    BY Said
  <2>3. Amount(x) = helper.fill
    BY <2>2, AmountIs
  <2> HIDE DEF x
  <2>4. Fits(memory, HandedOver, x)
    <3>1. helper.fill > 0 => helper.slot \in RingSlot
      BY <1>1, <1>7, SlotFacts
    <3> QED
      BY <1>2, <1>3, <2>2, <2>3, <3>1 DEF Fits
  <2> QED
    BY <1>9, <2>1, <2>3, <2>4 DEF x
<1> QED
  BY <1>2, <1>4, <1>6, <1>8, <1>9

\* A download is flushed from the start of its I/O thread to its end.
LEMMA FlushesOn ==
  ASSUME Control, [RingNext]_ringVars, ~OnOpenStart, Flushes'
  PROVE  Flushes /\ ~SendXfer /\ mode' = mode /\ length' = length
         /\ ~OnOpen /\ ~Command /\ ~Launch /\ ~FillRead /\ ~FillWait /\ ~Send /\ ~FlushFinish
<1>1. flusher \in Flushers /\ ~(flusher'.pc \in {"none", "over"}) /\ flusher'.pc # "excuse"
  BY DEF Control, Types, ThreadTypes, Flushes
<1>2. ~SendXfer /\ ~Launch
  BY <1>1 DEF SendXfer, Launch, FlusherOver, Control, BossOK
<1>3. Download /\ mode' = mode /\ length' = length
  BY <1>2, ContextStays DEF Flushes, Download
<1>4. ~FillRead /\ ~FillWait /\ ~Send
  BY <1>3 DEF FillRead, FillWait, Send, Download, Control, FlusherOK
<1>5. ~FlushFinish
  BY <1>1, Dismissed DEF FlushFinish, Flushing
<1>6. Flushes
  <2>1. CASE FlushWait \/ FlushWrite
    BY <1>3, <2>1 DEF FlushWait, FlushWrite, Flushes
  <2>2. CASE FlushGrant
    <3>1. flusher.pc = "grant"
      BY <1>1, <2>2, Dismissed DEF FlushGrant, Flushing
    <3> QED
      BY <1>3, <3>1 DEF Flushes
  <2>3. CASE ~FlushWait /\ ~FlushWrite /\ ~FlushGrant
    BY <1>3, <1>4, <1>5, <2>3, FlusherStays DEF Flushes
  <2> QED
    BY <2>1, <2>2, <2>3
<1>7. ~FlusherOver
  BY <1>6 DEF Flushes, FlusherOver
<1>8. ~OnOpen
  <2>1. toApp \in Seq(AppLines)
    BY DEF Control, Types, PipeTypes
  <2>2. OnOpen => Has(toApp, "open")
    BY <2>1, TailLines DEF OnOpen, Read
  <2> QED
    BY <1>7, <2>2 DEF Control, ReaderOK, Opening
<1>9. ~Command
  <2>1. toHelper \in Seq(HelperLines)
    BY DEF Control, Types, PipeTypes
  <2>2. Command => Has(toHelper, "get") /\ Alive
    BY <2>1, TailLines DEF Command, Hears, Alive
  <2> QED
    BY <1>7, <2>2 DEF Control, Wires, CommandWire, GetState
<1> QED
  BY <1>2, <1>3, <1>4, <1>5, <1>6, <1>8, <1>9

\* The reader queues what a line hands over.
LEMMA ReadHandsOver ==
  ASSUME Control, Download, OnNextCredit \/ OnNextReturn \/ OnFinalize
  PROVE  /\ toApp # <<>> /\ toApp' = Tail(toApp)
         /\ ready' = IF Amount(Head(toApp)) > 0
                     THEN Append(ready, SlotLine("slot", Head(toApp).slot, Head(toApp).n)) ELSE ready
<1>1. toApp \in Seq(AppLines) /\ toApp # <<>> /\ toApp' = Tail(toApp) /\ Head(toApp).kind \in {"next", "final"}
  BY DEF OnNextCredit, OnNextReturn, OnFinalize, Read, Consume, Control, Types, PipeTypes
<1>2. Amount(Head(toApp)) = Head(toApp).n
  BY <1>1 DEF Amount
<1>3. Head(toApp) \in AppLines /\ Head(toApp) = toApp[1] /\ 1 \in 1..Len(toApp)
  BY <1>1
<1>4. mode # "credit" => Head(toApp).slot = lent
  BY <1>1, <1>3 DEF Control, ReaderOK
<1>5. Head(toApp).n > 0 => Head(toApp).slot # None
  BY <1>1, <1>3, SlotFacts DEF AppLines
<1>6. CASE OnNextCredit
  BY <1>1, <1>2, <1>6 DEF OnNextCredit, ReadyWith
<1>7. CASE OnNextReturn
  BY <1>1, <1>2, <1>4, <1>5, <1>7 DEF OnNextReturn, ReadyWith
<1>8. CASE OnFinalize
  BY <1>1, <1>2, <1>4, <1>5, <1>8 DEF OnFinalize, ReadyWith
<1> QED
  BY <1>6, <1>7, <1>8

\* The queue holds the units that follow those that arrived.
LEMMA QueueNext == ASSUME Control, Data, OwnersOK, [RingNext]_ringVars PROVE QueueOK'
<1>1. SUFFICES ASSUME Flushes' PROVE QueueOK'
  BY DEF QueueOK
<1>2. /\ flusher \in Flushers /\ flusher.n \in Nat /\ Len(landed) \in Nat /\ length \in Nat /\ length <= MaxLen
      /\ helper \in Helpers /\ helper.fill \in Nat
      /\ ready \in Seq(SlotLines) /\ toApp \in Seq(AppLines) /\ MaxLen \in Nat
  BY FlusherFields, HelperFields, RingAssumption DEF Control, Types, ThreadTypes, ContextTypes, RingTypes,
     PipeTypes, Data, LandedOK
<1>3. CASE OnOpenStart
  <2>1. Opening /\ toApp = <<>>
    BY <1>3 DEF OnOpenStart, Opening, Control, ReaderOK
  <2>2. landed = <<>> /\ helper.pc \in {"open", "gone"}
    BY <2>1 DEF Control, ReaderOK
  <2>3. /\ landed' = <<>> /\ ready' = <<>> /\ toApp' = <<>> /\ helper' = helper /\ length' = length
        /\ flusher'.pc = "wait"
    BY <1>3, <2>1, <2>2, LandedStays DEF OnOpenStart
  <2>4. Started' => helper.moved = 0 /\ HandedOver' = 0
    <3>1. Started' => helper.pc = "open"
      BY <2>2, <2>3 DEF Started, Moves, Mapped
    <3> QED
      BY <2>2, <2>3, <3>1 DEF Control, HelperOK, HandedOver, Holding
  <2>5. Len(landed') = 0 /\ InFlush' = 0
    BY <2>3 DEF InFlush
  <2>6. Between(memory', 0, <<>>, <<>>, 0) /\ 0 \in 0..length'
    BY <1>2, <2>3, SlotFacts, BetweenNone
  <2>7. Between(memory', Len(landed') + InFlush', ready', toApp', 0)
    BY <2>3, <2>5, <2>6
  <2> QED
    BY <2>3, <2>4, <2>6, <2>7 DEF QueueOK
<1>4. CASE ~OnOpenStart
  <2>1. /\ Flushes /\ ~SendXfer /\ mode' = mode /\ length' = length
        /\ ~OnOpen /\ ~Command /\ ~Launch /\ ~FillRead /\ ~FillWait /\ ~Send /\ ~FlushFinish
    BY <1>1, <1>4, FlushesOn
  <2>2. Started' => Started
    BY <1>4, StartsOnce
  <2>3. PICK c \in 0..length :
          /\ Between(memory, Len(landed) + InFlush, ready, toApp, c)
          /\ Started => c = HandedOver
    BY <2>1 DEF Data, QueueOK
  <2>4. Download
    BY <2>1 DEF Flushes
  <2>5. FillOK
    BY DEF Data
  <2>6. ~Ask /\ ~Finalize => (Started' => c = HandedOver')
    BY <2>2, <2>3, <2>4, <2>5, HandedOverStays
  <2>7. CASE FlushWait
    <3>1. memory' = memory /\ landed' = landed /\ toApp' = toApp /\ flusher.pc = "wait"
      BY <2>7 DEF FlushWait
    <3>2. ~Ask /\ ~Finalize
      BY <2>7, <1>2 DEF FlushWait, Ask, Finalize, Turn, Fails, Helpers
    <3>3. InFlush = 0 /\ Len(landed) + 0 = Len(landed)
      BY <1>2, <3>1 DEF InFlush
    <3>4. CASE /\ ready # <<>> /\ ready' = Tail(ready)
               /\ flusher' = [flusher EXCEPT !.pc = "flush", !.slot = Head(ready).slot, !.n = Head(ready).n]
      <4>1. flusher'.pc = "flush" /\ flusher'.slot = Head(ready).slot /\ flusher'.n = Head(ready).n
        BY <1>2, <3>4 DEF Flushers
      <4>2. /\ Between(memory, Len(landed) + Head(ready).n, Tail(ready), toApp, c)
            /\ memory[Head(ready).slot] = Piece(Len(landed), Head(ready).n)
        BY <1>2, <2>3, <3>3, <3>4, BetweenTake
      <4> QED
        BY <2>1, <2>3, <2>6, <3>1, <3>2, <3>4, <4>1, <4>2 DEF QueueOK, InFlush
    <3>5. CASE flusher' = [flusher EXCEPT !.pc = "finish"] /\ UNCHANGED ready
      <4>1. flusher'.pc = "finish"
        BY <1>2, <3>5 DEF Flushers
      <4> QED
        BY <2>1, <2>3, <2>6, <3>1, <3>2, <3>3, <3>5, <4>1 DEF QueueOK, InFlush
    <3>6. CASE Dismiss
      BY <1>1, <1>2, <3>6, Dismissed DEF Flushing, Flushes
    <3> QED
      BY <2>7, <3>4, <3>5, <3>6 DEF FlushWait
  <2>8. CASE FlushWrite
    <3>1. PICK k \in 0..flusher.n :
            /\ Len(landed') = Len(landed) + k
            /\ \/ k = flusher.n /\ flusher'.pc = (IF mode = "credit" THEN "grant" ELSE "wait")
               \/ flusher'.pc \in {"excuse", "over"}
      BY <2>8, FlushFacts DEF Data
    <3>2. k = flusher.n /\ flusher'.pc \in {"grant", "wait"}
      BY <1>1, <3>1 DEF Flushes
    <3>3. /\ memory' = memory /\ ready' = ready /\ toApp' = toApp /\ helper' = helper /\ flusher.pc = "flush"
      BY <2>8 DEF FlushWrite
    <3>4. ~Ask /\ ~Finalize
      BY <3>3, <1>2 DEF Ask, Finalize, Turn, Fails, Helpers
    <3>5. InFlush' = 0 /\ InFlush = flusher.n /\ Len(landed') + InFlush' = Len(landed) + InFlush
      <4>1. InFlush' = 0 /\ InFlush = flusher.n
        BY <3>2, <3>3 DEF InFlush
      <4> QED
        BY <4>1, <1>2, <3>1, <3>2
    <3> QED
      BY <2>1, <2>3, <2>6, <3>2, <3>3, <3>4, <3>5 DEF QueueOK
  <2>9. CASE FlushGrant
    <3>1. /\ memory' = memory /\ landed' = landed /\ ready' = ready /\ toApp' = toApp /\ helper' = helper
          /\ flusher.pc # "flush"
      BY <2>9 DEF FlushGrant
    <3>2. ~Ask /\ ~Finalize
      BY <3>1, <1>2 DEF Ask, Finalize, Turn, Fails, Helpers
    <3>3. flusher'.pc # "flush"
      <4>1. CASE Dismiss
        BY <1>2, <4>1, Dismissed DEF Flushing
      <4>2. CASE flusher' = [flusher EXCEPT !.pc = "wait", !.slot = None, !.n = 0]
        BY <1>2, <4>2 DEF Flushers
      <4> QED
        BY <2>9, <4>1, <4>2 DEF FlushGrant
    <3> QED
      BY <2>1, <2>3, <2>6, <3>1, <3>2, <3>3 DEF QueueOK, InFlush
  <2>10. ASSUME ~FlushWait, ~FlushWrite, ~FlushGrant
         PROVE  /\ flusher' = flusher /\ landed' = landed /\ InFlush' = InFlush
                /\ flusher.pc = "flush" => memory[flusher.slot] = Piece(Len(landed), flusher.n)
    BY <1>4, <2>1, <2>10, FlusherStays, LandedStays DEF InFlush, Data, QueueOK
  <2>11. CASE Store
    <3>1. ~FlushWait /\ ~FlushWrite /\ ~FlushGrant
      <4>1. helper' # helper
        BY <1>2, <2>11, StoreFacts DEF Data
      <4> QED
        BY <4>1 DEF FlushWait, FlushWrite, FlushGrant
    <3>2. /\ helper.slot \in RingSlot /\ helper.slot # None /\ Holding
          /\ memory' = [memory EXCEPT ![helper.slot] = Piece(helper.moved - helper.fill, helper.fill + 1)]
      BY <2>11, StoreFacts DEF Data, Holding
    <3>3. /\ \A k \in 1..Len(ready) : ready[k].slot # helper.slot
          /\ \A k \in 1..Len(toApp) : Amount(toApp[k]) > 0 => toApp[k].slot # helper.slot
          /\ flusher.slot # helper.slot
      BY <3>2, HelperAlone
    <3>4. \A s : s # helper.slot => memory'[s] = memory[s]
      BY <3>2
    <3>5. Between(memory', Len(landed) + InFlush, ready, toApp, c)
      BY <2>3, <3>3, <3>4, BetweenStill
    <3>6. ready' = ready /\ toApp' = toApp /\ ~Ask /\ ~Finalize
      <4>1. helper'.pc = "run"
        BY <2>11, StoreFacts DEF Data
      <4> QED
        BY <1>2, <4>1, <2>11 DEF Store, HelperOnly, Ask, Finalize, Turn, Fails, Helpers, Download
    <3> QED
      BY <2>1, <2>3, <2>6, <2>10, <3>1, <3>3, <3>4, <3>5, <3>6 DEF QueueOK
  <2>12. CASE ~FlushWait /\ ~FlushWrite /\ ~FlushGrant /\ ~Store
    <3>1. /\ flusher' = flusher /\ landed' = landed /\ InFlush' = InFlush /\ memory' = memory
          /\ flusher.pc = "flush" => memory[flusher.slot] = Piece(Len(landed), flusher.n)
      BY <2>1, <2>10, <2>12, MemoryStays
    <3>2. SUFFICES \E d \in 0..length :
            /\ Between(memory, Len(landed) + InFlush, ready', toApp', d)
            /\ Started' => d = HandedOver'
      BY <2>1, <3>1 DEF QueueOK
    <3>3. CASE OnNextCredit \/ OnNextReturn \/ OnFinalize
      <4>1. Between(memory, Len(landed) + InFlush, ready', toApp', c)
        BY <1>2, <2>3, <2>4, <3>3, ReadHandsOver, BetweenRead
      <4>2. helper' = helper
        BY <3>3 DEF OnNextCredit, OnNextReturn, OnFinalize
      <4>3. ~Ask /\ ~Finalize
        BY <4>2, <1>2 DEF Ask, Finalize, Turn, Fails, Helpers
      <4> QED
        BY <2>3, <2>6, <4>1, <4>3
    <3>4. CASE Ask \/ Finalize
      <4>1. ready' = ready
        BY <3>4 DEF Ask, Finalize, HelperOnly
      <4>2. Started
        BY <3>4 DEF Ask, Finalize, Started, Moves
      <4>3. /\ c \in Nat /\ c + helper.fill = helper.moved /\ HandedOver' = helper.moved
            /\ helper.moved <= length
            /\ \/ toApp' = toApp /\ helper.fill = 0
               \/ \E x \in AppLines : /\ Tells(x) /\ Amount(x) = helper.fill
                                      /\ Fits(memory, c, x)
        BY <2>3, <2>4, <2>5, <3>4, <4>2, HandsOver
      <4>4. CASE toApp' = toApp /\ helper.fill = 0
        <5>1. c = helper.moved
          BY <4>3, <4>4
        <5> QED
          BY <2>3, <4>1, <4>3, <4>4, <5>1
      <4>5. ASSUME NEW x \in AppLines, Tells(x), Amount(x) = helper.fill, Fits(memory, c, x)
            PROVE  \E d \in 0..length : /\ Between(memory, Len(landed) + InFlush, ready', toApp', d)
                                        /\ Started' => d = HandedOver'
        <5>1. c + Amount(x) = helper.moved /\ helper.moved \in 0..length /\ helper.moved <= MaxLen
          BY <1>2, <4>3, <4>5
        <5>2. Between(memory, Len(landed) + InFlush, ready, Append(toApp, x), helper.moved)
          BY <1>2, <2>3, <4>5, <5>1, BetweenTold
        <5> QED
          BY <4>1, <4>3, <4>5, <5>1, <5>2 DEF Tells
      <4> QED
        BY <4>3, <4>4, <4>5
    <3>5. CASE OnQuota \/ OnResult
      <4>1. toApp # <<>> /\ toApp' = Tail(toApp) /\ ready' = ready /\ helper' = helper
            /\ Head(toApp).kind \in {"quota", "done"}
        BY <3>5 DEF OnQuota, OnResult, Read, Consume
      <4>2. Amount(Head(toApp)) = 0
        BY <4>1 DEF Amount
      <4>3. Between(memory, Len(landed) + InFlush, ready', toApp', c)
        BY <1>2, <2>3, <4>1, <4>2, BetweenRead
      <4>4. ~Ask /\ ~Finalize
        BY <4>1, <1>2 DEF Ask, Finalize, Turn, Fails, Helpers
      <4> QED
        BY <2>3, <2>6, <4>3, <4>4
    <3>6. CASE Quota \/ ReportDone
      <4>1. ready' = ready /\ ~Ask /\ ~Finalize
        <5>1. helper'.pc \in {"quota", "run", "gone", "command"}
          BY <1>2, <3>6, NoHelperIs DEF Quota, ReportDone, Turn, Helpers
        <5> QED
          BY <1>2, <3>6, <5>1 DEF Quota, ReportDone, HelperOnly, Ask, Finalize, Turn, Fails, Helpers, Download
      <4>2. toApp' = toApp \/ \E x \in AppLines : Tells(x) /\ Amount(x) = 0
        <5>1. CASE Quota
          <6>1. Line("quota") \in AppLines /\ Amount(Line("quota")) = 0
            BY SaidToApp DEF Amount, Line
          <6> QED
            BY <5>1, <6>1 DEF Quota
        <5>2. CASE ReportDone
          <6>1. \A n \in {0, 1} : SlotLine("done", None, n) \in AppLines /\ Amount(SlotLine("done", None, n)) = 0
            BY SaidToApp DEF Amount, SlotLine
          <6> QED
            BY <5>2, <6>1 DEF ReportDone
        <5> QED
          BY <3>6, <5>1, <5>2
      <4>3. ASSUME NEW x \in AppLines, Tells(x), Amount(x) = 0
            PROVE  Between(memory, Len(landed) + InFlush, ready', toApp', c)
        <5>1. c + Amount(x) = c /\ c <= MaxLen
          BY <1>2, <4>3
        <5>2. Fits(memory, c, x)
          BY <4>3 DEF Fits
        <5>3. Between(memory, Len(landed) + InFlush, ready, Append(toApp, x), c)
          <6>1. c + Amount(x) <= MaxLen
            BY <5>1
          <6> QED
            BY <1>2, <2>3, <5>1, <5>2, <6>1, BetweenTold
        <5> QED
          BY <4>1, <4>3, <5>3 DEF Tells
      <4> QED
        BY <2>3, <2>6, <4>1, <4>2, <4>3
    <3>7. CASE /\ ~OnNextCredit /\ ~OnNextReturn /\ ~OnFinalize /\ ~Ask /\ ~Finalize
               /\ ~OnQuota /\ ~OnResult /\ ~Quota /\ ~ReportDone
      <4>1. toApp' = toApp
        BY <2>1, <3>7, ToAppStays
      <4>2. ready' = ready
        <5>1. CASE OnNextLend
          BY <2>4, <5>1 DEF OnNextLend
        <5>2. CASE ~OnNextLend
          BY <1>4, <2>1, <2>12, <3>7, <5>2, ReadyStays
        <5> QED
          BY <5>1, <5>2
      <4> QED
        BY <2>3, <2>6, <3>7, <4>1, <4>2
    <3> QED
      BY <3>3, <3>4, <3>5, <3>6, <3>7
  <2> QED
    BY <2>7, <2>8, <2>9, <2>11, <2>12
<1> QED
  BY <1>3, <1>4

-----------------------------------------------------------------------------
(* The end of a download.                                                  *)

\* No transfer begins while the ring is in use.
LEMMA StartedAt == ASSUME Control, Started PROVE ~SendXfer /\ ~Launch /\ ~Command /\ Alive
<1>1. helper.pc # "command" /\ helper.pc # "gone"
  BY DEF Started, Moves, Mapped
<1>2. boss.pc \in {"wait", "kill"}
  BY <1>1 DEF Control, BossOK, Idle
<1> QED
  BY <1>1, <1>2 DEF SendXfer, Launch, Command, Alive

\* A helper that has finalized waits.
LEMMA FinalWaits ==
  ASSUME Control, [RingNext]_ringVars, Started, Started', helper.pc = "final"
  PROVE  HelperSame
BY HelperGoesOn DEF HelperMoves, Store, Send, NextGrant, NextLent

\* It hears the verdict of the join.
LEMMA KeptComes ==
  ASSUME Control, [RingNext]_ringVars, helper.pc = "final", helper'.pc = "final", ~OnFinalizeJoin,
         Has(toHelper', "kept")
  PROVE  Has(toHelper, "kept")
<1>1. toHelper \in Seq(HelperLines) /\ Alive /\ Started /\ helper \in Helpers
  BY DEF Control, Types, PipeTypes, ThreadTypes, Alive, Started, Moves
<1>2. ~SendXfer /\ ~Launch /\ ~Command
  BY <1>1, StartedAt
<1>3. ~OnNextLend /\ ~OnOpenFile /\ ~OnOpenStart
  BY DEF OnNextLend, OnOpenFile, OnOpenStart, Control, ReaderOK, Opening
<1>4. ~Opened /\ ~NextLent /\ ~NextNone /\ ~Quota /\ ~Finalized
  BY <1>1, Turned DEF Opened, NextLent, NextNone, Quota, Finalized, Helping, HelperPlaces
<1>5. ASSUME NEW x \in HelperLines, Says(<<x>>), x.kind # "kept" PROVE Has(toHelper, "kept")
  BY <1>1, <1>5, SaysGrows DEF Alive, Grown
<1>6. CASE FlushGrant
  <2>1. flusher.pc = "grant" => flusher.slot \in RingSlot
    BY DEF Control, FlusherOK
  <2>2. \E x \in HelperLines : Says(<<x>>) /\ x.kind # "kept"
    BY <1>6, <2>1, Said, SaidToHelper DEF FlushGrant
  <2> QED
    BY <2>2, <1>5
<1>7. CASE OnQuota
  BY <1>5, <1>7, Said, SaidToHelper DEF OnQuota
<1>8. CASE Siphon
  BY <1>1, <1>8, TakeShrinks DEF Siphon, Shrunk
<1>9. CASE ~FlushGrant /\ ~OnQuota /\ ~Siphon
  BY <1>2, <1>3, <1>4, <1>9, ToHelperStays
<1> QED
  BY <1>6, <1>7, <1>8, <1>9

\* Nothing is left when the I/O thread is over, ...
LEMMA DrainedNext ==
  ASSUME Control, Data, [RingNext]_ringVars, Download', Started', flusher'.pc \in {"finish", "over"}, ~broken'
  PROVE  final' /\ ready' = <<>> /\ Len(landed') = helper'.moved
<1>1. /\ flusher \in Flushers /\ helper \in Helpers /\ Len(landed) \in Nat /\ ready \in Seq(SlotLines)
  BY DEF Control, Types, ThreadTypes, RingTypes, Data, LandedOK
<1>2. ~OnOpenStart
  BY DEF OnOpenStart
<1>3. Started
  BY <1>2, StartsOnce
<1>4. ~SendXfer /\ ~Launch
  BY <1>3, StartedAt
<1>5. Download /\ ~broken /\ ~halt /\ mode' = mode
  BY <1>2, <1>3, <1>4, ContextStays, BrokenStays DEF Download, Control, FlagsOK
<1>6. ~FillRead /\ ~FillWait /\ ~Send
  BY <1>5 DEF FillRead, FillWait, Send, Download, Control, FlusherOK
<1>7. final => helper.pc = "final" /\ toApp = <<>>
  BY <1>3 DEF Control, FlagsOK
<1>8. CASE FlushWait
  <2>1. flusher.pc = "wait" /\ UNCHANGED <<final, landed, helper, ready>> /\ ready = <<>> /\ final
    <3>1. \/ flusher' = [flusher EXCEPT !.pc = "flush", !.slot = Head(ready).slot, !.n = Head(ready).n]
          \/ UNCHANGED ready /\ ready = <<>> /\ final
      BY <1>5, <1>8 DEF FlushWait
    <3>2. ~(flusher' = [flusher EXCEPT !.pc = "flush", !.slot = Head(ready).slot, !.n = Head(ready).n])
      BY <1>1 DEF Flushers
    <3> QED
      BY <1>8, <3>1, <3>2 DEF FlushWait
  <2>2. helper.pc = "final" /\ toApp = <<>> /\ Flushes
    BY <1>5, <1>7, <2>1 DEF Flushes
  <2>3. PICK c \in 0..length : Between(memory, Len(landed) + InFlush, <<>>, <<>>, c) /\ c = HandedOver
    BY <1>3, <2>1, <2>2 DEF Data, QueueOK
  <2>4. Len(landed) + InFlush = c
    BY <2>3, BetweenNone
  <2>5. Len(landed) + InFlush = Len(landed)
    BY <1>1, <2>1 DEF InFlush
  <2>6. HandedOver = helper.moved
    BY <2>2 DEF HandedOver, Holding
  <2> QED
    BY <2>1, <2>3, <2>4, <2>5, <2>6
<1>9. CASE FlushFinish
  BY <1>3, <1>5, <1>9 DEF FlushFinish, Data, DrainOK
<1>10. ~FlushWrite
  <2> SUFFICES ASSUME FlushWrite PROVE FALSE
    OBVIOUS
  <2>1. flusher'.pc \in {"grant", "wait"} \/ broken'
    BY FlushFacts DEF Data
  <2> QED
    BY <2>1
<1>11. ~FlushGrant
  <2> SUFFICES ASSUME FlushGrant PROVE FALSE
    OBVIOUS
  <2>1. flusher.pc = "grant"
    BY <1>5 DEF FlushGrant, Control, FlusherOK
  <2>2. flusher'.pc = "wait"
    BY <1>1, <2>1 DEF FlushGrant, Flushers
  <2> QED
    BY <2>2
<1>12. CASE ~FlushWait /\ ~FlushFinish
  <2>1. flusher' = flusher
    BY <1>2, <1>6, <1>10, <1>11, <1>12, FlusherStays
  <2>2. final /\ ready = <<>> /\ Len(landed) = helper.moved
    BY <1>3, <1>5, <2>1 DEF Data, DrainOK
  <2>3. helper.pc = "final" /\ toApp = <<>>
    BY <1>7, <2>2
  <2>4. HelperSame
    BY <1>3, <2>3, FinalWaits
  <2>5. landed' = landed
    BY <1>4, <1>6, <1>10, LandedStays
  <2>6. ~OnNextCredit /\ ~OnNextReturn /\ ~OnFinalize
    BY <2>3 DEF OnNextCredit, OnNextReturn, OnFinalize, Read
  <2>7. ~OnNextLend
    BY <2>3 DEF OnNextLend, Control, ReaderOK
  <2>8. ready' = ready /\ final' = final
    BY <1>2, <1>6, <1>12, <2>6, <2>7, ReadyStays, FinalStays
  <2> QED
    BY <2>2, <2>4, <2>5, <2>8 DEF HelperSame
<1> QED
  BY <1>8, <1>9, <1>12

\* ... and the verdict is that of a drained ring.
LEMMA DrainNext == ASSUME Control, Control', Data, [RingNext]_ringVars PROVE DrainOK'
<1>1. SUFFICES ASSUME helper'.pc = "final", Has(toHelper', "kept") PROVE Len(landed') = helper'.moved
  BY DrainedNext DEF DrainOK
<1>2. Started' /\ ~OnOpenStart
  BY <1>1 DEF Started, Moves, OnOpenStart, Control, ReaderOK, Opening
<1>3. Started
  BY <1>2, StartsOnce
<1>4. helper.pc = "final"
  <2>1. HelperSame \/ (Finalize /\ HelperMoves("run", "final"))
    <3>1. helper \in Helpers
      BY DEF Control, Types, ThreadTypes
    <3>2. ~Store /\ ~Send
      BY <1>1, <3>1 DEF Store, Send, Helpers
    <3> QED
      BY <1>1, <1>2, <1>3, <3>2, HelperGoesOn DEF HelperMoves
  <2>2. ASSUME Finalize, helper.pc = "run" PROVE FALSE
    <3>1. Kinds(toHelper, IoOf(mode)) /\ toHelper' = toHelper
      BY <2>2 DEF Control, Wires, RunWire, Finalize
    <3>2. toHelper \in Seq(HelperLines) /\ "kept" \notin IoOf(mode)
      BY DEF Control, Types, PipeTypes, IoOf
    <3> QED
      BY <1>1, <3>1, <3>2, OnlyLines
  <2> QED
    BY <1>1, <2>1, <2>2 DEF HelperSame, HelperMoves
<1>5. HelperSame
  BY <1>2, <1>3, <1>4, FinalWaits
<1>6. CASE OnFinalizeJoin
  <2>1. FlusherOver /\ landed' = landed /\ UNCHANGED <<flusher, broken, helper, mode, final>>
    BY <1>6 DEF OnFinalizeJoin
  <2>2. flusher.pc = "over"
    BY <1>3, <2>1 DEF Control, FlagsOK, FlusherOver
  <2>3. Download
    BY <1>6 DEF OnFinalizeJoin, Control, ReaderOK
  <2>4. ~broken
    <3>1. SUFFICES ASSUME broken PROVE FALSE
      OBVIOUS
    <3>2. Says(<<Line("lost")>>)
      BY <1>6, <3>1 DEF OnFinalizeJoin
    <3>3. Kinds(toHelper, IoOf(mode)) /\ toHelper \in Seq(HelperLines) /\ "kept" \notin IoOf(mode)
      BY <1>4, <1>6 DEF Control, Wires, FinalWire, OnFinalizeJoin, Types, PipeTypes, IoOf
    <3>4. ~Has(toHelper, "kept")
      BY <3>3, OnlyLines
    <3>5. ~Has(toHelper', "kept")
      BY <1>4, <3>2, <3>3, <3>4, SaysGrows, Said, SaidToHelper DEF Grown
    <3> QED
      BY <1>1, <3>5
  <2> QED
    BY <1>3, <2>1, <2>2, <2>3, <2>4 DEF Data, DrainOK
<1>7. CASE ~OnFinalizeJoin
  <2>1. Has(toHelper, "kept")
    BY <1>1, <1>4, <1>7, KeptComes
  <2>2. Len(landed) = helper.moved
    BY <1>4, <2>1 DEF Data, DrainOK
  <2>3. FlusherOver /\ Download
    <3>1. ~Kinds(toHelper, IoOf(mode))
      <4>1. toHelper \in Seq(HelperLines) /\ "kept" \notin IoOf(mode)
        BY DEF Control, Types, PipeTypes, IoOf
      <4> QED
        BY <2>1, <4>1, OnlyLines
    <3> QED
      BY <1>4, <3>1 DEF Control, Wires, FinalWire, Download
  <2>4. ~FlushWrite /\ ~Send /\ ~SendXfer
    BY <1>3, <2>3, StartedAt DEF FlushWrite, FlusherOver, Send
  <2> QED
    BY <1>5, <2>2, <2>4, LandedStays DEF HelperSame
<1> QED
  BY <1>6, <1>7

-----------------------------------------------------------------------------
(* An upload.                                                              *)

\* The helper hears of the end of the file when it asks.
LEMMA EofHeard ==
  ASSUME Control, mode = "upload", Started, Heads(toHelper, "eof")
  PROVE  helper.pc = "ask" /\ toHelper = <<Line("eof")>>
<1>1. toHelper \in Seq(HelperLines) /\ IoOf(mode) = {}
  BY DEF Control, Types, PipeTypes, IoOf
<1>2. toHelper # <<>> /\ Head(toHelper).kind = "eof"
  BY DEF Heads
<1>3. ~Mapped
  BY <1>2 DEF Mapped, Heads
<1>4. ~Kinds(toHelper, {})
  BY <1>1, <1>2, OnlyLines
<1>5. helper.pc # "run"
  BY <1>1, <1>4 DEF Control, Wires, RunWire
<1>6. helper.pc # "quota"
  <2>1. ~Among(toHelper, {}, "quota")
    BY <1>1, <1>2, TailLines
  <2> QED
    BY <1>1, <1>4, <2>1 DEF Control, Wires, QuotaWire
<1>7. helper.pc # "final"
  BY DEF Control, Wires, FinalWire
<1>8. helper.pc = "ask"
  BY <1>3, <1>5, <1>6, <1>7 DEF Started, Moves
<1>9. \A s, n : toHelper # <<SlotLine("slot", s, n)>>
  BY <1>2, LoneLines, Said
<1>10. toHelper # <<Line("error")>>
  BY <1>2, LoneLines, Said
<1> QED
  BY <1>2, <1>8, <1>9, <1>10 DEF Control, Wires, AskWire

\* The same of the next state.
LEMMA EofHears ==
  ASSUME Control', mode' = "upload", Started', Heads(toHelper', "eof")
  PROVE  helper'.pc = "ask"
<1>1. toHelper' \in Seq(HelperLines) /\ IoOf(mode') = {}
  BY DEF Control, Types, PipeTypes, IoOf
<1>2. toHelper' # <<>> /\ Head(toHelper').kind = "eof"
  BY DEF Heads
<1>3. ~Mapped'
  BY <1>2 DEF Mapped, Heads
<1>4. ~Kinds(toHelper', {})
  BY <1>1, <1>2, OnlyLines
<1>5. helper'.pc # "run"
  BY <1>1, <1>4 DEF Control, Wires, RunWire
<1>6. helper'.pc # "quota"
  <2>1. ~Among(toHelper', {}, "quota")
    BY <1>1, <1>2, TailLines
  <2> QED
    BY <1>1, <1>4, <2>1 DEF Control, Wires, QuotaWire
<1>7. helper'.pc # "final"
  BY DEF Control, Wires, FinalWire
<1> QED
  BY <1>3, <1>5, <1>6, <1>7 DEF Started, Moves

\* What it hears is about the slot that is lent.
LEMMA AskHears ==
  ASSUME Control, mode = "upload", helper.pc = "ask"
  PROVE  \A k \in 1..Len(toHelper) : Amount(toHelper[k]) > 0 => toHelper[k].slot = lent
<1>1. \/ toHelper = <<>> \/ toHelper = <<Line("error")>> \/ toHelper = <<Line("eof")>>
      \/ \E n \in 1..SlotUnits : toHelper = <<SlotLine("slot", lent, n)>>
  BY DEF Control, Wires, AskWire
<1>2. CASE toHelper = <<>>
  BY <1>2, Nothing
<1>3. CASE toHelper = <<Line("error")>> \/ toHelper = <<Line("eof")>>
  <2>1. Len(toHelper) = 1 /\ Amount(toHelper[1]) = 0
    BY <1>3, Said DEF Amount
  <2> QED
    BY <2>1
<1>4. ASSUME NEW n, toHelper = <<SlotLine("slot", lent, n)>>
      PROVE  Len(toHelper) = 1 /\ toHelper[1].slot = lent
  BY <1>4, Said
<1> QED
  BY <1>1, <1>2, <1>3, <1>4

\* The actions of an upload.
LEMMA UploadActs ==
  ASSUME Control, mode = "upload", Started
  PROVE  /\ ~FlushWait /\ ~FlushFinish /\ ~FlushWrite /\ ~FlushGrant /\ ~Store
         /\ ~OnNextCredit /\ ~OnFinalize /\ ~OnFinalizeJoin /\ ~SendXfer /\ ~Launch /\ ~Command
         /\ toApp \in Seq(AppLines) /\ toHelper \in Seq(HelperLines)
<1>1. toApp \in Seq(AppLines) /\ toHelper \in Seq(HelperLines)
  BY DEF Control, Types, PipeTypes
<1>2. ~FlushWait /\ ~FlushFinish /\ ~FlushWrite /\ ~FlushGrant /\ ~Store
  BY DEF FlushWait, FlushFinish, FlushWrite, FlushGrant, Store, Download, Control, FlusherOK
<1>3. OnFinalize => Has(toApp, "final")
  BY <1>1, TailLines DEF OnFinalize, Read
<1>4. ~OnNextCredit /\ ~OnFinalize /\ ~OnFinalizeJoin
  BY <1>3 DEF OnNextCredit, OnFinalizeJoin, Control, ReaderOK, Download
<1> QED
  BY <1>1, <1>2, <1>4, StartedAt

\* A helper that asks and stays hears what the reader says.
LEMMA AskWaits ==
  ASSUME Control, [RingNext]_ringVars, mode = "upload", helper.pc = "ask", helper'.pc = "ask", ~OnNextLend
  PROVE  toHelper' = toHelper
<1>1. /\ helper \in Helpers /\ Started
  BY DEF Control, Types, ThreadTypes, Started, Moves
<1>2. ~FlushGrant /\ ~OnFinalizeJoin /\ ~SendXfer /\ ~Launch /\ ~Command
  BY <1>1, UploadActs
<1>3. ~OnQuota
  <2>1. OnQuota => Has(toApp, "quota")
    BY <1>1, UploadActs, TailLines DEF OnQuota, Read
  <2> QED
    BY <2>1 DEF Control, ReaderOK
<1>4. ~OnOpenFile /\ ~OnOpenStart
  BY DEF OnOpenFile, OnOpenStart, Control, ReaderOK, Opening
<1>5. ~Siphon
  BY LoneLines, Said DEF Siphon, Hears, Control, Wires, AskWire
<1>6. ~Opened /\ ~NextLent /\ ~NextNone /\ ~Quota /\ ~Finalized
  BY <1>1, Turned DEF Opened, NextLent, NextNone, Quota, Finalized, Helping, HelperPlaces, Helpers
<1> QED
  BY <1>2, <1>3, <1>4, <1>5, <1>6, ToHelperStays

\* What is known of it.
LEMMA UploadFacts ==
  ASSUME Control, Data, mode = "upload", Started
  PROVE  /\ helper \in Helpers /\ helper.moved \in Nat /\ helper.fill \in Nat
         /\ length \in Nat /\ length <= MaxLen /\ MaxLen \in Nat
         /\ ready \in Seq(SlotLines) /\ flusher \in Flushers /\ flusher.at \in Nat
         /\ Len(landed) = helper.moved
         /\ flusher.pc \in {"wait", "fill", "over"} /\ flusher.at <= length
         /\ \E mid \in 0..length :
              /\ Chain(memory, mid, ready, flusher.at)
              /\ helper.pc = "ask" => Chain(memory, helper.moved, toHelper, mid)
              /\ helper.pc # "ask" => mid = helper.moved + helper.fill
         /\ Holding /\ helper.fill > 0 =>
              Rest(memory[helper.slot], helper.fill, helper.moved)
         /\ eof /\ ~broken => flusher.at = length
         /\ Heads(toHelper, "eof") => helper.moved = length
<1>1. /\ helper \in Helpers /\ helper.moved \in Nat /\ helper.fill \in Nat
      /\ length \in Nat /\ length <= MaxLen /\ MaxLen \in Nat
      /\ ready \in Seq(SlotLines) /\ flusher \in Flushers /\ flusher.at \in Nat
  BY HelperFields, FlusherFields, RingAssumption DEF Control, Types, ThreadTypes, ContextTypes, RingTypes
<1>2. UploadOK
  BY DEF Data
<1> QED
  BY <1>1, <1>2 DEF UploadOK

\* Its ring is fresh, ...
LEMMA UploadStarts ==
  ASSUME Control, Control', Data, mode' = "upload", Started', OnOpenStart
  PROVE  UploadOK'
<1>1. Opening
  BY DEF OnOpenStart, Opening
<1>2. landed = <<>> /\ helper.pc \in {"open", "gone"}
  BY <1>1 DEF Control, ReaderOK
<1>3. /\ helper' = helper /\ length' = length /\ ready' = <<>> /\ eof' = FALSE /\ landed' = landed
      /\ flusher'.pc = "wait" /\ flusher'.at = 0
  BY <1>2, LandedStays DEF OnOpenStart, RingNext, Reader
<1>4. helper.pc = "open"
  BY <1>2, <1>3 DEF Started, Moves, Mapped
<1>5. helper.moved = 0 /\ helper.fill = 0
  BY <1>4 DEF Control, HelperOK
<1>6. length \in Nat /\ 0 \in 0..MaxLen /\ 0 \in 0..length
  BY SlotFacts DEF Control, Types, ContextTypes
<1>7. Chain(memory', 0, ready', flusher'.at)
  BY <1>3, <1>6, ChainNone
<1>8. ~Heads(toHelper', "eof")
  <2>1. Heads(toHelper', "map")
    BY <1>3, <1>4 DEF Started, Moves, Mapped
  <2> QED
    BY <2>1 DEF Heads
<1> QED
  BY <1>2, <1>3, <1>4, <1>5, <1>6, <1>7, <1>8 DEF UploadOK, Holding

\* ... a slot is filled from the file, ...
LEMMA UploadFills ==
  ASSUME Control, Control', OwnersOK, Data, mode = "upload", Started, FillRead
  PROVE  UploadOK'
<1>1. PICK n \in 0..SlotUnits :
        /\ flusher.at \in Nat /\ flusher.at + n <= length /\ length <= MaxLen
        /\ mode = "upload" /\ flusher.slot \in RingSlot
        /\ memory' = [memory EXCEPT ![flusher.slot] = Piece(flusher.at, n)]
        /\ ready' = IF n > 0 THEN Append(ready, SlotLine("slot", flusher.slot, n)) ELSE ready
        /\ flusher'.pc \in {"over", "wait"} /\ flusher'.at = flusher.at + n
        /\ eof' /\ ~broken' => eof \/ flusher.at + n = length
        /\ ~broken' => ~broken
  BY FillFacts
<1>2. UNCHANGED <<mode, length, helper, toHelper, landed>>
  BY DEF FillRead
<1>3. /\ \A k \in 1..Len(ready) : ready[k].slot # flusher.slot
      /\ lent # flusher.slot
  BY <1>1, FlusherAlone
<1>4. PICK mid \in 0..length :
        /\ Chain(memory, mid, ready, flusher.at)
        /\ helper.pc = "ask" => Chain(memory, helper.moved, toHelper, mid)
        /\ helper.pc # "ask" => mid = helper.moved + helper.fill
  BY UploadFacts
<1>5. \A s : s # flusher.slot => memory'[s] = memory[s]
  BY <1>1
<1>6. /\ length \in Nat /\ length <= MaxLen /\ MaxLen \in Nat /\ n \in Nat /\ ready \in Seq(SlotLines)
      /\ DOMAIN memory = RingSlot
  BY UploadFacts, RingAssumption DEF Data, MemoryOK
<1>7. Chain(memory', mid, ready, flusher.at)
  BY <1>3, <1>4, <1>5, ChainStill
<1>8. Chain(memory', mid, ready', flusher'.at)
  <2>1. CASE n = 0
    BY <1>1, <1>6, <1>7, <2>1
  <2>2. CASE n > 0
    <3> DEFINE x == SlotLine("slot", flusher.slot, n)
    <3>1. x \in SlotLines /\ x.slot = flusher.slot /\ x.n = n /\ Amount(x) = n
      <4>1. n \in 1..SlotUnits
        BY <2>2, <1>6, RingAssumption
      <4> QED
        BY <1>1, <4>1, Said, SaidToHelper, AmountIs
    <3> HIDE DEF x
    <3>2. memory'[flusher.slot] = Piece(flusher.at, n)
      BY <1>1, <1>6
    <3>3. Fits(memory', flusher.at, x)
      BY <1>1, <3>1, <3>2 DEF Fits
    <3>4. flusher.at + Amount(x) <= MaxLen
      BY <1>1, <1>6, <3>1
    <3>5. Chain(memory', mid, Append(ready, x), flusher.at + Amount(x))
      BY <1>6, <1>7, <3>1, <3>3, <3>4, ChainGrow
    <3> QED
      BY <1>1, <2>2, <3>1, <3>5 DEF x
  <2> QED
    BY <1>6, <2>1, <2>2
<1>9. helper.pc = "ask" => Chain(memory', helper.moved, toHelper, mid)
  <2> SUFFICES ASSUME helper.pc = "ask" PROVE Chain(memory', helper.moved, toHelper, mid)
    OBVIOUS
  <2>1. \A k \in 1..Len(toHelper) : Amount(toHelper[k]) > 0 => toHelper[k].slot = lent
    BY AskHears
  <2>2. \A k \in 1..Len(toHelper) : Amount(toHelper[k]) > 0 => memory'[toHelper[k].slot] = memory[toHelper[k].slot]
    BY <1>3, <1>5, <2>1
  <2> QED
    BY <1>4, <2>2, ChainStill
<1>10. Holding => memory'[helper.slot] = memory[helper.slot]
  BY <1>3, <1>5 DEF Control, HelperOK
<1>11. Holding /\ helper.fill > 0 =>
         Rest(memory'[helper.slot], helper.fill, helper.moved)
  BY <1>10, UploadFacts
<1>12. eof' /\ ~broken' => flusher'.at = length
  <2>1. eof /\ ~broken => flusher.at = length
    BY UploadFacts
  <2>2. flusher.at = length => n = 0 /\ flusher.at + n = length
    BY <1>1, <1>6
  <2> QED
    BY <1>1, <2>1, <2>2
<1>13. flusher'.pc \in {"wait", "fill", "over"} /\ flusher'.at <= length
  BY <1>1
<1>14. Len(landed) = helper.moved /\ (Heads(toHelper, "eof") => helper.moved = length)
  BY UploadFacts
<1> QED
  BY <1>2, <1>4, <1>8, <1>9, <1>11, <1>12, <1>13, <1>14 DEF UploadOK, Holding

\* ... a unit is sent, ...
LEMMA UploadSends ==
  ASSUME Control, Control', Data, mode = "upload", Started, Send
  PROVE  UploadOK'
<1>1. /\ helper.pc = "run" /\ helper.fill > 0 /\ Holding
      /\ helper'.pc = "run" /\ helper'.slot = helper.slot
      /\ helper'.fill = helper.fill - 1 /\ helper'.moved = helper.moved + 1
      /\ Len(landed') = helper.moved + 1
  BY SendFacts DEF Data, Holding
<1>2. UNCHANGED <<mode, length, flusher, ready, memory, eof, broken, toHelper>>
  BY DEF Send, HelperOnly
<1>3. PICK mid \in 0..length :
        /\ Chain(memory, mid, ready, flusher.at)
        /\ mid = helper.moved + helper.fill
  BY <1>1, UploadFacts
<1>4. helper.moved \in Nat /\ helper.fill \in Nat
  BY UploadFacts
<1>5. Rest(memory[helper.slot], helper.fill, helper.moved) /\ Len(memory[helper.slot]) \in Nat
  <2>1. helper.slot \in RingSlot
    BY <1>1, UploadFacts, HelperFields, SlotFacts DEF Control, HelperOK
  <2>2. Len(memory[helper.slot]) \in Nat
    BY <2>1 DEF Data, MemoryOK
  <2> QED
    BY <1>1, <2>2, UploadFacts
<1>6. mid = helper'.moved + helper'.fill /\ helper'.moved + helper'.fill = helper.moved + helper.fill
  BY <1>1, <1>3, <1>4
<1>7. Rest(memory'[helper'.slot], helper'.fill, helper'.moved)
  <2>1. memory'[helper'.slot] = memory[helper.slot]
    BY <1>1, <1>2
  <2>2. ASSUME NEW m, NEW f \in Nat, NEW t \in Nat, Len(m) \in Nat, f > 0, Rest(m, f, t)
        PROVE  Rest(m, f - 1, t + 1)
    <3>1. t + 1 + (f - 1) = t + f
      OBVIOUS
    <3> QED
      BY <2>2, <3>1 DEF Rest
  <2>3. Rest(memory[helper.slot], helper.fill - 1, helper.moved + 1)
    BY <1>1, <1>4, <1>5, <2>2
  <2> QED
    BY <1>1, <2>1, <2>3
<1>8. ~Heads(toHelper', "eof")
  <2>1. Heads(toHelper', "eof") => helper'.pc = "ask"
    BY <1>1, <1>2, EofHeard DEF Started, Moves
  <2> QED
    BY <1>1, <2>1
<1>9. Len(landed') = helper'.moved
  BY <1>1
<1>10. mid \in 0..length' /\ Chain(memory', mid, ready', flusher'.at)
  BY <1>2, <1>3
<1>11. /\ flusher'.pc \in {"wait", "fill", "over"} /\ flusher'.at <= length'
       /\ eof' /\ ~broken' => flusher'.at = length'
  BY <1>2, UploadFacts
<1> QED
  BY <1>1, <1>6, <1>7, <1>8, <1>9, <1>10, <1>11 DEF UploadOK

\* ... the next slot is lent, ...
LEMMA UploadLends ==
  ASSUME Control, Control', Data, mode = "upload", Started, OnNextLend
  PROVE  UploadOK'
<1>1. /\ toApp = <<>> /\ helper.pc = "ask" /\ Alive
  BY DEF OnNextLend, Control, ReaderOK, Started, Moves, Mapped, Alive
<1>2. toHelper = <<>> /\ mode # "credit"
  BY <1>1 DEF Control, Wires, AskWire, OnNextLend
<1>3. UNCHANGED <<mode, length, helper, flusher, memory, landed, eof, broken, halt>>
  BY DEF OnNextLend
<1>4. ~halt /\ ~Download
  BY DEF Control, FlagsOK, Download
<1>5. PICK mid \in 0..length :
        /\ Chain(memory, mid, ready, flusher.at)
        /\ Chain(memory, helper.moved, <<>>, mid)
  BY <1>1, <1>2, UploadFacts
<1>6. mid = helper.moved
  BY <1>5, ChainNone
<1>7. /\ length \in Nat /\ length <= MaxLen /\ MaxLen \in Nat /\ ready \in Seq(SlotLines)
      /\ flusher.at \in Nat /\ flusher.at <= length /\ toHelper \in Seq(HelperLines)
  BY UploadFacts, UploadActs
<1>8. ASSUME NEW x \in HelperLines, Says(<<x>>), Amount(x) + mid <= length, Fits(memory, mid, x)
      PROVE  toHelper' = <<x>> /\ Chain(memory, helper.moved, toHelper', mid + Amount(x))
  <2>1. toHelper' = Append(toHelper, x) /\ Append(toHelper, x) = <<x>>
    BY <1>1, <1>2, <1>7, <1>8, AppendLines DEF Says, Alive
  <2>2. Amount(x) \in Nat /\ mid + Amount(x) <= MaxLen
    BY <1>7, <1>8, AmountIs
  <2>3. Chain(memory, helper.moved, Append(toHelper, x), mid + Amount(x))
    BY <1>2, <1>5, <1>7, <1>8, <2>2, ChainGrow
  <2> QED
    BY <2>1, <2>3
<1>9. ASSUME NEW k \in {"error", "eof"}, Says(<<Line(k)>>), UNCHANGED ready
      PROVE  /\ Chain(memory, mid, ready', flusher.at) /\ Chain(memory, helper.moved, toHelper', mid)
             /\ toHelper' = <<Line(k)>>
  <2>1. Line(k) \in HelperLines /\ Amount(Line(k)) = 0 /\ Fits(memory, mid, Line(k))
    BY Said, SaidToHelper DEF Amount, Fits
  <2>2. Amount(Line(k)) + mid <= length /\ mid + Amount(Line(k)) = mid
    BY <1>7, <2>1
  <2> QED
    BY <1>5, <1>8, <1>9, <2>1, <2>2
<1>10. SUFFICES \E m \in 0..length :
         /\ Chain(memory, m, ready', flusher.at) /\ Chain(memory, helper.moved, toHelper', m)
         /\ Heads(toHelper', "eof") => helper.moved = length
  BY <1>1, <1>3, <1>10, UploadFacts DEF UploadOK, Holding
<1>11. CASE broken \/ halt
  <2>1. Says(<<Line("error")>>) /\ UNCHANGED ready
    BY <1>11 DEF OnNextLend
  <2>2. toHelper' = <<Line("error")>>
    BY <1>9, <2>1
  <2>3. ~Heads(toHelper', "eof")
    BY <2>2, LoneLines, Said DEF Heads
  <2> QED
    BY <1>9, <2>1, <2>3
<1>12. CASE ~broken /\ ~halt /\ ~Download /\ ready = <<>>
  <2>1. Says(<<Line("eof")>>) /\ UNCHANGED ready /\ eof
    BY <1>12 DEF OnNextLend
  <2>2. flusher.at = length
    BY <1>12, <2>1, UploadFacts
  <2>3. mid = flusher.at
    BY <1>5, <1>12, ChainNone
  <2> QED
    BY <1>6, <1>9, <2>1, <2>2, <2>3
<1>13. CASE ~broken /\ ~halt /\ ~Download /\ ready # <<>>
  <2> DEFINE x == SlotLine("slot", Head(ready).slot, Head(ready).n)
  <2>1. ready' = Tail(ready) /\ Says(<<x>>)
    BY <1>13 DEF OnNextLend
  <2>2. Head(ready) \in SlotLines
    BY <1>7, <1>13
  <2>3. Head(ready).slot \in RingSlot /\ Head(ready).n \in 1..SlotUnits /\ Head(ready).kind = "slot"
    BY <2>2 DEF SlotLines
  <2>4. x \in HelperLines /\ Amount(x) = Head(ready).n /\ x.slot = Head(ready).slot /\ x.n = Head(ready).n
    BY <2>3, Said, SaidToHelper, AmountIs
  <2>5. Amount(Head(ready)) = Head(ready).n
    BY <2>2, AmountIs
  <2> HIDE DEF x
  <2> DEFINE m == mid + Head(ready).n
  <2>6. Chain(memory, m, ready', flusher.at) /\ Fits(memory, mid, Head(ready)) /\ Tail(ready) \in Seq(SlotLines)
    BY <1>5, <1>7, <1>13, <2>1, <2>5, ChainTake
  <2>7. m <= flusher.at /\ m \in 0..MaxLen
    BY <2>1, <2>6, ChainBounds
  <2>8. m \in 0..length
    BY <1>7, <2>7
  <2>9. Amount(x) + mid <= length /\ Fits(memory, mid, x)
    <3>1. Fits(memory, mid, x)
      BY <2>4, <2>5, <2>6 DEF Fits
    <3>2. Amount(x) + mid = m /\ m <= length
      BY <1>7, <2>3, <2>4, <2>8, RingAssumption
    <3> QED
      BY <3>1, <3>2
  <2>10. toHelper' = <<x>> /\ Chain(memory, helper.moved, toHelper', m)
    BY <1>8, <2>1, <2>4, <2>9
  <2>11. ~Heads(toHelper', "eof")
    BY <2>10, LoneLines, Said DEF Heads, x
  <2> QED
    BY <2>6, <2>8, <2>10, <2>11
<1> QED
  BY <1>4, <1>11, <1>12, <1>13

\* ... and taken.
LEMMA UploadTakes ==
  ASSUME Control, Data, mode = "upload", Started, NextLent
  PROVE  UploadOK'
<1>1. /\ helper.pc = "ask" /\ mode # "credit" /\ toHelper # <<>> /\ Head(toHelper).kind = "slot"
      /\ toHelper' = Tail(toHelper)
  BY DEF NextLent, Hears, Take
<1>2. PICK n \in 1..SlotUnits : toHelper = <<SlotLine("slot", lent, n)>>
  BY <1>1, LoneLines, Said DEF Control, Wires, AskWire
<1>3. Head(toHelper).slot = lent /\ Head(toHelper).n = n /\ Tail(toHelper) = <<>> /\ toHelper \in Seq(HelperLines)
  BY <1>2, LoneLines, Said, UploadActs
<1>4. UNCHANGED <<mode, length, flusher, ready, memory, landed, eof, broken>>
  BY DEF NextLent, HelperOnly
<1>5. PICK mid \in 0..length :
        /\ Chain(memory, mid, ready, flusher.at)
        /\ Chain(memory, helper.moved, toHelper, mid)
  BY <1>1, UploadFacts
<1>6. helper'.pc = "run" /\ helper'.slot = lent /\ helper'.fill = n /\ helper'.moved = helper.moved
  BY <1>3, UploadFacts DEF NextLent, Helpers, Download
<1>7. Amount(Head(toHelper)) = n /\ n \in Nat /\ n > 0 /\ helper.moved \in Nat
  BY <1>1, <1>3, AmountIs, RingAssumption, UploadFacts
<1>8. Chain(memory, helper.moved + n, <<>>, mid) /\ Fits(memory, helper.moved, Head(toHelper))
  BY <1>1, <1>3, <1>5, <1>7, ChainTake
<1>9. mid = helper'.moved + helper'.fill
  BY <1>6, <1>8, ChainNone
<1>10. memory[lent] = Piece(helper.moved, n)
  BY <1>3, <1>7, <1>8 DEF Fits
<1>11. Rest(memory'[helper'.slot], helper'.fill, helper'.moved)
  <2>1. Len(memory[lent]) = n
    BY <1>7, <1>10, PieceIs
  <2>2. memory'[helper'.slot] = memory[lent] /\ helper'.fill = n
    BY <1>4, <1>6
  <2>3. ASSUME NEW m, NEW b \in Nat, NEW k \in Nat, m = Piece(b, k), Len(m) = k PROVE Rest(m, k, b)
    <3>1. b + k - k = b /\ b + k >= k
      OBVIOUS
    <3> QED
      BY <2>3, <3>1 DEF Rest
  <2> QED
    BY <1>6, <1>7, <1>10, <2>1, <2>2, <2>3
<1>12. ~Heads(toHelper', "eof")
  BY <1>1, <1>3, Nothing
<1>13. mid \in 0..length' /\ Chain(memory', mid, ready', flusher'.at)
  BY <1>4, <1>5
<1>14. /\ flusher'.pc \in {"wait", "fill", "over"} /\ flusher'.at <= length'
       /\ eof' /\ ~broken' => flusher'.at = length'
       /\ Len(landed') = helper'.moved
  BY <1>4, <1>6, UploadFacts
<1> QED
  BY <1>6, <1>9, <1>11, <1>12, <1>13, <1>14 DEF UploadOK

\* What is read of the file is sent, lent or queued.
LEMMA UploadNext == ASSUME Control, Control', OwnersOK, Data, [RingNext]_ringVars PROVE UploadOK'
<1>1. SUFFICES ASSUME mode' = "upload", Started' PROVE UploadOK'
  BY DEF UploadOK
<1>2. CASE OnOpenStart
  BY <1>1, <1>2, UploadStarts
<1>3. CASE ~OnOpenStart
  <2>1. Started
    BY <1>1, <1>3, StartsOnce
  <2>2. ~SendXfer
    BY <2>1, StartedAt
  <2>3. mode = "upload" /\ length' = length /\ ~halt
    BY <1>1, <2>1, <2>2, ContextStays DEF Control, FlagsOK
  <2>4. /\ ~FlushWait /\ ~FlushFinish /\ ~FlushWrite /\ ~FlushGrant /\ ~Store
        /\ ~OnNextCredit /\ ~OnFinalize /\ ~OnFinalizeJoin /\ ~SendXfer /\ ~Launch /\ ~Command
    BY <2>1, <2>3, UploadActs
  <2>5. CASE FillRead
    BY <2>1, <2>3, <2>5, UploadFills
  <2>6. CASE Send
    BY <2>1, <2>3, <2>6, UploadSends
  <2>7. CASE OnNextLend
    BY <2>1, <2>3, <2>7, UploadLends
  <2>8. CASE NextLent
    BY <2>1, <2>3, <2>8, UploadTakes
  <2>9. CASE ~FillRead /\ ~Send /\ ~OnNextLend /\ ~NextLent
    <3>1. memory' = memory /\ landed' = landed
      BY <2>4, <2>9, MemoryStays, LandedStays
    <3>2. ready' = ready
      <4>1. CASE OnNextReturn
        BY <2>3, <4>1 DEF OnNextReturn, Download
      <4>2. CASE ~OnNextReturn
        BY <1>3, <2>4, <2>9, <4>2, ReadyStays
      <4> QED
        BY <4>1, <4>2
    <3>3. flusher'.pc \in {"wait", "fill", "over"} /\ flusher'.at = flusher.at
      <4>1. CASE FillWait
        BY <2>1, <2>3, <4>1, UploadFacts DEF FillWait, Flushers
      <4>2. CASE ~FillWait
        BY <1>3, <2>1, <2>3, <2>4, <2>9, <4>2, FlusherStays, UploadFacts
      <4> QED
        BY <4>1, <4>2
    <3>4. eof' = eof /\ (~broken' => ~broken)
      BY <1>3, <2>4, <2>9, EofStays, BrokenStays
    <3>5. PICK mid \in 0..length :
            /\ Chain(memory, mid, ready, flusher.at)
            /\ helper.pc = "ask" => Chain(memory, helper.moved, toHelper, mid)
            /\ helper.pc # "ask" => mid = helper.moved + helper.fill
      BY <2>1, <2>3, UploadFacts
    <3>6. ASSUME helper'.moved = helper.moved, helper'.fill = helper.fill, helper'.slot = helper.slot,
                 helper'.pc \in {"run", "quota"} => Holding \/ helper.fill = 0,
                 helper'.pc = "ask" => Chain(memory, helper.moved, toHelper', mid),
                 helper'.pc # "ask" => helper.pc # "ask",
                 Heads(toHelper', "eof") => helper.moved = length
          PROVE  UploadOK'
      <4>1. Len(landed') = helper'.moved /\ flusher'.pc \in {"wait", "fill", "over"} /\ flusher'.at <= length'
        BY <2>1, <2>3, <3>1, <3>3, <3>6, UploadFacts
      <4>2. /\ mid \in 0..length'
            /\ Chain(memory', mid, ready', flusher'.at)
            /\ helper'.pc = "ask" => Chain(memory', helper'.moved, toHelper', mid)
            /\ helper'.pc # "ask" => mid = helper'.moved + helper'.fill
        BY <2>3, <3>1, <3>2, <3>3, <3>5, <3>6
      <4>3. Holding' /\ helper'.fill > 0 =>
              Rest(memory'[helper'.slot], helper'.fill, helper'.moved)
        <5>1. Holding' /\ helper'.fill > 0 => Holding /\ helper.fill > 0
          BY <3>6 DEF Holding
        <5>2. memory'[helper'.slot] = memory[helper.slot]
          BY <3>1, <3>6
        <5> QED
          BY <2>1, <2>3, <3>6, <5>1, <5>2, UploadFacts
      <4>4. /\ eof' /\ ~broken' => flusher'.at = length'
            /\ Heads(toHelper', "eof") => helper'.moved = length'
        BY <2>1, <2>3, <3>3, <3>4, <3>6, UploadFacts
      <4> QED
        BY <4>1, <4>2, <4>3, <4>4 DEF UploadOK
    <3>7. CASE HelperSame
      <4>1. CASE helper.pc = "ask"
        <5>1. toHelper' = toHelper
          BY <2>3, <2>9, <3>7, <4>1, AskWaits DEF HelperSame
        <5> QED
          BY <2>1, <2>3, <3>5, <3>6, <3>7, <4>1, <5>1, UploadFacts DEF HelperSame, Holding
      <4>2. CASE helper.pc # "ask"
        <5>1. ~Heads(toHelper', "eof")
          BY <1>1, <3>7, <4>2, EofHears DEF HelperSame
        <5> QED
          BY <3>6, <3>7, <4>2, <5>1 DEF HelperSame, Holding
      <4> QED
        BY <4>1, <4>2
    <3>8. CASE HelperMoves("open", "run") \/ HelperMoves("run", "quota") \/ HelperMoves("quota", "run")
      <4>1. ~Heads(toHelper', "eof")
        BY <1>1, <3>8, EofHears DEF HelperMoves
      <4>2. helper.pc = "open" => helper.fill = 0
        BY DEF Control, HelperOK
      <4> QED
        BY <3>6, <3>8, <4>1, <4>2 DEF HelperMoves, Holding
    <3>9. CASE Ask /\ HelperMoves("run", "ask")
      <4>1. toHelper' = toHelper /\ toHelper = <<>>
        <5>1. Kinds(toHelper, {}) /\ toHelper \in Seq(HelperLines)
          BY <2>3, <3>9 DEF HelperMoves, Control, Wires, RunWire, IoOf, Types, PipeTypes
        <5> QED
          BY <3>9, <5>1, OnlyLines DEF Ask, HelperOnly
      <4>2. helper.fill = 0 /\ mid = helper.moved
        BY <2>1, <2>3, <3>5, <3>9, UploadFacts DEF Ask, Download, HelperMoves
      <4>3. Chain(memory, helper.moved, toHelper', mid)
        <5>1. mid \in 0..MaxLen
          BY <2>1, <2>3, <3>5, ChainBounds, UploadFacts
        <5> QED
          BY <4>1, <4>2, <5>1, ChainNone
      <4>4. ~Heads(toHelper', "eof")
        BY <4>1, Nothing
      <4> QED
        BY <3>6, <3>9, <4>3, <4>4 DEF HelperMoves, Holding
    <3>10. ~NextGrant /\ ~(Finalize /\ Download)
      BY <2>3 DEF NextGrant, Download
    <3> QED
      BY <1>1, <2>1, <2>4, <2>9, <3>7, <3>8, <3>9, <3>10, HelperGoesOn
  <2> QED
    BY <2>5, <2>6, <2>7, <2>8, <2>9
<1> QED
  BY <1>2, <1>3

-----------------------------------------------------------------------------
(* The end of a transfer.                                                  *)

\* All is quiet when a transfer succeeds.
LEMMA SuccessIsQuiet == ASSUME Control, Succeeds PROVE Quiet /\ helper.pc # "run"
<1>1. toApp \in Seq(AppLines)
  BY DEF Control, Types, PipeTypes
<1>2. CASE helper.pc = "report" /\ helper.ok
  BY <1>2 DEF Control, DoneOK
<1>3. ASSUME NEW k \in 1..Len(toApp), toApp[k].kind = "done", toApp[k].n = 1 PROVE Quiet /\ helper.pc # "run"
  <2>1. Has(toApp, "done")
    BY <1>3 DEF Has
  <2> QED
    BY <1>3, <2>1 DEF Control, DoneOK, Idle
<1>4. CASE inbox # <<>> /\ Head(inbox).n = 1
  BY <1>4 DEF Control, DoneOK, Idle
<1>5. CASE boss.outcome = "ok"
  BY <1>5 DEF Control, DoneOK, BossOK, Idle
<1> QED
  BY <1>2, <1>3, <1>4, <1>5 DEF Succeeds

\* Nothing arrives any more.
LEMMA SuccessStays ==
  ASSUME Control, [RingNext]_ringVars, Succeeds, ~SendXfer PROVE landed' = landed /\ length' = length
<1>1. Quiet /\ helper.pc # "run"
  BY SuccessIsQuiet
<1>2. ~FlushWrite /\ ~Send
  BY <1>1 DEF Quiet, FlushWrite, Send, FlusherOver, Control, FlusherOK, Download
<1> QED
  BY <1>2, LandedStays, ContextStays

\* The next transfer has none of it.
LEMMA SuccessIsOver == ASSUME Control, SendXfer PROVE ~Succeeds'
<1>1. Idle /\ toApp = <<>> /\ inbox = <<>>
  BY DEF SendXfer, Control, BossOK
<1>2. helper' = helper /\ toApp' = toApp /\ inbox' = inbox /\ boss'.outcome = "none"
  BY DEF SendXfer
<1> QED
  BY <1>1, <1>2, Nothing DEF Succeeds, Idle

\* The helper is done well, ...
LEMMA HelperSucceeds ==
  ASSUME Control, [RingNext]_ringVars, helper'.pc = "report", helper'.ok, ~(helper.pc = "report" /\ helper.ok)
  PROVE  \/ NextNone /\ Hears("eof")
         \/ Finalize /\ ~Download /\ ~Expects
         \/ Finalized /\ Hears("kept") /\ helper.pc = "final" /\ helper.ok /\ helper'.moved = helper.moved
<1>1. helper \in Helpers
  BY DEF Control, Types, ThreadTypes
<1>2. ~StrayLine /\ ~HelperDies /\ ~Launch /\ ~StopKill
  BY NoHelperIs DEF StrayLine, HelperDies, Launch, StopKill, NoHelper
<1>3. ~Fails("report")
  BY <1>1, Turned DEF Helping, HelperPlaces
<1>4. ~Siphon /\ ~Store /\ ~Send /\ ~Ask /\ ~NextGrant /\ ~NextLent /\ ~ReportDone
  <2>1. ~Siphon
    BY <1>1 DEF Siphon, Helpers
  <2>2. (Store => helper'.pc = "run") /\ (Send => helper'.pc = "run")
        /\ (NextGrant => helper'.pc = "run") /\ (NextLent => helper'.pc = "run")
    <3>1. Store => helper'.pc = "run"
      BY <1>1 DEF Store, Helpers
    <3>2. Send => helper'.pc = "run"
      BY <1>1 DEF Send, Helpers
    <3>3. NextGrant => helper'.pc = "run"
      BY <1>1 DEF NextGrant, Helpers
    <3>4. NextLent => helper'.pc = "run"
      BY <1>1 DEF NextLent, Helpers
    <3> QED
      BY <3>1, <3>2, <3>3, <3>4
  <2>3. ~Ask /\ ~ReportDone
    BY <1>1, Turned DEF Ask, ReportDone, Helping, HelperPlaces
  <2> QED
    BY <2>1, <2>2, <2>3
<1>5. ~Quota
  BY <1>1, NoHelperIs DEF Quota, Turn, Helpers
<1>6. ~Command /\ ~Opened
  <2>1. ~Command
    <3>1. Command => helper'.pc = "open" \/ Fails("report")
      BY <1>1 DEF Command, Helpers
    <3> QED
      BY <1>3, <3>1
  <2>2. ~Turn("run")
    BY <1>1, Turned DEF Helping, HelperPlaces
  <2> QED
    BY <1>3, <2>1, <2>2 DEF Opened
<1>7. CASE NextNone
  BY <1>3, <1>7 DEF NextNone
<1>8. CASE Finalize
  <2>1. ~Download
    <3>1. Download => Turn("final") \/ Fails("final")
      BY <1>8 DEF Finalize
    <3> QED
      BY <1>1, <3>1, Turned DEF Helping, HelperPlaces
  <2> QED
    BY <1>3, <1>8, <2>1 DEF Finalize
<1>9. CASE Finalized
  BY <1>1, <1>3, <1>9, Turned DEF Finalized, Helping, HelperPlaces
<1> QED
  BY <1>2, <1>4, <1>5, <1>6, <1>7, <1>8, <1>9, HelperStays

\* ... says so, ...
LEMMA DoneIsSaid ==
  ASSUME Control, [RingNext]_ringVars, NEW k \in 1..Len(toApp'), toApp'[k].kind = "done", toApp'[k].n = 1
  PROVE  Succeeds
<1>1. toApp \in Seq(AppLines)
  BY DEF Control, Types, PipeTypes
<1>2. ASSUME NEW j \in 1..Len(toApp), toApp[j] = toApp'[k] PROVE Succeeds
  BY <1>2 DEF Succeeds
<1>3. CASE toApp' = toApp
  BY <1>2, <1>3
<1>4. CASE toApp' = <<>>
  BY <1>4, Nothing
<1>5. ASSUME NEW x \in AppLines, Tells(x), x.kind # "done" PROVE Succeeds
  <2>1. Grown(toApp, x, toApp')
    BY <1>1, <1>5, TellsGrows
  <2>2. \E j \in 1..Len(toApp) : toApp'[k] = toApp[j]
    BY <1>5, <2>1 DEF Grown
  <2> QED
    BY <1>2, <2>2
<1>6. ASSUME NEW m, Read(m), Consume PROVE Succeeds
  <2>1. \E j \in 1..Len(toApp) : toApp'[k] = toApp[j]
    BY <1>1, <1>6, ReadShrinks DEF Shrunk
  <2> QED
    BY <1>2, <2>1
<1>7. CASE OnQuota \/ OnResult \/ OnOpen \/ OnNextCredit \/ OnNextReturn \/ OnFinalize
  BY <1>6, <1>7 DEF OnQuota, OnResult, OnOpen, OnNextCredit, OnNextReturn, OnFinalize
<1>8. CASE Command
  BY <1>3, <1>5, <1>8, SaidToApp, Said DEF Command
<1>9. CASE Ask \/ Finalize
  <2>1. /\ helper.slot \in 0..Slots /\ helper.fill \in 0..SlotUnits /\ 0 \in 0..SlotUnits
        /\ helper.slot = None => helper.fill = 0
    BY HelperFields, SlotFacts DEF Control, Types, ThreadTypes, HelperOK
  <2>2. \A j \in {"next", "final"} : SlotLine(j, helper.slot, helper.fill) \in AppLines
    BY <2>1, SaidToApp
  <2>3. Trailing = SlotLine("final", helper.slot, helper.fill)
    BY <2>1 DEF Trailing
  <2>4. toApp' = toApp \/ Tells(SlotLine("next", helper.slot, helper.fill))
        \/ Tells(SlotLine("final", helper.slot, helper.fill))
    BY <1>9, <2>3 DEF Ask, Finalize
  <2> QED
    BY <1>3, <1>5, <2>2, <2>4, Said
<1>10. CASE Quota
  BY <1>3, <1>5, <1>10, SaidToApp, Said DEF Quota
<1>11. CASE ReportDone
  <2> DEFINE x == SlotLine("done", None, IF helper.ok THEN 1 ELSE 0)
  <2>1. x \in AppLines /\ Tells(x) /\ x.n = (IF helper.ok THEN 1 ELSE 0)
    BY <1>11, SaidToApp, Said DEF ReportDone
  <2> HIDE DEF x
  <2>2. Grown(toApp, x, toApp')
    BY <1>1, <2>1, TellsGrows
  <2>3. CASE toApp'[k] = x
    <3>1. helper.ok /\ helper.pc = "report"
      BY <1>11, <2>1, <2>3 DEF ReportDone
    <3> QED
      BY <3>1 DEF Succeeds
  <2>4. CASE \E j \in 1..Len(toApp) : toApp'[k] = toApp[j]
    BY <1>2, <2>4
  <2> QED
    BY <2>2, <2>3, <2>4 DEF Grown
<1>12. CASE Launch
  BY <1>4, <1>12 DEF Launch
<1> QED
  BY <1>3, <1>7, <1>8, <1>9, <1>10, <1>11, <1>12, ToAppStays

\* ... and the reader and the UI thread pass it on.
LEMMA DoneIsRead ==
  ASSUME Control, [RingNext]_ringVars, inbox' # <<>>, Head(inbox').n = 1 PROVE Succeeds
<1>1. toApp \in Seq(AppLines) /\ inbox \in Seq(AppLines)
  BY DEF Control, Types, PipeTypes
<1>2. CASE OnResult
  <2>1. toApp # <<>> /\ Head(toApp).kind = "done" /\ inbox' = Append(inbox, Head(toApp))
    BY <1>2 DEF OnResult, Read
  <2>2. inbox = <<>>
    BY <1>1, <2>1, TailLines DEF Control, DoneOK
  <2>3. Head(inbox') = Head(toApp) /\ Head(toApp) = toApp[1] /\ 1 \in 1..Len(toApp)
    BY <1>1, <2>1, <2>2
  <2> QED
    BY <2>1, <2>3 DEF Succeeds
<1>3. CASE Result
  <2>1. inbox # <<>> /\ inbox' = Tail(inbox)
    BY <1>3 DEF Result
  <2>2. Len(inbox) = 1
    BY <2>1 DEF Control, DoneOK
  <2>3. Tail(inbox) = <<>>
    <3>1. Tail(inbox) \in Seq(AppLines) /\ Len(Tail(inbox)) = 0
      BY <1>1, <2>1, <2>2, HeadTailProperties
    <3> QED
      BY <3>1, EmptySeq
  <2> QED
    BY <2>1, <2>3
<1>4. CASE StopDrop
  BY <1>4 DEF StopDrop
<1>5. CASE ~OnResult /\ ~Result /\ ~StopDrop
  BY <1>5, InboxStays DEF Succeeds
<1> QED
  BY <1>2, <1>3, <1>4, <1>5

\* A transfer is reported done well only when it succeeds.
LEMMA DoneIsTaken ==
  ASSUME Control, [RingNext]_ringVars, boss'.outcome = "ok" PROVE Succeeds
<1>1. ThreadTypes
  BY DEF Control, Types
<1>2. CASE Result
  BY <1>2 DEF Result, Succeeds
<1>3. CASE SendXfer \/ ConnectionClosed
  <2>1. boss'.outcome \in {"none", "fail"}
    <3>1. CASE SendXfer
      BY <3>1 DEF SendXfer
    <3>2. CASE ConnectionClosed
      BY <3>2 DEF ConnectionClosed
    <3> QED
      BY <1>3, <3>1, <3>2
  <2> QED
    BY <2>1
<1>4. CASE ~Result /\ ~SendXfer /\ ~ConnectionClosed
  BY <1>1, <1>4, OutcomeStays DEF Succeeds
<1> QED
  BY <1>2, <1>3, <1>4

\* A transfer that is done well is complete.
LEMMA CompleteNext == ASSUME Control, Data, [RingNext]_ringVars PROVE CompleteOK'
<1>1. SUFFICES ASSUME Succeeds' PROVE Len(landed') = length'
  BY DEF CompleteOK
<1>2. ~SendXfer
  BY <1>1, SuccessIsOver
<1>3. CASE Succeeds
  BY <1>2, <1>3, SuccessStays DEF Data, CompleteOK
<1>4. CASE ~Succeeds
  <2>1. helper'.pc = "report" /\ helper'.ok
    BY <1>1, <1>4, DoneIsSaid, DoneIsRead, DoneIsTaken DEF Succeeds
  <2>2. Len(landed) \in 0..length /\ length \in Nat /\ helper.moved \in Nat /\ helper \in Helpers
    BY HelperFields DEF Data, LandedOK, Control, Types, ThreadTypes, ContextTypes
  <2>3. ASSUME NextNone \/ Finalize \/ Finalized PROVE landed' = landed /\ length' = length
    BY <2>3 DEF NextNone, Finalize, Finalized, HelperOnly
  <2>4. CASE NextNone /\ Hears("eof")
    <3>1. helper.pc = "ask" /\ Heads(toHelper, "eof") /\ Started /\ toHelper \in Seq(HelperLines)
      BY <2>4 DEF NextNone, Hears, Heads, Started, Moves, Control, Types, PipeTypes
    <3>2. mode # "credit"
      <4>1. mode = "credit" => Kinds(toHelper, {"grant", "error"})
        BY <3>1 DEF Control, Wires, RunWire, IoOf
      <4> QED
        BY <3>1, <4>1, OnlyLines
    <3>3. mode = "upload"
      BY <3>1, <3>2, LoneLines, Said DEF Control, Wires, AskWire, Heads
    <3>4. helper.moved = length /\ Len(landed) = helper.moved
      BY <3>1, <3>3, UploadFacts
    <3> QED
      BY <2>3, <2>4, <3>4
  <2>5. CASE Finalize /\ ~Download /\ ~Expects
    <3>1. mode = "upload" /\ Started /\ helper.moved >= length
      BY <2>2, <2>5 DEF Finalize, Download, Started, Moves, Expects
    <3>2. Len(landed) = helper.moved
      BY <3>1, UploadFacts
    <3> QED
      BY <2>2, <2>3, <2>5, <3>1, <3>2
  <2>6. CASE Finalized /\ Hears("kept") /\ helper.pc = "final" /\ helper.ok
    <3>1. Has(toHelper, "kept")
      BY <2>6, TailLines DEF Hears, Control, Types, PipeTypes
    <3>2. Len(landed) = helper.moved /\ helper.moved >= length
      BY <2>6, <3>1 DEF Data, DrainOK, Control, HelperOK
    <3> QED
      BY <2>2, <2>3, <2>6, <3>2
  <2>7. ~(helper.pc = "report" /\ helper.ok)
    BY <1>4 DEF Succeeds
  <2> QED
    BY <2>1, <2>4, <2>5, <2>6, <2>7, HelperSucceeds
<1> QED
  BY <1>3, <1>4

-----------------------------------------------------------------------------
(* The data are right in every state.                                      *)

\* At first there are no data.
LEMMA InitData == RingInit => Data
<1> SUFFICES ASSUME RingInit PROVE Data
  OBVIOUS
<1>1. Slots \in Nat /\ SlotUnits \in Nat /\ MaxLen \in Nat
  BY RingAssumption
<1>2. helper.pc = "gone" /\ flusher.pc = "none" /\ toApp = <<>> /\ inbox = <<>> /\ boss.outcome = "none"
  BY DEF RingInit, NoHelper
<1>3. ~Started /\ ~Flushes
  BY <1>2 DEF Started, Moves, Mapped, Flushes
<1>4. MemoryOK
  BY <1>1, Nothing, EmptySeq DEF RingInit, MemoryOK
<1>5. LandedOK
  <2>1. landed = <<>> /\ length = 0 /\ Len(<<>>) = 0 /\ Stream!Units(0) = <<>>
    BY DEF RingInit, Stream!Units
  <2> QED
    BY <2>1 DEF LandedOK
<1>6. QueueOK /\ FillOK /\ DrainOK /\ UploadOK
  BY <1>2, <1>3 DEF QueueOK, FillOK, DrainOK, UploadOK
<1>7. CompleteOK
  BY <1>2, Nothing DEF CompleteOK, Succeeds
<1> QED
  BY <1>4, <1>5, <1>6, <1>7 DEF Data

\* No step puts a unit in the wrong place.
LEMMA NextData == ASSUME Control, Control', OwnersOK, Data, [RingNext]_ringVars PROVE Data'
BY MemoryNext, LandedNext, QueueNext, FillNext, DrainNext, UploadNext, CompleteNext DEF Data

\* Every unit is where it belongs: what is in the slots, the queues and the pipes continues what
\* arrived, and nothing is left over when a transfer succeeds.
THEOREM DataInvariant == RingSpec => []Data
<1>1. Control /\ Control' /\ OwnersOK /\ Data /\ [RingNext]_ringVars => Data'
  BY NextData
<1> QED
  BY <1>1, InitData, OwnersInvariant, PTL DEF RingSpec

\* Every variable has its type, a slot no more than its size, and the helper no more grants than
\* its FIFO holds.
THEOREM RingTypesHold == RingSpec => []RingTypeOK
<1>1. ASSUME Control, GrantsFit, Data PROVE RingTypeOK
  <2>1. /\ flow \in Flows /\ mode \in {"upload", flow} /\ whole \in BOOLEAN /\ length \in 0..MaxLen
        /\ free \in Seq(RingSlot) /\ ready \in Seq(SlotLines) /\ lent \in RingSlot \cup {None}
    BY <1>1, SlotFacts DEF Control, Types, ContextTypes, RingTypes
  <2>2. {eof, final, broken, barred, halt} \subseteq BOOLEAN
    BY <1>1 DEF Control, Types, FlagTypes
  <2>3. \A s \in RingSlot : memory[s] \in Seq(1..MaxLen) /\ Len(memory[s]) <= SlotUnits
    BY <1>1 DEF Data, MemoryOK
  <2>4. /\ flusher.pc \in {"none", "wait", "flush", "grant", "excuse", "finish", "fill", "over"}
        /\ reader \in {"read", "open", "start", "next", "final", "over"}
        /\ boss.pc \in {"ready", "context", "wait", "kill", "signal", "join", "drop", "stopped"}
        /\ boss.outcome \in {"none", "ok", "fail"}
    BY <1>1 DEF Control, Types, ThreadTypes, Flushers
  <2>5. /\ helper.pc \in {"gone", "command", "open", "run", "ask", "quota", "final", "report"}
        /\ helper.grants \in Seq(RingSlot) /\ Len(helper.grants) <= Slots
    BY <1>1, HelperFields DEF Control, Types, ThreadTypes, HelperPlaces, GrantsFit
  <2>6. landed \in Seq(1..MaxLen)
    <3>1. PICK n \in 0..length : landed = Stream!Units(n)
      BY <1>1 DEF Data, LandedOK
    <3>2. n \in Nat /\ \A k \in 1..n : k \in 1..MaxLen
      BY <2>1, RingAssumption
    <3>3. landed \in [1..n -> 1..MaxLen]
      BY <3>1, <3>2 DEF Stream!Units
    <3> DEFINE S == 1..MaxLen
    <3>4. landed \in [1..n -> S]
      BY <3>3
    <3> HIDE DEF S
    <3>5. landed \in Seq(S)
      BY <3>2, <3>4
    <3> QED
      BY <3>5 DEF S
  <2> QED
    BY <2>1, <2>2, <2>3, <2>4, <2>5, <2>6 DEF RingTypeOK
<1> QED
  BY <1>1, OwnersInvariant, DataInvariant, PTL

-----------------------------------------------------------------------------
(* The ring is a stream.                                                   *)

\* A step of the ring is one of the stream.
LEMMA RingStep ==
  ASSUME Control, Data, [RingNext]_ringVars PROVE [Stream!StreamNext]_(Stream!streamVars)
<1>0. Len(landed) \in 0..length /\ length \in Nat /\ length <= MaxLen /\ MaxLen \in Nat
      /\ landed = Stream!Units(Len(landed))
  BY RingAssumption DEF Control, Types, ContextTypes, Data, LandedOK
<1>1. CASE FlushWrite
  <2>1. PICK k \in 0..flusher.n :
          /\ flusher.n \in Nat /\ Len(landed) + flusher.n <= length /\ Flushes
          /\ landed' = Stream!Units(Len(landed) + k)
    BY <1>1, FlushFacts DEF Data
  <2>2. k \in 0..MaxLen /\ Len(landed) + k <= length
    BY <1>0, <2>1
  <2>3. boss.outcome # "ok"
    BY <1>1, <2>1 DEF Control, DoneOK, Quiet, Flushes, FlusherOver, FlushWrite
  <2>4. UNCHANGED <<length, boss.outcome>>
    BY <1>1 DEF FlushWrite
  <2>5. Stream!Arrive(k)
    BY <2>1, <2>2, <2>3, <2>4 DEF Stream!Arrive
  <2> QED
    BY <2>2, <2>5 DEF Stream!StreamNext
<1>2. CASE Send
  <2>1. /\ helper.moved \in Nat /\ helper.fill \in Nat /\ helper.fill > 0 /\ Len(landed) = helper.moved
        /\ helper.moved + helper.fill <= length /\ helper.pc = "run"
        /\ landed' = Stream!Units(helper.moved + 1)
    BY <1>2, SendFacts DEF Data
  <2>2. 1 \in 0..MaxLen /\ Len(landed) + 1 <= length
    BY <1>0, <2>1
  <2>3. boss.outcome # "ok"
    BY <2>1 DEF Control, BossOK, Idle
  <2>4. UNCHANGED <<length, boss.outcome>>
    BY <1>2 DEF Send, HelperOnly
  <2>5. Stream!Arrive(1)
    BY <2>1, <2>2, <2>3, <2>4 DEF Stream!Arrive
  <2> QED
    BY <2>2, <2>5 DEF Stream!StreamNext
<1>3. CASE SendXfer
  <2>1. length' \in 0..MaxLen /\ landed' = <<>> /\ boss'.outcome = "none"
    BY <1>3 DEF SendXfer
  <2>2. Stream!Begin(length')
    BY <2>1 DEF Stream!Begin
  <2> QED
    BY <2>1, <2>2 DEF Stream!StreamNext
<1>4. CASE Result
  <2>1. UNCHANGED <<length, landed>>
    BY <1>4 DEF Result
  <2>2. CASE Head(inbox).n = 1 /\ ~broken /\ ~barred
    <3>1. boss'.outcome = "ok" /\ Succeeds
      BY <1>4, <2>2 DEF Result, Succeeds
    <3>2. Len(landed) = length
      BY <3>1 DEF Data, CompleteOK
    <3>3. Stream!Finish
      BY <1>0, <2>1, <3>1, <3>2 DEF Stream!Finish
    <3> QED
      BY <3>3 DEF Stream!StreamNext
  <2>3. CASE ~(Head(inbox).n = 1 /\ ~broken /\ ~barred)
    <3>1. boss'.outcome = "fail"
      BY <1>4, <2>3 DEF Result
    <3> QED
      BY <2>1, <3>1 DEF Stream!Fail, Stream!StreamNext
  <2> QED
    BY <2>2, <2>3
<1>5. CASE ConnectionClosed
  BY <1>5 DEF ConnectionClosed, Stream!Fail, Stream!StreamNext
<1>6. CASE ~FlushWrite /\ ~Send /\ ~SendXfer /\ ~Result /\ ~ConnectionClosed
  <2>1. ThreadTypes
    BY DEF Control, Types
  <2>2. landed' = landed /\ length' = length /\ boss'.outcome = boss.outcome
    BY <1>6, <2>1, LandedStays, ContextStays, OutcomeStays
  <2> QED
    BY <2>2 DEF Stream!streamVars
<1> QED
  BY <1>1, <1>2, <1>3, <1>4, <1>5, <1>6

\* The ring is a stream: whatever the threads, the helper and the user do, and whatever fails,
\* the units of the file arrive in order, each once, and a transfer that is reported done well
\* has all of them.
THEOREM RingIsStream == RingSpec => ImplementsStream
<1>1. RingInit => Stream!StreamInit
  BY DEF RingInit, Stream!StreamInit
<1>2. Control /\ Data /\ [RingNext]_ringVars => [Stream!StreamNext]_(Stream!streamVars)
  BY RingStep
<1> QED
  BY <1>1, <1>2, ControlInvariant, DataInvariant, PTL DEF RingSpec, ImplementsStream, Stream!StreamSpec

\* So what arrived is always a beginning of the file, and all of it once it is reported complete.
THEOREM RingDelivers == RingSpec => []Stream!StreamOK
BY RingIsStream, StreamIsInOrder, PTL DEF ImplementsStream
==============================================================================
