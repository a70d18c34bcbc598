--------------------------- MODULE TouchpadProofs ---------------------------
(***************************************************************************)
(* Proofs about Touchpad for every set of phones and fingers, every number  *)
(* of slots and every bound: what a frame leaves on the device, and that    *)
(* the order in which tasks reach the device does not show.                *)
(***************************************************************************)
EXTENDS Touchpad, FiniteSetTheorems, TLAPS

USE TouchpadAssumption

-----------------------------------------------------------------------------
(* Places. *)

(* The places of the members of a finite set are 1 up to their number, each  *)
(* taken once.                                                             *)
LEMMA RankForm ==
  ASSUME NEW S, S \subseteq Nat, IsFiniteSet(S)
  PROVE  /\ Cardinality(S) \in Nat
         /\ \A x \in S : Rank(x, S) \in 1 .. Cardinality(S)
         /\ \A x, y \in S : Rank(x, S) = Rank(y, S) => x = y
         /\ \A r \in 1 .. Cardinality(S) : \E x \in S : Rank(x, S) = r
<1> DEFINE n == Cardinality(S)
           upto(x) == {y \in S : y <= x}
<1>1. n \in Nat
  BY FS_CardinalityType
<1>2. ASSUME NEW x \in S
      PROVE  IsFiniteSet(upto(x)) /\ Rank(x, S) = Cardinality(upto(x)) /\ Rank(x, S) \in 1 .. n
  <2>1. IsFiniteSet(upto(x)) /\ Cardinality(upto(x)) <= n /\ Cardinality(upto(x)) \in Nat
    <3>1. upto(x) \in SUBSET S
      OBVIOUS
    <3> HIDE DEF upto
    <3> QED
      BY <3>1, FS_Subset, FS_CardinalityType
  <2>2. x \in upto(x)
    BY <1>2
  <2>3. Rank(x, S) = Cardinality(upto(x))
    BY DEF Rank
  <2> HIDE DEF upto
  <2>4. Cardinality(upto(x)) # 0
    BY <2>1, <2>2, FS_EmptySet
  <2> QED
    BY <1>1, <2>1, <2>3, <2>4
<1>3. ASSUME NEW x \in S, NEW y \in S, x < y PROVE Rank(x, S) < Rank(y, S)
  <2>1. upto(x) \in SUBSET (upto(y) \ {y}) /\ y \in upto(y)
    <3>1. x \in Nat /\ y \in Nat
      OBVIOUS
    <3>2. ASSUME NEW z \in upto(x) PROVE z \in upto(y) \ {y}
      <4>1. z \in S /\ z \in Nat /\ z <= x
        OBVIOUS
      <4>2. z <= y /\ z # y
        BY <1>3, <3>1, <4>1
      <4> QED
        BY <4>1, <4>2
    <3>3. y <= y
      BY <3>1
    <3> QED
      BY <3>2, <3>3
  <2>2. /\ IsFiniteSet(upto(y)) /\ Rank(y, S) = Cardinality(upto(y)) /\ Rank(y, S) \in Nat
        /\ Rank(x, S) = Cardinality(upto(x)) /\ Rank(x, S) \in Nat
    BY <1>1, <1>2
  <2> HIDE DEF upto
  <2>3. IsFiniteSet(upto(y) \ {y}) /\ Cardinality(upto(y) \ {y}) = Cardinality(upto(y)) - 1
    BY <2>1, <2>2, FS_RemoveElement
  <2>4. Cardinality(upto(x)) <= Cardinality(upto(y) \ {y})
    BY <2>1, <2>3, FS_Subset
  <2> QED
    BY <2>2, <2>3, <2>4
<1>4. ASSUME NEW x \in S, NEW y \in S, Rank(x, S) = Rank(y, S) PROVE x = y
  <2>1. Rank(x, S) \in Nat /\ Rank(y, S) \in Nat /\ x \in Nat /\ y \in Nat
    <3>1. Rank(x, S) \in 1 .. n /\ Rank(y, S) \in 1 .. n
      BY <1>2
    <3> HIDE DEF n
    <3> QED
      BY <1>1, <3>1
  <2>2. ~(Rank(x, S) < Rank(y, S)) /\ ~(Rank(y, S) < Rank(x, S))
    BY <1>4, <2>1
  <2>3. ~(x < y) /\ ~(y < x)
    BY <1>3, <2>2
  <2> QED
    BY <2>1, <2>3
<1>5. \A r \in 1 .. n : \E x \in S : Rank(x, S) = r
  <2> DEFINE f == [x \in S |-> Rank(x, S)]
  <2>1. f \in Injection(S, 1 .. n)
    BY <1>2, <1>4 DEF Injection, IsInjective
  <2>2. IsFiniteSet(1 .. n) /\ Cardinality(1 .. n) = n
    BY <1>1, FS_Interval
  <2> HIDE DEF f
  <2>3. f \in Surjection(S, 1 .. n)
    BY <2>1, <2>2, FS_Injection
  <2> QED
    BY <2>3 DEF Surjection, f
<1> QED
  BY <1>1, <1>2, <1>4, <1>5

-----------------------------------------------------------------------------
(* A frame. *)

\* No finger is in two slots.
Distinct(d) == \A s, t \in Slots : d.held[s] = d.held[t] /\ d.held[s] # 0 => s = t
Pad(d) ==
  /\ d \in [size : Sizes \cup {0}, held : [Slots -> Fingers \cup {0}],
            track : [Slots -> Nat], next : Nat \ {0}]
  /\ IsPad(d) /\ Distinct(d)

\* What Replayed puts into one slot.
Takes(d, points, s) == TakenBy(d, points, s) # {}
HeldAfter(d, points, s) ==
  IF Takes(d, points, s) THEN CHOOSE f \in TakenBy(d, points, s) : TRUE
  ELSE Lifted(d, points)[s]

(* The slots of a frame and its new fingers: there is a slot for each, and   *)
(* each slot that gets one gets a single finger.                            *)
LEMMA PlacesMatch ==
  ASSUME NEW d, Pad(d), NEW points \in Points
  PROVE  /\ \A s \in Slots : \A f \in TakenBy(d, points, s) : TakenBy(d, points, s) = {f}
         /\ \A s, t \in Slots : TakenBy(d, points, s) \cap TakenBy(d, points, t) # {} => s = t
         /\ \A f \in New(d, points) : \E s \in Slots : f \in TakenBy(d, points, s)
         /\ \A s \in Slots : Takes(d, points, s) =>
              /\ s \in Free(d, points)
              /\ Rank(s, Free(d, points)) \in Nat \ {0}
              /\ Rank(s, Free(d, points)) <= Cardinality({t \in Slots : Takes(d, points, t)})
         /\ Cardinality({t \in Slots : Takes(d, points, t)}) \in Nat
<1> DEFINE free == Free(d, points)
           new == New(d, points)
           taken == {t \in Slots : Takes(d, points, t)}
<1>1. IsFiniteSet(Slots) /\ Cardinality(Slots) = SLOTS /\ Slots \subseteq Nat
  <2>1. SLOTS \in Nat /\ SLOTS \in Int /\ 1 \in Int
    OBVIOUS
  <2>2. /\ IsFiniteSet(1 .. SLOTS)
        /\ Cardinality(1 .. SLOTS) = IF 1 > SLOTS THEN 0 ELSE SLOTS - 1 + 1
    BY <2>1, FS_Interval
  <2>3. Cardinality(1 .. SLOTS) = SLOTS
    BY <2>1, <2>2
  <2> QED
    BY <2>1, <2>2, <2>3 DEF Slots
<1>2. free \subseteq Slots /\ IsFiniteSet(free) /\ free \subseteq Nat
  <2>1. free \in SUBSET Slots
    BY DEF Free
  <2> QED
    BY <1>1, <2>1, FS_Subset
<1>3. IsFiniteSet(points) /\ points \subseteq Nat \ {0} /\ Cardinality(points) <= SLOTS
      /\ points \subseteq Fingers
  <2>1. points \in SUBSET Fingers /\ IsFiniteSet(Fingers)
    BY DEF Points
  <2> QED
    BY <2>1, FS_Subset DEF Points
<1>4. new \subseteq points /\ IsFiniteSet(new) /\ new \subseteq Nat
  <2>1. new \in SUBSET points
    BY DEF New
  <2> QED
    BY <1>3, <2>1, FS_Subset
<1>5. /\ Cardinality(free) \in Nat
      /\ \A x \in free : Rank(x, free) \in 1 .. Cardinality(free)
      /\ \A x, y \in free : Rank(x, free) = Rank(y, free) => x = y
      /\ \A r \in 1 .. Cardinality(free) : \E x \in free : Rank(x, free) = r
  BY <1>2, RankForm
<1>6. /\ Cardinality(new) \in Nat
      /\ \A x \in new : Rank(x, new) \in 1 .. Cardinality(new)
      /\ \A x, y \in new : Rank(x, new) = Rank(y, new) => x = y
      /\ \A r \in 1 .. Cardinality(new) : \E x \in new : Rank(x, new) = r
  BY <1>4, RankForm
<1>7. Cardinality(new) <= Cardinality(free)
  <2> DEFINE kept == Slots \ free
             old == points \ new
             g == [s \in kept |-> d.held[s]]
  <2>1. \A s \in kept : d.held[s] \in old /\ d.held[s] # 0
    <3> SUFFICES ASSUME NEW s \in kept PROVE d.held[s] \in old /\ d.held[s] # 0
      OBVIOUS
    <3>1. Lifted(d, points)[s] # 0 /\ s \in Slots
      BY DEF Free
    <3>2. d.held[s] \in points /\ d.held[s] # 0
      BY <3>1 DEF Lifted
    <3>3. d.held[s] \in Contacts(d)
      BY <3>1, <3>2 DEF Contacts
    <3> QED
      BY <3>2, <3>3 DEF New
  <2>2. g \in Injection(kept, old)
    <3>1. g \in [kept -> old]
      BY <2>1
    <3>2. \A s, t \in kept : g[s] = g[t] => s = t
      BY <2>1 DEF Pad, Distinct
    <3> HIDE DEF g, kept, old
    <3> QED
      BY <3>1, <3>2 DEF Injection, IsInjective
  <2>3. IsFiniteSet(old) /\ Cardinality(old) = Cardinality(points) - Cardinality(new)
    <3>1. IsFiniteSet(points \ new)
          /\ Cardinality(points \ new) = Cardinality(points) - Cardinality(points \cap new)
      BY <1>3, FS_Difference
    <3>2. points \cap new = new
      BY <1>4
    <3> QED
      BY <3>1, <3>2
  <2>4. Cardinality(kept) = SLOTS - Cardinality(free)
    <3>1. Cardinality(Slots \ free) = Cardinality(Slots) - Cardinality(Slots \cap free)
      BY <1>1, FS_Difference
    <3>2. Slots \cap free = free
      BY <1>2
    <3> QED
      BY <1>1, <3>1, <3>2
  <2> HIDE DEF g, kept, old
  <2>5. Cardinality(kept) <= Cardinality(old)
    BY <2>2, <2>3, FS_Injection
  <2>6. Cardinality(points) \in Nat
    BY <1>3, FS_CardinalityType
  <2> HIDE DEF new, free
  <2> QED
    BY <1>3, <1>5, <1>6, <2>3, <2>4, <2>5, <2>6
<1>8. \A s \in Slots : TakenBy(d, points, s) =
        {f \in new : s \in free /\ Rank(f, new) = Rank(s, free)}
  BY DEF TakenBy
<1> HIDE DEF free, new
<1>9. \A s \in Slots : \A f \in TakenBy(d, points, s) : TakenBy(d, points, s) = {f}
  BY <1>6, <1>8
<1>10. \A s, t \in Slots : TakenBy(d, points, s) \cap TakenBy(d, points, t) # {} => s = t
  BY <1>5, <1>8
<1>11. \A f \in new : \E s \in Slots : f \in TakenBy(d, points, s)
  <2> SUFFICES ASSUME NEW f \in new PROVE \E s \in Slots : f \in TakenBy(d, points, s)
    OBVIOUS
  <2>1. Rank(f, new) \in 1 .. Cardinality(new)
    BY <1>6
  <2>2. Rank(f, new) \in 1 .. Cardinality(free)
    BY <1>5, <1>6, <1>7, <2>1
  <2>3. PICK s \in free : Rank(s, free) = Rank(f, new)
    BY <1>5, <2>2
  <2> QED
    BY <1>2, <1>8, <2>3
<1>12. IsFiniteSet(taken) /\ Cardinality(taken) \in Nat
  <2>1. taken \in SUBSET Slots
    OBVIOUS
  <2> QED
    BY <1>1, <2>1, FS_Subset, FS_CardinalityType
<1>13. ASSUME NEW s \in Slots, Takes(d, points, s)
       PROVE  s \in free /\ Rank(s, free) \in Nat \ {0} /\ Rank(s, free) <= Cardinality(taken)
  <2>1. PICK f \in new : s \in free /\ Rank(f, new) = Rank(s, free)
    BY <1>8, <1>13 DEF Takes
  <2>2. Rank(s, free) \in 1 .. Cardinality(new) /\ Rank(s, free) \in Nat \ {0}
    BY <1>5, <1>6, <2>1
  <2> DEFINE below == {t \in free : t <= s}
  <2>3. below \in SUBSET taken
    <3> SUFFICES ASSUME NEW t \in below PROVE t \in taken
      OBVIOUS
    <3>1. t \in free /\ t \in Slots /\ t <= s
      BY <1>2
    <3>2. Rank(t, free) \in 1 .. Cardinality(new)
      <4>1. {y \in free : y <= t} \in SUBSET below
        <5> SUFFICES ASSUME NEW y \in free, y <= t PROVE y <= s
          OBVIOUS
        <5>1. y \in Nat /\ t \in Nat /\ s \in Nat
          BY <1>1, <1>2, <3>1
        <5> QED
          BY <3>1, <5>1
      <4>2. IsFiniteSet(below)
        <5>1. below \in SUBSET free
          OBVIOUS
        <5> QED
          BY <1>2, <5>1, FS_Subset
      <4>3. Rank(t, free) <= Rank(s, free)
        <5> HIDE DEF below
        <5>1. Cardinality({y \in free : y <= t}) <= Cardinality(below)
          BY <4>1, <4>2, FS_Subset
        <5> QED
          BY <5>1 DEF Rank, below
      <4>4. Rank(t, free) \in 1 .. Cardinality(free)
        BY <1>5, <3>1
      <4> QED
        BY <1>5, <1>6, <2>2, <4>3, <4>4
    <3>3. PICK g \in new : Rank(g, new) = Rank(t, free)
      BY <1>6, <3>2
    <3>4. g \in TakenBy(d, points, t)
      BY <1>8, <3>1, <3>3
    <3> QED
      BY <3>1, <3>4 DEF Takes
  <2> HIDE DEF below, taken
  <2>4. Cardinality(below) <= Cardinality(taken)
    BY <1>12, <2>3, FS_Subset
  <2>5. Rank(s, free) = Cardinality(below)
    BY DEF Rank, below
  <2> QED
    BY <2>1, <2>2, <2>4, <2>5
<1> QED
  BY <1>9, <1>10, <1>11, <1>12, <1>13 DEF free, new

(* What a frame leaves on a device: the fingers of the frame and no other,   *)
(* each in one slot; one that was down keeps its slot and its id, and a new  *)
(* one has an id that was never given out.                                  *)
Keeps(d, e) ==
  \A s \in Slots : (d.size # 0 /\ d.size = e.size /\ e.held[s] # 0) =>
    \/ e.held[s] = d.held[s] /\ e.track[s] = d.track[s]
    \/ e.held[s] \notin Contacts(d) /\ e.track[s] \notin 1 .. d.next - 1

LEMMA FrameForm ==
  ASSUME NEW d, Pad(d), d # NoPad, NEW points \in Points
  PROVE  LET e == Replayed(d, points) IN
         Pad(e) /\ e.size = d.size /\ Contacts(e) = points /\ Keeps(d, e)
<1> DEFINE e == Replayed(d, points)
           free == Free(d, points)
           taken == {s \in Slots : Takes(d, points, s)}
           after == [s \in Slots |-> HeldAfter(d, points, s)]
           ids == [s \in Slots |-> IF Takes(d, points, s) THEN TrackId(d, Rank(s, free))
                                   ELSE d.track[s]]
<1>1. /\ d \in [size : Sizes \cup {0}, held : [Slots -> Fingers \cup {0}],
                track : [Slots -> Nat], next : Nat \ {0}]
      /\ d.track \in [Slots -> 0 .. d.next - 1] /\ d.size # 0 /\ Distinct(d)
  BY DEF Pad, IsPad
<1>2. e = [d EXCEPT !.held = after, !.track = ids, !.next = @ + Cardinality(taken)]
  <2> DEFINE got == {s \in Slots : TakenBy(d, points, s) # {}}
             held == [s \in Slots |-> IF s \in got THEN CHOOSE f \in TakenBy(d, points, s) : TRUE
                                      ELSE Lifted(d, points)[s]]
             track == [s \in Slots |-> IF s \in got THEN TrackId(d, Rank(s, free))
                                       ELSE d.track[s]]
  <2>1. e = [d EXCEPT !.held = held, !.track = track, !.next = @ + Cardinality(got)]
    BY DEF Replayed
  <2>2. got = taken
    BY DEF Takes
  <2>3. held = after
    BY DEF Takes, HeldAfter
  <2>4. track = ids
    BY DEF Takes
  <2> HIDE DEF got, held, track, e, after, ids, taken
  <2> QED
    BY <2>1, <2>2, <2>3, <2>4
<1>3. /\ e.size = d.size /\ e.held = after /\ e.track = ids
      /\ e.next = d.next + Cardinality(taken)
  <2> HIDE DEF after, ids, taken, e
  <2> QED
    BY <1>1, <1>2
<1>4. /\ \A s \in Slots : \A f \in TakenBy(d, points, s) : TakenBy(d, points, s) = {f}
      /\ \A s, t \in Slots : TakenBy(d, points, s) \cap TakenBy(d, points, t) # {} => s = t
      /\ \A f \in New(d, points) : \E s \in Slots : f \in TakenBy(d, points, s)
      /\ \A s \in Slots : Takes(d, points, s) =>
           s \in free /\ Rank(s, free) \in Nat \ {0} /\ Rank(s, free) <= Cardinality(taken)
      /\ Cardinality(taken) \in Nat
  BY PlacesMatch
<1>5. points \subseteq Fingers /\ 0 \notin Fingers
  BY DEF Points
<1>6. ASSUME NEW s \in Slots, Takes(d, points, s)
      PROVE  /\ after[s] \in TakenBy(d, points, s) /\ TakenBy(d, points, s) = {after[s]}
             /\ after[s] \in points \ Contacts(d)
  <2>1. after[s] \in TakenBy(d, points, s)
    BY <1>6 DEF Takes, HeldAfter
  <2> HIDE DEF after
  <2>2. TakenBy(d, points, s) = {after[s]}
    BY <1>4, <2>1
  <2> QED
    BY <2>1, <2>2 DEF TakenBy, New
<1>7. ASSUME NEW s \in Slots, ~Takes(d, points, s)
      PROVE  after[s] = IF d.held[s] \in points THEN d.held[s] ELSE 0
  BY <1>7 DEF HeldAfter, Lifted
<1>8. ASSUME NEW s \in Slots, after[s] # 0
      PROVE  after[s] \in points /\ (after[s] \in Contacts(d) => after[s] = d.held[s])
                                 /\ (Takes(d, points, s) <=> after[s] \notin Contacts(d))
  <2>1. CASE Takes(d, points, s)
    BY <1>6, <2>1
  <2>2. CASE ~Takes(d, points, s)
    <3>1. after[s] = d.held[s] /\ d.held[s] \in points
      BY <1>7, <1>8, <2>2
    <3>2. after[s] \in Contacts(d)
      BY <1>8, <3>1 DEF Contacts
    <3> QED
      BY <2>2, <3>1, <3>2
  <2> QED
    BY <2>1, <2>2
<1>9. Contacts(e) = points
  <2>1. ASSUME NEW f \in points PROVE \E s \in Slots : after[s] = f
    <3>1. CASE f \in New(d, points)
      <4>1. PICK s \in Slots : f \in TakenBy(d, points, s)
        BY <1>4, <3>1
      <4> QED
        BY <1>6, <4>1 DEF Takes
    <3>2. CASE f \notin New(d, points)
      <4>1. PICK s \in Slots : d.held[s] = f
        BY <3>2 DEF New, Contacts
      <4>2. Lifted(d, points)[s] = f /\ f # 0
        BY <1>5, <4>1 DEF Lifted
      <4>3. ~Takes(d, points, s)
        BY <1>4, <4>2 DEF Free
      <4> QED
        BY <1>7, <4>1, <4>3
    <3> QED
      BY <3>1, <3>2
  <2>2. \A s \in Slots : after[s] # 0 => after[s] \in points
    BY <1>8
  <2>3. 0 \notin points
    BY <1>5
  <2> HIDE DEF after, e
  <2> QED
    BY <1>3, <2>1, <2>2, <2>3 DEF Contacts
<1>10. Distinct(e)
  <2> SUFFICES ASSUME NEW s \in Slots, NEW t \in Slots, after[s] = after[t], after[s] # 0
               PROVE  s = t
    <3> HIDE DEF after, e
    <3> QED
      BY <1>3 DEF Distinct
  <2>1. CASE after[s] \in Contacts(d)
    <3>1. after[s] = d.held[s] /\ after[t] = d.held[t]
      BY <1>8, <2>1
    <3> HIDE DEF after
    <3> QED
      BY <1>1, <3>1 DEF Distinct
  <2>2. CASE after[s] \notin Contacts(d)
    <3>1. Takes(d, points, s) /\ Takes(d, points, t)
      BY <1>8, <2>2
    <3>2. after[s] \in TakenBy(d, points, s) /\ after[t] \in TakenBy(d, points, t)
      BY <1>6, <3>1
    <3> HIDE DEF after
    <3> QED
      BY <1>4, <3>2
  <2> QED
    BY <2>1, <2>2
<1>11. ASSUME NEW s \in Slots
       PROVE  /\ ids[s] \in 0 .. d.next + Cardinality(taken) - 1
              /\ Takes(d, points, s) => ids[s] >= d.next
              /\ ~Takes(d, points, s) => ids[s] = d.track[s]
  <2>1. d.track[s] \in 0 .. d.next - 1 /\ d.next \in Nat
    BY <1>1
  <2> HIDE DEF taken
  <2>2. CASE Takes(d, points, s)
    <3>1. ids[s] = d.next + Rank(s, free) - 1
      BY <2>2 DEF TrackId
    <3> HIDE DEF ids
    <3> QED
      BY <1>4, <2>1, <2>2, <3>1
  <2>3. CASE ~Takes(d, points, s)
    BY <1>4, <2>1, <2>3
  <2> QED
    BY <2>2, <2>3
<1>12. Pad(e)
  <2>1. e.held \in [Slots -> Fingers \cup {0}]
    <3>1. \A s \in Slots : after[s] \in Fingers \cup {0}
      BY <1>5, <1>8
    <3> QED
      BY <1>3, <3>1
  <2>2. e.next \in Nat \ {0}
    <3> HIDE DEF taken, e
    <3> QED
      BY <1>1, <1>3, <1>4
  <2>3. e.track \in [Slots -> 0 .. e.next - 1] /\ e.track \in [Slots -> Nat]
    <3>1. \A s \in Slots : ids[s] \in 0 .. e.next - 1 /\ ids[s] \in Nat
      <4> SUFFICES ASSUME NEW s \in Slots PROVE ids[s] \in 0 .. e.next - 1 /\ ids[s] \in Nat
        OBVIOUS
      <4>1. ids[s] \in 0 .. d.next + Cardinality(taken) - 1
        BY <1>11
      <4>2. e.next = d.next + Cardinality(taken) /\ d.next \in Nat /\ Cardinality(taken) \in Nat
        BY <1>1, <1>3, <1>4
      <4> HIDE DEF taken, e, ids
      <4>3. ids[s] \in 0 .. e.next - 1
        BY <4>1, <4>2
      <4> QED
        BY <2>2, <4>3
    <3> HIDE DEF taken, e
    <3> QED
      BY <1>3, <3>1
  <2>4. e \in [size : Sizes \cup {0}, held : [Slots -> Fingers \cup {0}],
               track : [Slots -> Nat], next : Nat \ {0}]
    <3> HIDE DEF after, ids, taken, e
    <3> QED
      BY <1>1, <1>2, <1>3, <2>1, <2>2, <2>3
  <2> HIDE DEF e
  <2> QED
    BY <1>1, <1>3, <1>10, <2>1, <2>2, <2>3, <2>4 DEF Pad, IsPad
<1>13. Keeps(d, e)
  <2> SUFFICES ASSUME NEW s \in Slots, after[s] # 0
               PROVE  \/ after[s] = d.held[s] /\ ids[s] = d.track[s]
                      \/ after[s] \notin Contacts(d) /\ ids[s] \notin 1 .. d.next - 1
    <3> HIDE DEF after, ids, e
    <3> QED
      BY <1>3 DEF Keeps
  <2>1. CASE after[s] \in Contacts(d)
    BY <1>8, <1>11, <2>1
  <2>2. CASE after[s] \notin Contacts(d)
    <3>1. ids[s] >= d.next /\ ids[s] \in Nat /\ d.next \in Nat
      <4>1. Takes(d, points, s)
        BY <1>8, <2>2
      <4> HIDE DEF taken, ids
      <4> QED
        BY <1>1, <1>4, <1>11, <4>1
    <3> HIDE DEF ids
    <3> QED
      BY <2>2, <3>1
  <2> QED
    BY <2>1, <2>2
<1> QED
  BY <1>3, <1>9, <1>12, <1>13

-----------------------------------------------------------------------------
(* An operation. *)

(* No device, and a new one.                                               *)
LEMMA FreshForm ==
  /\ Pad(NoPad) /\ NoPad.size = 0
  /\ \A size \in Sizes : Pad(Fresh(size)) /\ Fresh(size).size = size
<1>1. \A size \in Sizes \cup {0} :
        /\ Fresh(size) \in [size : Sizes \cup {0}, held : [Slots -> Fingers \cup {0}],
                            track : [Slots -> Nat], next : Nat \ {0}]
        /\ Fresh(size).size = size /\ Fresh(size).next = 1
        /\ \A s \in Slots : Fresh(size).held[s] = 0 /\ Fresh(size).track[s] = 0
  BY DEF Fresh
<1>2. \A size \in Sizes \cup {0} : Fresh(size).track \in [Slots -> 0 .. Fresh(size).next - 1]
  BY DEF Fresh
<1>3. 0 \notin Sizes
  OBVIOUS
<1> QED
  BY <1>1, <1>2, <1>3 DEF NoPad, Pad, IsPad, Distinct

(* A device is there exactly if it has a size.                              *)
LEMMA PadSize ==
  ASSUME NEW d, Pad(d)
  PROVE  d = NoPad <=> d.size = 0
  BY FreshForm DEF Pad, IsPad

(* The forms an operation takes.                                           *)
LEMMA OpForms ==
  /\ End \in Ops /\ End.is = "end" /\ NoOp.is = "none"
  /\ \A size \in Sizes : Begin(size) \in Ops /\ Begin(size).is = "begin"
  /\ \A points \in Points : Frame(points) \in Ops /\ Frame(points).is = "frame"
  /\ \A op \in Ops :
       \/ op.is = "begin" /\ op.size \in Sizes
       \/ op.is = "frame" /\ op.points \in Points
       \/ op.is = "end"
<1>1. End.is = "end" /\ NoOp.is = "none"
  BY DEF End, NoOp, Op
<1>2. \A size \in Sizes : Begin(size).is = "begin" /\ Begin(size).size = size
  BY DEF Begin, Op
<1>3. \A points \in Points : Frame(points).is = "frame" /\ Frame(points).points = points
  BY DEF Frame, Op
<1> QED
  BY <1>1, <1>2, <1>3 DEF Ops

\* What the device shows when n has had the last word.
Shows(d, n) ==
  CASE n.is = "end" -> d = NoPad
    [] n.is = "begin" -> d.size = n.size
    [] n.is = "frame" -> d = NoPad \/ Contacts(d) = n.points
    [] OTHER -> TRUE

(* An operation makes the device what it says, opens it with a begin and     *)
(* closes it with an end only, and keeps the contacts that stay.            *)
LEMMA AfterForm ==
  ASSUME NEW d, Pad(d), NEW op \in Ops
  PROVE  /\ Pad(After(d, op)) /\ Shows(After(d, op), op) /\ Keeps(d, After(d, op))
         /\ op.is = "begin" => After(d, op) # NoPad
         /\ op.is = "end" => After(d, op) = NoPad
         /\ op.is = "frame" => (After(d, op) # NoPad <=> d # NoPad)
<1>1. d = NoPad <=> d.size = 0
  BY PadSize
<1>2. CASE op.is = "begin" /\ d.size = op.size
  <2>1. After(d, op) = d /\ op.size \in Sizes
    BY <1>2, OpForms DEF After
  <2>2. d # NoPad
    BY <1>1, <1>2, <2>1
  <2> QED
    BY <1>2, <2>1, <2>2 DEF Shows, Keeps
<1>3. CASE op.is = "begin" /\ d.size # op.size
  <2>1. After(d, op) = Fresh(op.size) /\ op.size \in Sizes
    BY <1>3, OpForms DEF After
  <2>2. Pad(Fresh(op.size)) /\ Fresh(op.size).size = op.size /\ Fresh(op.size) # NoPad
    BY <2>1, FreshForm
  <2> QED
    BY <1>3, <2>1, <2>2 DEF Shows, Keeps
<1>4. CASE op.is = "frame" /\ d = NoPad
  <2>1. After(d, op) = NoPad
    BY <1>4 DEF After
  <2> QED
    BY <1>1, <1>4, <2>1 DEF Shows, Keeps
<1>5. CASE op.is = "frame" /\ d # NoPad
  <2>1. After(d, op) = Replayed(d, op.points) /\ op.points \in Points
    BY <1>5, OpForms DEF After
  <2> DEFINE e == Replayed(d, op.points)
  <2>2. Pad(e) /\ e.size = d.size /\ Contacts(e) = op.points /\ Keeps(d, e)
    BY <1>5, <2>1, FrameForm
  <2> HIDE DEF e
  <2>3. e # NoPad
    BY <1>1, <1>5, <2>2, PadSize
  <2> QED
    BY <1>5, <2>1, <2>2, <2>3 DEF Shows, e
<1>6. CASE op.is = "end"
  <2>1. After(d, op) = NoPad
    BY <1>6 DEF After
  <2> QED
    BY <1>1, <1>6, <2>1, FreshForm DEF Shows, Keeps
<1> QED
  BY <1>2, <1>3, <1>4, <1>5, <1>6, OpForms

-----------------------------------------------------------------------------
(* Why the properties hold.  None is inductive while tasks are on their way: *)
(* the highest number is either applied, and then the device shows what its  *)
(* operation says, or its task still comes.  For the owner it is the last    *)
(* begin or end among the tasks that counts, unless one of them has been     *)
(* overtaken already and will be found out.                                *)

Ordered ==
  /\ order \in Nat /\ lastApplied \in 0 .. order
  /\ tasks \subseteq [order : 1 .. order, op : Ops]
  /\ \A t, u \in tasks : t.order = u.order => t = u

Fields ==
  /\ Pad(pad) /\ Pad(usb) /\ queue \in Seq(Ops)
  /\ showing \in [Peers -> Sizes \cup {0}]

LastWord ==
  IF lastApplied = order THEN Shows(pad, newest)
  ELSE \E t \in tasks : t.order = order /\ t.op = newest

\* The tasks that open or close the device.
Turns == {t \in tasks : t.op.is # "frame"}

Owned ==
  \/ overtaken
  \/ \E t \in Turns : t.order <= lastApplied
  \/ Turns = {} /\ (pad # NoPad <=> owner # NoOne)
  \/ \E t \in Turns : /\ t.order > lastApplied /\ \A u \in Turns : u.order <= t.order
                      /\ t.op.is = "begin" <=> owner # NoOne

PadInv == Ordered /\ Fields /\ LastWord /\ Owned

(* The initial state satisfies the invariant.                              *)
LEMMA InitPad == Init => PadInv
<1> SUFFICES ASSUME Init PROVE PadInv
  OBVIOUS
<1>1. Ordered /\ LastWord
  BY OpForms DEF Init, Ordered, LastWord, Shows
<1>2. Fields
  BY FreshForm DEF Init, Fields
<1>3. Owned
  BY DEF Init, Owned, Turns
<1> QED
  BY <1>1, <1>2, <1>3 DEF PadInv

(* A step that leaves the plugin and its effector alone.                    *)
LEMMA StillKeeps ==
  ASSUME PadInv, UNCHANGED <<owner, order, tasks, newest, lastApplied, pad, overtaken>>,
         Fields'
  PROVE  PadInv'
  BY DEF PadInv, Ordered, LastWord, Owned, Turns

\* Whose stream an operation leaves open.
Turned(op) ==
  /\ op.is = "begin" => owner' # NoOne
  /\ op.is = "end" => owner' = NoOne
  /\ op.is = "frame" => owner' = owner

(* An operation is issued.                                                  *)
LEMMA IssueKeeps ==
  ASSUME PadInv, NEW op \in Ops, Issue(op), Turned(op),
         UNCHANGED <<lastApplied, pad, overtaken>>, Fields'
  PROVE  PadInv'
<1> DEFINE n == [order |-> order + 1, op |-> op]
<1>1. Ordered /\ Owned
  BY DEF PadInv
<1>2. /\ order \in Nat /\ lastApplied \in 0 .. order /\ order' = order + 1 /\ tasks' = tasks \cup {n}
      /\ newest' = op /\ \A t \in tasks : t.order \in 1 .. order
      /\ n.order = order + 1 /\ n.op = op
  BY <1>1 DEF Ordered, Issue
<1>3. Ordered'
  <2>1. n \in [order : 1 .. order + 1, op : Ops]
    BY <1>2
  <2>2. \A t \in tasks : t \in [order : 1 .. order + 1, op : Ops] /\ t.order # order + 1
    <3> SUFFICES ASSUME NEW t \in tasks
                 PROVE  t \in [order : 1 .. order + 1, op : Ops] /\ t.order # order + 1
      OBVIOUS
    <3>1. t \in [order : 1 .. order, op : Ops] /\ t.order \in 1 .. order
      BY <1>1, <1>2 DEF Ordered
    <3>2. t.order \in 1 .. order + 1 /\ t.order # order + 1
      BY <1>2, <3>1
    <3> QED
      BY <3>1, <3>2
  <2> HIDE DEF n
  <2> QED
    BY <1>1, <1>2, <2>1, <2>2 DEF Ordered
<1>4. LastWord'
  <2> HIDE DEF n
  <2>1. lastApplied' # order'
    BY <1>2
  <2> QED
    BY <1>2, <2>1 DEF LastWord
<1>5. Owned'
  <2> HIDE DEF n
  <2>1. CASE op.is = "frame"
    <3>1. Turns' = Turns
      BY <1>2, <2>1 DEF Turns
    <3> QED
      BY <1>1, <2>1, <3>1 DEF Owned, Turned
  <2>2. CASE op.is # "frame"
    <3>1. n \in Turns' /\ n.order > lastApplied'
      BY <1>2, <2>2 DEF Turns
    <3>2. \A u \in Turns' : u.order <= n.order
      BY <1>2 DEF Turns
    <3>3. op.is = "begin" <=> owner' # NoOne
      BY <2>2, OpForms DEF Turned
    <3> QED
      BY <1>2, <3>1, <3>2, <3>3 DEF Owned
  <2> QED
    BY <2>1, <2>2
<1> QED
  BY <1>3, <1>4, <1>5 DEF PadInv

(* A task reaches the device: it applies its operation, is too late, or      *)
(* fails.                                                                  *)
LEMMA RunKeeps ==
  ASSUME PadInv, NEW t \in tasks, Run(t) \/ RunFails(t)
  PROVE  PadInv' /\ Keeps(pad, pad')
<1>1. Ordered /\ Fields /\ LastWord /\ Owned
  BY DEF PadInv
<1>2. /\ t.order \in 1 .. order /\ t.op \in Ops /\ order \in Nat /\ lastApplied \in 0 .. order
      /\ \A u \in tasks : u.order \in 1 .. order /\ (u.order = t.order => u = t)
  BY <1>1 DEF Ordered
<1>3. UNCHANGED <<order, owner, usb, queue, showing>> /\ tasks' = tasks \ {t}
  BY DEF Run, RunFails, plugin, cable, phones
<1>4. /\ Pad(After(pad, t.op)) /\ Shows(After(pad, t.op), t.op) /\ Keeps(pad, After(pad, t.op))
      /\ t.op.is = "begin" => After(pad, t.op) # NoPad
      /\ t.op.is = "end" => After(pad, t.op) = NoPad
      /\ t.op.is = "frame" => (After(pad, t.op) # NoPad <=> pad # NoPad)
  BY <1>1, <1>2, AfterForm DEF Fields
<1>5. Keeps(pad, pad)
  BY DEF Keeps
<1>6. Turns' = Turns \ {t} /\ (t \in Turns <=> t.op.is # "frame")
  BY <1>3 DEF Turns
<1>7. lastApplied' \in 0 .. order => Ordered'
  BY <1>1, <1>3 DEF Ordered
<1>8. CASE Run(t) /\ ShouldApply(t.order)
  <2>1. lastApplied' = t.order /\ pad' = After(pad, t.op) /\ UNCHANGED <<overtaken, newest>>
    BY <1>8 DEF Run
  <2>2. t.order > lastApplied
    BY <1>8 DEF ShouldApply
  <2>3. Ordered' /\ Fields'
    BY <1>1, <1>2, <1>3, <1>4, <1>7, <2>1 DEF Fields
  <2>4. LastWord'
    <3>1. PICK u \in tasks : u.order = order /\ u.op = newest
      BY <1>1, <1>2, <2>2 DEF LastWord
    <3>2. CASE t.order = order
      <4>1. t.op = newest
        BY <1>2, <3>1, <3>2
      <4> QED
        BY <1>3, <1>4, <2>1, <3>2, <4>1 DEF LastWord
    <3>3. CASE t.order # order
      BY <1>3, <2>1, <3>1, <3>3 DEF LastWord
    <3> QED
      BY <3>2, <3>3
  <2>5. Owned'
    <3>1. \A u \in Turns : u.order \in Nat /\ (u.order = t.order => u = t)
      BY <1>2 DEF Turns
    <3>2. CASE overtaken
      BY <2>1, <3>2 DEF Owned
    <3>3. ASSUME NEW u \in Turns, u.order <= lastApplied PROVE Owned'
      <4>1. u.order <= t.order /\ u # t
        BY <1>2, <2>2, <3>1, <3>3
      <4> QED
        BY <1>6, <2>1, <4>1 DEF Owned
    <3>4. CASE Turns = {} /\ (pad # NoPad <=> owner # NoOne)
      BY <1>3, <1>4, <1>6, <2>1, <3>4 DEF Owned
    <3>5. ASSUME NEW u \in Turns, u.order > lastApplied, \A v \in Turns : v.order <= u.order,
                 u.op.is = "begin" <=> owner # NoOne
          PROVE  Owned'
      <4>1. CASE u.order > t.order
        <5>1. u # t
          BY <1>2, <4>1
        <5> QED
          BY <1>3, <1>6, <2>1, <3>5, <4>1, <5>1 DEF Owned
      <4>2. CASE u = t /\ Turns = {t}
        <5>1. pad' # NoPad <=> owner' # NoOne
          BY <1>2, <1>3, <1>4, <1>6, <2>1, <3>5, <4>2, OpForms
        <5> QED
          BY <1>6, <4>2, <5>1 DEF Owned
      <4>3. CASE u.order <= t.order /\ Turns # {t}
        <5>1. PICK v \in Turns : v # t
          BY <3>5, <4>3
        <5>2. v.order <= t.order
          BY <1>2, <3>1, <3>5, <4>3, <5>1
        <5> QED
          BY <1>6, <2>1, <5>1, <5>2 DEF Owned
      <4> QED
        BY <1>2, <3>1, <3>5, <4>1, <4>2, <4>3
    <3> QED
      BY <1>1, <3>2, <3>3, <3>4, <3>5 DEF Owned
  <2> QED
    BY <1>4, <2>1, <2>3, <2>4, <2>5 DEF PadInv
<1>9. CASE Run(t) /\ ~ShouldApply(t.order)
  <2>1. UNCHANGED <<lastApplied, pad, newest>> /\ overtaken' = (overtaken \/ t.op.is # "frame")
    BY <1>9 DEF Run
  <2>2. t.order <= lastApplied
    BY <1>2, <1>9 DEF ShouldApply
  <2>3. Ordered' /\ Fields'
    BY <1>1, <1>2, <1>3, <1>7, <2>1 DEF Fields
  <2>4. LastWord'
    <3>1. CASE lastApplied = order
      BY <1>1, <1>3, <2>1, <3>1 DEF LastWord
    <3>2. CASE lastApplied # order
      <4>1. PICK u \in tasks : u.order = order /\ u.op = newest
        BY <1>1, <3>2 DEF LastWord
      <4>2. u # t
        BY <1>2, <2>2, <3>2, <4>1
      <4> QED
        BY <1>3, <2>1, <3>2, <4>1, <4>2 DEF LastWord
    <3> QED
      BY <3>1, <3>2
  <2>5. Owned'
    <3>1. CASE t.op.is = "frame"
      <4>1. Turns' = Turns /\ (overtaken => overtaken')
        BY <1>6, <2>1, <3>1
      <4> QED
        BY <1>1, <1>3, <2>1, <4>1 DEF Owned
    <3>2. CASE t.op.is # "frame"
      BY <2>1, <3>2 DEF Owned
    <3> QED
      BY <3>1, <3>2
  <2> QED
    BY <1>5, <2>1, <2>3, <2>4, <2>5 DEF PadInv
<1>10. CASE RunFails(t)
  <2>1. /\ lastApplied' = t.order /\ overtaken' /\ UNCHANGED pad
        /\ newest' = IF t.order = order THEN NoOp ELSE newest
        /\ t.order > lastApplied
    BY <1>10 DEF RunFails, ShouldApply
  <2>2. Ordered' /\ Fields' /\ Owned'
    BY <1>1, <1>2, <1>3, <1>7, <2>1 DEF Fields, Owned
  <2>3. LastWord'
    <3>1. CASE t.order = order
      BY <1>3, <2>1, <3>1, OpForms DEF LastWord, Shows
    <3>2. CASE t.order # order
      <4>1. PICK u \in tasks : u.order = order /\ u.op = newest
        BY <1>1, <1>2, <2>1 DEF LastWord
      <4> QED
        BY <1>3, <2>1, <3>2, <4>1 DEF LastWord
    <3> QED
      BY <3>1, <3>2
  <2> QED
    BY <1>5, <2>1, <2>2, <2>3 DEF PadInv
<1> QED
  BY <1>8, <1>9, <1>10

(* A message of a phone reaches the plugin, if it has a session.             *)
LEMMA MessageKeeps ==
  ASSUME PadInv, NEW p \in Peers, NEW op \in Ops, OnMessage(p, op),
         UNCHANGED <<lastApplied, pad, overtaken>>, Fields'
  PROVE  PadInv'
<1>1. CASE p \in connected
  <2>1. Issue(op) /\ owner' = OwnerAfter(p, op)
    BY <1>1 DEF OnMessage
  <2>2. Turned(op)
    BY <2>1 DEF OwnerAfter, Turned
  <2> QED
    BY <2>1, <2>2, IssueKeeps
<1>2. CASE p \notin connected
  BY <1>2, StillKeeps DEF OnMessage
<1> QED
  BY <1>1, <1>2

(* What a phone sends.                                                     *)
LEMMA SendKeeps ==
  ASSUME PadInv, NEW p \in Peers, NEW op \in Ops, Send(p, op),
         showing' \in [Peers -> Sizes \cup {0}]
  PROVE  PadInv' /\ UNCHANGED <<pad, usb>>
<1>1. UNCHANGED <<lastApplied, pad, overtaken, usb>>
  BY DEF Send
<1>2. queue' \in Seq(Ops)
  <2>1. queue' = queue \/ queue' = Append(queue, op)
    BY DEF Send
  <2>2. queue \in Seq(Ops)
    BY DEF PadInv, Fields
  <2> QED
    BY <2>1, <2>2
<1>3. Fields'
  BY <1>1, <1>2 DEF PadInv, Fields
<1>4. CASE OverUsb(p) /\ p \in over
  BY <1>1, <1>3, <1>4, MessageKeeps, OpForms DEF Send
<1>5. CASE OverUsb(p) /\ p \notin over
  BY <1>1, <1>3, <1>5, StillKeeps DEF Send
<1>6. CASE ~OverUsb(p)
  BY <1>1, <1>3, <1>6, MessageKeeps DEF Send
<1> QED
  BY <1>1, <1>4, <1>5, <1>6

(* Every step preserves the invariant and keeps the contacts of both         *)
(* devices.                                                                *)
LEMMA StepPad ==
  ASSUME PadInv, [Next]_vars
  PROVE  PadInv' /\ Keeps(pad, pad') /\ Keeps(usb, usb')
<1>1. Fields
  BY DEF PadInv
<1>2. \A d : Keeps(d, d)
  BY DEF Keeps
<1>3. CASE UNCHANGED vars
  <2>1. UNCHANGED <<owner, order, tasks, newest, lastApplied, pad, overtaken, usb, queue, showing>>
    BY <1>3 DEF vars, plugin, device, cable, phones
  <2>2. Fields'
    BY <1>1, <2>1 DEF Fields
  <2> QED
    BY <1>2, <2>1, <2>2, StillKeeps
<1>4. ASSUME NEW p \in Peers, PeerConnected(p) \/ PhoneSuspended(p) \/ PhoneResumed(p)
      PROVE  PadInv' /\ Keeps(pad, pad') /\ Keeps(usb, usb')
  <2>1. UNCHANGED <<owner, order, tasks, newest, lastApplied, pad, overtaken, usb, queue, showing>>
    BY <1>4 DEF PeerConnected, PhoneSuspended, PhoneResumed, plugin, device, cable, phones
  <2>2. Fields'
    BY <1>1, <2>1 DEF Fields
  <2> QED
    BY <1>2, <2>1, <2>2, StillKeeps
<1>5. ASSUME NEW p \in Peers, PeerDisconnected(p)
      PROVE  PadInv' /\ Keeps(pad, pad') /\ Keeps(usb, usb')
  <2>1. UNCHANGED <<lastApplied, pad, overtaken, usb, queue, showing>>
    BY <1>5 DEF PeerDisconnected, cable, phones
  <2>2. Fields'
    BY <1>1, <2>1 DEF Fields
  <2>3. CASE owner = p
    <3>1. Issue(End) /\ Turned(End)
      BY <1>5, <2>3, OpForms DEF PeerDisconnected, Turned
    <3> QED
      BY <1>2, <2>1, <2>2, <3>1, IssueKeeps, OpForms
  <2>4. CASE owner # p
    BY <1>2, <1>5, <2>1, <2>2, <2>4, StillKeeps DEF PeerDisconnected
  <2> QED
    BY <2>3, <2>4
<1>6. ASSUME NEW p \in Peers, NEW op \in Ops, Send(p, op), showing' \in [Peers -> Sizes \cup {0}]
      PROVE  PadInv' /\ Keeps(pad, pad') /\ Keeps(usb, usb')
  <2>1. PadInv' /\ UNCHANGED <<pad, usb>>
    BY <1>6, SendKeeps
  <2> QED
    BY <1>2, <2>1
<1>7. ASSUME NEW p \in Peers, Phone(p)
      PROVE  PadInv' /\ Keeps(pad, pad') /\ Keeps(usb, usb')
  <2> DEFINE Sent == /\ \E op \in Ops : Send(p, op)
                     /\ showing' \in [Peers -> Sizes \cup {0}]
  <2>1. showing \in [Peers -> Sizes \cup {0}]
    BY <1>1 DEF Fields
  <2>2. ASSUME NEW size \in Sizes, PhoneBegin(p, size) PROVE Sent
    BY <2>1, <2>2, OpForms DEF PhoneBegin
  <2>3. CASE PhoneReplay(p)
    <3>1. showing[p] \in Sizes
      BY <2>1, <2>3 DEF PhoneReplay
    <3>2. Sent
      BY <2>1, <2>3, <3>1, OpForms DEF PhoneReplay
    <3> QED
      BY <1>6, <3>2
  <2>4. ASSUME NEW points \in Points, PhoneFrame(p, points) PROVE Sent
    BY <2>1, <2>4, OpForms DEF PhoneFrame
  <2>5. CASE PhoneEnd(p)
    <3>1. Sent
      BY <2>1, <2>5, OpForms DEF PhoneEnd
    <3> QED
      BY <1>6, <3>1
  <2>6. Sent => PadInv' /\ Keeps(pad, pad') /\ Keeps(usb, usb')
    BY <1>6
  <2> HIDE DEF Sent
  <2> QED
    BY <1>4, <1>7, <2>2, <2>3, <2>4, <2>5, <2>6 DEF Phone
<1>8. ASSUME NEW t \in tasks, Run(t) \/ RunFails(t)
      PROVE  PadInv' /\ Keeps(pad, pad') /\ Keeps(usb, usb')
  <2>1. PadInv' /\ Keeps(pad, pad')
    BY <1>8, RunKeeps
  <2>2. UNCHANGED usb
    BY <1>8 DEF Run, RunFails, cable
  <2> QED
    BY <1>2, <2>1, <2>2
<1>9. ASSUME UNCHANGED <<owner, order, tasks, newest, lastApplied, pad, overtaken, showing>>,
             queue' \in Seq(Ops), Pad(usb'), Keeps(usb, usb')
      PROVE  PadInv' /\ Keeps(pad, pad') /\ Keeps(usb, usb')
  <2>1. Fields'
    BY <1>1, <1>9 DEF Fields
  <2> QED
    BY <1>2, <1>9, <2>1, StillKeeps
<1>10. Pad(usb) /\ queue \in Seq(Ops)
  BY <1>1 DEF Fields
<1>11. ASSUME \/ \E p \in Cabled : Attached(p) \/ Detached(p)
              \/ MuxGone \/ Open \/ Retry
       PROVE  PadInv' /\ Keeps(pad, pad') /\ Keeps(usb, usb')
  <2>1. UNCHANGED <<owner, order, tasks, newest, lastApplied, pad, overtaken, showing, queue, usb>>
    BY <1>11 DEF Attached, Detached, MuxGone, Open, Retry, plugin, device, phones
  <2> QED
    BY <1>2, <1>9, <1>10, <2>1
<1>12. CASE Play
  <2>1. UNCHANGED <<owner, order, tasks, newest, lastApplied, pad, overtaken, showing>>
    BY <1>12 DEF Play, plugin, device, phones
  <2>2. queue # <<>> /\ queue' = Tail(queue) /\ usb' = After(usb, Head(queue))
    BY <1>12 DEF Play
  <2>3. Head(queue) \in Ops /\ Tail(queue) \in Seq(Ops)
    BY <1>10, <2>2
  <2>4. Pad(usb') /\ Keeps(usb, usb')
    BY <1>10, <2>2, <2>3, AfterForm
  <2> QED
    BY <1>9, <2>1, <2>2, <2>3, <2>4
<1>13. CASE Stall
  <2>1. /\ UNCHANGED <<owner, order, tasks, newest, lastApplied, pad, overtaken, showing, queue>>
        /\ usb' = IF usb = NoPad THEN usb ELSE Replayed(usb, {})
    BY <1>13 DEF Stall, plugin, device, phones
  <2>2. {} \in Points
    <3>1. Cardinality({}) = 0 /\ 0 <= SLOTS
      BY FS_EmptySet
    <3> QED
      BY <3>1 DEF Points
  <2>3. Pad(usb') /\ Keeps(usb, usb')
    BY <1>2, <1>10, <2>1, <2>2, FrameForm
  <2> QED
    BY <1>9, <1>10, <2>1, <2>3
<1>14. CASE SessionEnds \/ PlayFails \/ StallFails
  <2>1. /\ UNCHANGED <<owner, order, tasks, newest, lastApplied, pad, overtaken, showing>>
        /\ usb' = NoPad /\ queue' = <<>>
    BY <1>14 DEF SessionEnds, PlayFails, StallFails, Refused, Over, plugin, device, phones
  <2>2. Pad(usb') /\ Keeps(usb, usb')
    BY <2>1, FreshForm DEF Keeps
  <2> QED
    BY <1>9, <2>1, <2>2
<1> QED
  BY <1>3, <1>4, <1>5, <1>7, <1>8, <1>11, <1>12, <1>13, <1>14 DEF Next

-----------------------------------------------------------------------------
(* Whatever order the tasks of a stream reach the device in, once none is    *)
(* left the device shows what the newest operation says: should_apply and    *)
(* the plugin's counter are enough.                                        *)
THEOREM NewestHasLastWord == Spec => []LastWordCounts
<1>1. PadInv => LastWordCounts
  BY DEF PadInv, LastWord, LastWordCounts, Shows
<1>2. PadInv /\ [Next]_vars => PadInv'
  BY StepPad
<1> QED
  BY InitPad, <1>1, <1>2, PTL DEF Spec

(* Unless a begin or an end was overtaken, a device is left behind only      *)
(* while its stream has an owner, whoever came and went.                    *)
THEOREM DeviceHasOwner == Spec => []OpenIffOwned
<1>1. PadInv => OpenIffOwned
  BY DEF PadInv, Owned, Turns, OpenIffOwned
<1>2. PadInv /\ [Next]_vars => PadInv'
  BY StepPad
<1> QED
  BY InitPad, <1>1, <1>2, PTL DEF Spec

(* No step of Slots::frame moves a finger that stays down to another slot or *)
(* id, or gives a finger an id that was in use, on either device.           *)
THEOREM ContactsAreKept == Spec => KeepsContact
<1>1. PadInv /\ [Next]_vars => PadInv' /\ Keeps(pad, pad') /\ Keeps(usb, usb')
  BY StepPad
<1>2. Keeps(pad, pad') /\ Keeps(usb, usb') =>
        \A d \in {<<pad, pad'>>, <<usb, usb'>>} : \A s \in Slots :
          (d[1].size # 0 /\ d[1].size = d[2].size /\ d[2].held[s] # 0) =>
            \/ d[2].held[s] = d[1].held[s] /\ d[2].track[s] = d[1].track[s]
            \/ d[2].held[s] \notin Contacts(d[1]) /\ d[2].track[s] \notin 1 .. d[1].next - 1
  BY DEF Keeps
<1> QED
  BY InitPad, <1>1, <1>2, PTL DEF Spec, KeepsContact
=============================================================================
