-------------------------- MODULE FreshnessProofs --------------------------
(***************************************************************************)
(* Proofs about Freshness for every set of links and openers, every skew   *)
(* and every bound on the clocks.                                          *)
(***************************************************************************)
EXTENDS Freshness, TLAPS

USE NoneAssumption, BoundsAssumption

(* Why AnsweredOnce holds.  It is not inductive: an opener that was        *)
(* answered has to be remembered in memory, and on disk unless the last    *)
(* write failed; and the opener about to be answered has to be the one the *)
(* watermark stands at, and new.                                           *)

Answered(o) == times[o] # 0

Remembered ==
  \A o \in Openers : Answered(o) =>
    /\ stamp[o] # 0
    /\ intact /\ record.known => stamp[o] <= record.seen
    /\ intact /\ ~unsaved /\ disk.known => stamp[o] <= disk.seen

AboutToAnswer ==
  todo.link # NoLink =>
    LET o == carries[todo.link] IN
      /\ links[todo.link] = "up"
      /\ record.known
      /\ stamp[o] # 0 /\ stamp[o] = record.seen
      /\ intact => ~Answered(o)

MemoryInv == TypeOK /\ StoreIsCurrent /\ Remembered /\ AboutToAnswer /\ AnsweredOnce

(* The initial state satisfies the invariant. *)
LEMMA InitMemory == Init => MemoryInv
<1> SUFFICES ASSUME Init PROVE MemoryInv
  OBVIOUS
<1>1. record \in Record /\ disk \in Record /\ todo \in Todo
  BY DEF Init, Record, Todo, Nothing
<1>2. TypeOK
  BY <1>1 DEF Init, TypeOK, Nothing
<1>3. StoreIsCurrent /\ AboutToAnswer
  BY DEF Init, StoreIsCurrent, AboutToAnswer, Nothing
<1>4. Remembered /\ AnsweredOnce
  BY DEF Init, Remembered, Answered, AnsweredOnce
<1> QED
  BY <1>2, <1>3, <1>4 DEF MemoryInv

(* Every step preserves it: one case per action. *)
LEMMA StepMemory == MemoryInv /\ [Next]_vars => MemoryInv'
<1> SUFFICES ASSUME MemoryInv, [Next]_vars PROVE MemoryInv'
  OBVIOUS
<1> USE DEF MemoryInv, TypeOK, StoreIsCurrent, Remembered, AboutToAnswer, AnsweredOnce,
            Answered, Record, Todo, Nothing, Idle
<1>1. CASE World
  <2>1. ASSUME NEW o \in Openers, NEW l \in Links, NEW ts \in 1 .. MaxClock,
               PeerDials(o, l, ts)
        PROVE  MemoryInv'
    BY <2>1 DEF PeerDials
  <2>2. ASSUME NEW o \in Openers, NEW l \in Links, Redelivered(o, l) PROVE MemoryInv'
    BY <2>2 DEF Redelivered
  <2>3. ASSUME NEW t \in 1 .. MaxClock, ClockSet(t) PROVE MemoryInv'
    BY <2>3 DEF ClockSet
  <2> QED
    BY <1>1, <2>1, <2>2, <2>3 DEF World
<1>2. CASE Core
  <2>1. ASSUME NEW l \in Links, Dial(l) PROVE MemoryInv'
    BY <2>1 DEF Dial
  <2>2. ASSUME NEW l \in Links, TakeOpener(l) PROVE MemoryInv'
    BY <2>2 DEF TakeOpener, AcceptHello, Fresh
  <2>3. ASSUME NEW l \in Links, NEW ts \in 1 .. MaxClock, TakeAnswer(l, ts)
        PROVE  MemoryInv'
    BY <2>3 DEF TakeAnswer, AcceptHello, Fresh
  <2>4. ASSUME NEW l \in Links, LinkGone(l) PROVE MemoryInv'
    BY <2>4 DEF LinkGone
  <2>5. CASE ConfirmPairing
    BY <2>5 DEF ConfirmPairing
  <2>6. CASE Revoke
    BY <2>6 DEF Revoke
  <2> QED
    BY <1>2, <2>1, <2>2, <2>3, <2>4, <2>5, <2>6 DEF Core
<1>3. CASE Runtime
  <2>1. CASE Put
    BY <2>1 DEF Put
  <2>2. CASE PutFails
    BY <2>2 DEF PutFails
  <2>3. CASE Answer
    BY <2>3 DEF Answer
  <2>4. CASE Restart
    BY <2>4 DEF Restart
  <2> QED
    BY <1>3, <2>1, <2>2, <2>3, <2>4 DEF Runtime
<1>4. CASE UNCHANGED vars
  BY <1>4 DEF vars
<1> QED
  BY <1>1, <1>2, <1>3, <1>4 DEF Next

(* Types hold, the store is current once an event's write is done, and no  *)
(* opener is answered twice while no watermark was lost.                   *)
THEOREM ReplaySafety == Spec => [](TypeOK /\ StoreIsCurrent /\ AnsweredOnce)
<1>1. MemoryInv => TypeOK /\ StoreIsCurrent /\ AnsweredOnce
  BY DEF MemoryInv
<1> QED
  BY <1>1, InitMemory, StepMemory, PTL DEF Spec

(* Whatever is lost, delivered again or cut by a restart, once the write an *)
(* event asked for is done the disk holds what the core holds, unless a     *)
(* write failed.                                                           *)
THEOREM StoreStaysCurrent == Spec => []StoreIsCurrent
  BY ReplaySafety, PTL

-----------------------------------------------------------------------------
(* The watermark stays within the skew of the clock, on disk too: a        *)
(* restart brings the stored one back.                                     *)

BoundInv == TypeOK /\ WatermarkBounded /\ disk.seen <= top + MaxSkew /\ clock <= top

(* The watermark is never further ahead than the permitted skew.           *)
THEOREM WatermarkStaysBounded == Spec => []WatermarkBounded
<1> USE DEF BoundInv, WatermarkBounded, Record
<1>1. Init => BoundInv
  BY InitMemory DEF Init, MemoryInv
<1>2. BoundInv /\ [Next]_vars /\ TypeOK' => BoundInv'
  <2> SUFFICES ASSUME BoundInv, [Next]_vars, TypeOK' PROVE BoundInv'
    OBVIOUS
  <2> USE DEF TypeOK
  <2>1. CASE World
    BY <2>1 DEF World, PeerDials, Redelivered, ClockSet
  <2>2. CASE Core
    BY <2>2 DEF Core, Dial, TakeOpener, TakeAnswer, LinkGone, ConfirmPairing, Revoke,
       AcceptHello, Fresh
  <2>3. CASE Runtime
    BY <2>3 DEF Runtime, Put, PutFails, Answer, Restart
  <2>4. CASE UNCHANGED vars
    BY <2>4 DEF vars
  <2> QED
    BY <2>1, <2>2, <2>3, <2>4 DEF Next
<1>3. Spec => []TypeOK
  BY ReplaySafety, PTL
<1>4. BoundInv => WatermarkBounded
  OBVIOUS
<1> QED
  BY <1>1, <1>2, <1>3, <1>4, PTL DEF Spec

-----------------------------------------------------------------------------
(* The order outlives crashes and pairings.  What was answered since the    *)
(* last loss is below the watermark in memory, below the one on disk unless *)
(* the last write failed, and strictly below the opener to be answered.     *)

OrderInv ==
  /\ record.known => high <= record.seen
  /\ disk.known /\ ~unsaved => high <= disk.seen
  /\ todo.link # NoLink => high < record.seen

(* It holds at the start and every step keeps it. *)
LEMMA StepOrder ==
  /\ Init => OrderInv
  /\ MemoryInv /\ OrderInv /\ [Next]_vars => OrderInv'
<1>1. Init => OrderInv
  BY DEF Init, OrderInv, Nothing
<1>2. ASSUME MemoryInv, OrderInv, [Next]_vars PROVE OrderInv'
  <2> USE DEF OrderInv
  <2> USE MemoryInv DEF MemoryInv, TypeOK, StoreIsCurrent, AboutToAnswer, Record, Todo, Nothing, Idle
  <2>1. CASE World
    BY <1>2, <2>1 DEF World, PeerDials, Redelivered, ClockSet
  <2>2. CASE Core
    <3>1. ASSUME NEW l \in Links, Dial(l) \/ LinkGone(l) PROVE OrderInv'
      BY <1>2, <3>1 DEF Dial, LinkGone
    <3>2. ASSUME NEW l \in Links, TakeOpener(l) PROVE OrderInv'
      BY <1>2, <3>2 DEF TakeOpener, AcceptHello, Fresh
    <3>3. ASSUME NEW l \in Links, NEW ts \in 1 .. MaxClock, TakeAnswer(l, ts)
          PROVE  OrderInv'
      BY <1>2, <3>3 DEF TakeAnswer, AcceptHello, Fresh
    <3>4. CASE ConfirmPairing
      BY <1>2, <3>4 DEF ConfirmPairing
    <3>5. CASE Revoke
      BY <1>2, <3>5 DEF Revoke
    <3> QED
      BY <2>2, <3>1, <3>2, <3>3, <3>4, <3>5 DEF Core
  <2>3. CASE Runtime
    <3>1. CASE Put
      BY <1>2, <3>1 DEF Put
    <3>2. CASE PutFails
      BY <1>2, <3>2 DEF PutFails
    <3>3. CASE Answer
      BY <1>2, <3>3 DEF Answer
    <3>4. CASE Restart
      BY <1>2, <3>4 DEF Restart
    <3> QED
      BY <2>3, <3>1, <3>2, <3>3, <3>4 DEF Runtime
  <2>4. CASE UNCHANGED vars
    BY <1>2, <2>4 DEF vars
  <2> QED
    BY <1>2, <2>1, <2>2, <2>3, <2>4 DEF Next
<1> QED
  BY <1>1, <1>2

(* Every message 2 answers something newer than all that was answered since *)
(* the last loss: handshake, store and restart together implement Watermark.*)
THEOREM Refinement == Spec => KeepsPromise
<1>1. Init => Promise!Init
  BY DEF Init, Promise!Init
<1>2. MemoryInv /\ OrderInv /\ [Next]_vars => [Promise!Next]_(Promise!vars)
  <2> SUFFICES ASSUME MemoryInv, OrderInv, [Next]_vars
               PROVE  Promise!Next \/ (high' = high /\ unsaved' = unsaved)
    BY DEF Promise!vars
  <2>1. CASE World
    BY <2>1 DEF World, PeerDials, Redelivered, ClockSet
  <2>2. CASE Core
    <3>1. CASE ConfirmPairing
      BY <3>1 DEF ConfirmPairing, Promise!Next, Promise!PairAgain
    <3>2. CASE ~ConfirmPairing
      BY <2>2, <3>2 DEF Core, Dial, TakeOpener, TakeAnswer, LinkGone, Revoke
    <3> QED
      BY <3>1, <3>2
  <2>3. CASE Runtime
    <3>1. CASE Put \/ PutFails
      BY <3>1 DEF Put, PutFails, Promise!Next, Promise!WriteEnds
    <3>2. CASE Answer
      <4>1. high < record.seen
        BY <3>2 DEF Answer, OrderInv
      <4>2. high' = record.seen /\ unsaved' = unsaved
        BY <3>2 DEF Answer, MemoryInv, AboutToAnswer
      <4>3. high \in Nat /\ record.seen \in Nat
        BY DEF MemoryInv, TypeOK, Record
      <4> QED
        BY <4>1, <4>2, <4>3 DEF Promise!Next, Promise!Answer
    <3>3. CASE Restart
      <4>1. unsaved \in BOOLEAN
        BY DEF MemoryInv, TypeOK
      <4>2. CASE unsaved
        BY <3>3, <4>2 DEF Restart, Promise!Next, Promise!CrashWhileWeak
      <4>3. CASE ~unsaved
        BY <3>3, <4>1, <4>3 DEF Restart
      <4> QED
        BY <4>2, <4>3
    <3> QED
      BY <2>3, <3>1, <3>2, <3>3 DEF Runtime
  <2>4. CASE UNCHANGED vars
    BY <2>4 DEF vars
  <2> QED
    BY <2>1, <2>2, <2>3, <2>4 DEF Next
<1> QED
  BY <1>1, <1>2, InitMemory, StepMemory, StepOrder, PTL DEF Spec, KeepsPromise, Promise!Spec
=============================================================================
