---------------------------- MODULE ReachProofs -----------------------------
(***************************************************************************)
(* Proofs about Dialling, and about Sessions (S), which is what a dial ends  *)
(* in: for every set of transports and links, every number of attempts and  *)
(* messages and every value of the timeouts.                               *)
(*                                                                         *)
(* Sessions is instantiated beside Dialling and nothing here relates one to *)
(* the other.  What it assumes of its constants is a hypothesis of each     *)
(* result about it.                                                        *)
(***************************************************************************)
EXTENDS Dialling, Integers, Sequences, TLAPS

CONSTANTS Narrow, NoBulk, Ties, MaxSealed, MaxNow
VARIABLES state, heard, sealed, opened, wire, now, share, key, refused, lone
S == INSTANCE Sessions

-----------------------------------------------------------------------------
(* Sessions. *)

USE DEF S!ConfigAssumption, S!NoLinkAssumption

(* What one direction of one link looks like: a and b are its states at    *)
(* the receiving and the sending end, w is on the way, n was opened, c was *)
(* sealed, and r says whether the sender refused a message it had sealed.  *)
(* While a handshake is open the frames of the session queue up behind     *)
(* message 2.                                                              *)

Ahead(a) == IF a = "shaking" THEN 1 ELSE 0

Direction(a, b, w, n, c, r) ==
  /\ a \in {"none", "gone"} => w = <<>>
  /\ a = "none" <=> b = "none"
  /\ a = "none" => n = 0 /\ c = 0
  /\ a = "shaking" => b # "shaking" /\ n = 0
  /\ b = "shaking" => c = 0
  /\ a \in {"shaking", "up"} /\ ~r =>
       /\ a = "shaking" => w # <<>> /\ w[1].kind = "handshake"
       /\ \A i \in 1 .. Len(w) : i > Ahead(a) =>
            w[i].kind = "transport" /\ w[i].counter + Ahead(a) + 1 = n + i
       /\ b \in {"shaking", "up"} => c + Ahead(a) = n + Len(w)

(* Both directions of every link, as a function of the tables a handler    *)
(* works on, so that it can be stated between its steps.                   *)
Tables(st, w, op, se, rf) ==
  /\ st \in [S!Ends -> [S!Links -> {"none", "shaking", "up", "gone"}]]
  /\ w \in [S!Ends -> [S!Links -> Seq(S!Frame)]]
  /\ op \in [S!Ends -> [S!Links -> Nat]]
  /\ se \in [S!Ends -> [S!Links -> Nat]]
  /\ rf \in [S!Ends -> SUBSET S!Links]

Directions(st, w, op, se, rf) ==
  \A e \in S!Ends, l \in S!Links :
    Direction(st[e][l], st[S!Other(e)][l], w[e][l], op[e][l], se[S!Other(e)][l],
              l \in rf[S!Other(e)])

-----------------------------------------------------------------------------
(* One direction, one frame at a time. *)

(* A frame sealed under the sender's counter and queued keeps the direction *)
(* in order.                                                               *)
LEMMA QueueFrame ==
  ASSUME S!ConfigAssumption, S!NoLinkAssumption,
         NEW a \in {"shaking", "up"}, NEW w \in Seq(S!Frame), NEW n \in Nat,
         NEW c \in Nat, NEW r \in BOOLEAN, NEW f \in S!Frame,
         f.kind = "transport", f.counter = c,
         Direction(a, "up", w, n, c, r)
  PROVE  Direction(a, "up", Append(w, f), n, c + 1, r)
<1> DEFINE v == Append(w, f)
<1>1. Len(w) \in Nat /\ Len(v) = Len(w) + 1 /\ v \in Seq(S!Frame)
  OBVIOUS
<1>2. \A i \in 1 .. Len(v) : v[i] = IF i <= Len(w) THEN w[i] ELSE f
  OBVIOUS
<1>3. v # <<>>
  BY <1>1
<1>4. CASE r
  BY <1>4, <1>3 DEF Direction
<1>5. CASE ~r
  <2>1. c + Ahead(a) = n + Len(w)
    BY <1>5 DEF Direction
  <2>2. a = "shaking" => v[1].kind = "handshake"
    <3> SUFFICES ASSUME a = "shaking" PROVE v[1].kind = "handshake"
      OBVIOUS
    <3>1. w # <<>> /\ w[1].kind = "handshake"
      BY <1>5 DEF Direction
    <3>2. 1 <= Len(w) /\ 1 \in 1 .. Len(v)
      BY <3>1, <1>1
    <3> QED
      BY <3>1, <3>2, <1>2
  <2>3. ASSUME NEW i \in 1 .. Len(v), i > Ahead(a)
        PROVE  v[i].kind = "transport" /\ v[i].counter + Ahead(a) + 1 = n + i
    <3>1. CASE i <= Len(w)
      <4>1. i \in 1 .. Len(w) /\ v[i] = w[i]
        BY <3>1, <1>1, <1>2
      <4> QED
        BY <4>1, <2>3, <1>5 DEF Direction
    <3>2. CASE ~(i <= Len(w))
      <4>1. i = Len(w) + 1 /\ v[i] = f
        BY <3>2, <1>1, <1>2
      <4> QED
        BY <4>1, <2>1, <1>1 DEF Ahead
    <3> QED
      BY <3>1, <3>2
  <2>4. c + 1 + Ahead(a) = n + Len(v)
    BY <2>1, <1>1 DEF Ahead
  <2> QED
    BY <2>2, <2>3, <2>4, <1>3, <1>5 DEF Direction
<1> QED
  BY <1>4, <1>5

(* A message that is sealed and then refused ends the promise. *)
LEMMA RefuseFrame ==
  ASSUME S!ConfigAssumption, S!NoLinkAssumption,
         NEW a, NEW w, NEW n, NEW c, NEW r, a # "none",
         Direction(a, "up", w, n, c, r)
  PROVE  Direction(a, "up", w, n, c + 1, TRUE)
  BY DEF Direction

(* Nothing is on its way to an end that has gone. *)
LEMMA SealForNobody ==
  ASSUME S!ConfigAssumption, S!NoLinkAssumption,
         NEW w, NEW n, NEW c, NEW r, NEW d, Direction("gone", "up", w, n, c, r)
  PROVE  Direction("gone", "up", w, n, d, r)
  BY DEF Direction

(* Reading message 2 opens the way for what queued behind it. *)
LEMMA ReadAnswer ==
  ASSUME S!ConfigAssumption, S!NoLinkAssumption,
         NEW b, NEW w \in Seq(S!Frame), NEW n \in Nat, NEW c \in Nat,
         NEW r \in BOOLEAN, w # <<>>,
         Direction("shaking", b, w, n, c, r)
  PROVE  Direction("up", b, Tail(w), n, c, r)
<1> DEFINE v == Tail(w)
           k == n
<1>1. Len(v) = Len(w) - 1 /\ Len(w) \in Nat /\ Len(w) >= 1
  OBVIOUS
<1>2. ASSUME ~r, NEW i \in 1 .. Len(v)
      PROVE  /\ v[i].kind = "transport" /\ v[i].counter \in Nat
             /\ v[i].counter + 1 = k + i
  <2>1. v[i] = w[i + 1] /\ i + 1 \in 1 .. Len(w) /\ i + 1 > 1
    BY <1>1
  <2>2. w[i + 1].counter \in Nat
    <3>1. w[i + 1] \in S!Frame
      BY <2>1
    <3> QED
      BY <3>1 DEF S!Frame
  <2>3. w[i + 1].kind = "transport" /\ w[i + 1].counter + 1 + 1 = n + (i + 1)
    BY <2>1, <1>2 DEF Direction, Ahead
  <2> QED
    BY <2>1, <2>2, <2>3
<1>3. ASSUME ~r, b \in {"shaking", "up"} PROVE c = k + Len(v)
  <2>1. c + 1 = n + Len(w)
    BY <1>3 DEF Direction, Ahead
  <2> QED
    BY <2>1, <1>1
<1>4. b # "none" /\ (b = "shaking" => c = 0)
  BY DEF Direction
<1>5. k \in Nat /\ Len(v) \in Nat
  BY <1>1
<1> HIDE DEF v, k
<1>6. Direction("up", b, v, k, c, r)
  BY ONLY <1>2, <1>3, <1>4, <1>5, c \in Nat DEF Direction, Ahead
<1> QED
  BY <1>6 DEF v, k

(* Opening the next frame moves the receiver's counter along the queue. *)
LEMMA OpenFrame ==
  ASSUME S!ConfigAssumption, S!NoLinkAssumption,
         NEW b, NEW w \in Seq(S!Frame), NEW n \in Nat, NEW c \in Nat,
         NEW r \in BOOLEAN, w # <<>>,
         Direction("up", b, w, n, c, r)
  PROVE  Direction("up", b, Tail(w), n + 1, c, r)
<1> DEFINE v == Tail(w)
           k == n + 1
<1>1. Len(v) = Len(w) - 1 /\ Len(w) \in Nat /\ Len(w) >= 1
  OBVIOUS
<1>2. ASSUME ~r, NEW i \in 1 .. Len(v)
      PROVE  /\ v[i].kind = "transport" /\ v[i].counter \in Nat
             /\ v[i].counter + 1 = k + i
  <2>1. v[i] = w[i + 1] /\ i + 1 \in 1 .. Len(w) /\ i + 1 > 1
    BY <1>1
  <2>2. w[i + 1].counter \in Nat
    <3>1. w[i + 1] \in S!Frame
      BY <2>1
    <3> QED
      BY <3>1 DEF S!Frame
  <2>3. w[i + 1].kind = "transport" /\ w[i + 1].counter + 0 + 1 = n + (i + 1)
    BY <2>1, <1>2 DEF Direction, Ahead
  <2> QED
    BY <2>1, <2>2, <2>3
<1>3. ASSUME ~r, b \in {"shaking", "up"} PROVE c = k + Len(v)
  <2>1. c + 0 = n + Len(w)
    BY <1>3 DEF Direction, Ahead
  <2> QED
    BY <2>1, <1>1
<1>4. b # "none" /\ (b = "shaking" => c = 0)
  BY DEF Direction
<1>5. k \in Nat /\ Len(v) \in Nat
  BY <1>1
<1> HIDE DEF v, k
<1>6. Direction("up", b, v, k, c, r)
  BY ONLY <1>2, <1>3, <1>4, <1>5, c \in Nat DEF Direction, Ahead
<1> QED
  BY <1>6 DEF v, k

-----------------------------------------------------------------------------
(* Handlers. *)

(* Each end is the other's other. *)
LEMMA OtherEnd ==
  ASSUME S!ConfigAssumption, S!NoLinkAssumption
  PROVE  \A e \in S!Ends : S!Other(e) \in S!Ends /\ S!Other(e) # e /\ S!Other(S!Other(e)) = e
  BY DEF S!Ends, S!Other

(* Two ends make two directions: whoever is not e is the other. *)
LEMMA TwoEnds ==
  ASSUME S!ConfigAssumption, S!NoLinkAssumption
  PROVE  \A d, e \in S!Ends : d = e \/ d = S!Other(e)
  BY DEF S!Ends, S!Other

(* Sending over any link that is up keeps every direction in order. *)
LEMMA SendOnKeeps ==
  ASSUME S!ConfigAssumption, S!NoLinkAssumption,
         NEW e \in S!Ends, NEW st, NEW w, NEW op, NEW m \in S!Message, NEW l \in S!Links,
         Tables(st, w, op, sealed, refused),
         Directions(st, w, op, sealed, refused),
         st[e][l] = "up",
         S!SendOn(e, st, l, w, m)
  PROVE  /\ Tables(st, wire', op, sealed', refused')
         /\ Directions(st, wire', op, sealed', refused')
<1> DEFINE o == S!Other(e)
           f == [kind |-> "transport", counter |-> sealed[e][l], body |-> m.body]
<1> USE OtherEnd
<1>1. f \in S!Frame /\ f.kind = "transport" /\ f.counter = sealed[e][l]
  BY DEF S!Frame, S!Message, Tables
<1>2. sealed' = [sealed EXCEPT ![e][l] = @ + 1]
  BY DEF S!SendOn
<1>3. Direction(st[o][l], "up", w[o][l], op[o][l], sealed[e][l], l \in refused[e])
  BY DEF Directions
<1>4. st[o][l] \in {"shaking", "up", "gone"}
  BY <1>3 DEF Direction, Tables
<1>5. ASSUME NEW d \in S!Ends, NEW k \in S!Links, d # o \/ k # l
      PROVE  sealed'[S!Other(d)][k] = sealed[S!Other(d)][k]
  BY <1>2, <1>5 DEF Tables, S!Ends, S!Other
<1>6. sealed'[e][l] = sealed[e][l] + 1 /\ sealed' \in [S!Ends -> [S!Links -> Nat]]
  BY <1>2 DEF Tables
<1>7. CASE m.large /\ l[1] \in Narrow
  <2>1. wire' = w /\ refused' = [refused EXCEPT ![e] = @ \cup {l}]
    BY <1>7 DEF S!SendOn
  <2>2. Tables(st, wire', op, sealed', refused')
    BY <2>1, <1>6 DEF Tables
  <2>3. ASSUME NEW d \in S!Ends, NEW k \in S!Links
        PROVE  Direction(st[d][k], st[S!Other(d)][k], wire'[d][k], op[d][k],
                         sealed'[S!Other(d)][k], k \in refused'[S!Other(d)])
    <3>1. CASE d = o /\ k = l
      <4>1. Direction(st[o][l], "up", w[o][l], op[o][l], sealed[e][l] + 1, TRUE)
        BY <1>3, <1>4, RefuseFrame
      <4>2. (l \in refused'[e]) = TRUE
        BY <2>1 DEF Tables
      <4> QED
        BY <4>1, <4>2, <3>1, <2>1, <1>6
    <3>2. CASE d # o \/ k # l
      <4>1. (k \in refused'[S!Other(d)]) = (k \in refused[S!Other(d)])
        BY <2>1, <3>2 DEF Tables, S!Ends, S!Other
      <4> QED
        BY <4>1, <3>2, <2>1, <1>5 DEF Directions
    <3> QED
      BY <3>1, <3>2
  <2> QED
    BY <2>2, <2>3 DEF Directions
<1>8. CASE ~(m.large /\ l[1] \in Narrow)
  <2>1. wire' = S!Carry(st, e, l, w, f) /\ refused' = refused
    BY <1>8 DEF S!SendOn
  <2>2. CASE st[o][l] = "gone"
    <3>1. wire' = w
      BY <2>1, <2>2 DEF S!Carry
    <3>2. Tables(st, wire', op, sealed', refused')
      BY <3>1, <2>1, <1>6 DEF Tables
    <3>3. ASSUME NEW d \in S!Ends, NEW k \in S!Links
          PROVE  Direction(st[d][k], st[S!Other(d)][k], w[d][k], op[d][k],
                           sealed'[S!Other(d)][k], k \in refused[S!Other(d)])
      <4>1. CASE d = o /\ k = l
        BY <4>1, <2>2, <1>3, <1>6, SealForNobody
      <4>2. CASE d # o \/ k # l
        BY <4>2, <1>5 DEF Directions
      <4> QED
        BY <4>1, <4>2
    <3> QED
      BY <3>1, <3>2, <3>3, <2>1 DEF Directions
  <2>3. CASE st[o][l] # "gone"
    <3>1. wire' = [w EXCEPT ![o][l] = Append(@, f)]
      BY <2>1, <2>3 DEF S!Carry
    <3>2. w[o][l] \in Seq(S!Frame) /\ Append(w[o][l], f) \in Seq(S!Frame)
      BY <1>1 DEF Tables
    <3>3. wire' \in [S!Ends -> [S!Links -> Seq(S!Frame)]] /\ wire'[o][l] = Append(w[o][l], f)
      BY <3>1, <3>2 DEF Tables
    <3>4. Tables(st, wire', op, sealed', refused')
      BY <3>3, <2>1, <1>6 DEF Tables
    <3>5. ASSUME NEW d \in S!Ends, NEW k \in S!Links
          PROVE  Direction(st[d][k], st[S!Other(d)][k], wire'[d][k], op[d][k],
                           sealed'[S!Other(d)][k], k \in refused[S!Other(d)])
      <4>1. CASE d = o /\ k = l
        <5>1. st[o][l] \in {"shaking", "up"} /\ op[o][l] \in Nat /\ sealed[e][l] \in Nat
          BY <1>4, <2>3 DEF Tables
        <5>2. Direction(st[o][l], "up", Append(w[o][l], f), op[o][l],
                        sealed[e][l] + 1, l \in refused[e])
          <6> DEFINE r == l \in refused[e]
                     v == w[o][l]
                     n == op[o][l]
                     c == sealed[e][l]
                     a == st[o][l]
          <6>1. /\ r \in BOOLEAN /\ v \in Seq(S!Frame) /\ n \in Nat /\ c \in Nat
                /\ a \in {"shaking", "up"} /\ Direction(a, "up", v, n, c, r)
                /\ f \in S!Frame /\ f.kind = "transport" /\ f.counter = c
            BY <5>1, <1>1, <1>3, <3>2
          <6> HIDE DEF r, v, n, c, a, f
          <6>2. Direction(a, "up", Append(v, f), n, c + 1, r)
            BY <6>1, QueueFrame
          <6> QED
            BY <6>2 DEF r, v, n, c, a
        <5> QED
          BY <5>2, <4>1, <3>3, <1>6
      <4>2. CASE d # o \/ k # l
        <5>1. wire'[d][k] = w[d][k]
          BY <4>2, <3>1 DEF Tables
        <5> QED
          BY <5>1, <4>2, <1>5 DEF Directions
      <4> QED
        BY <4>1, <4>2
    <3> QED
      BY <3>4, <3>5, <2>1 DEF Directions
  <2> QED
    BY <2>2, <2>3
<1> QED
  BY <1>7, <1>8

(* So does whatever a handler sends, over whichever link is the best. *)
LEMMA SendKeeps ==
  ASSUME S!ConfigAssumption, S!NoLinkAssumption,
         NEW e \in S!Ends, NEW st, NEW hd, NEW w, NEW op,
         Tables(st, w, op, sealed, refused),
         Directions(st, w, op, sealed, refused),
         \/ wire' = w /\ UNCHANGED <<sealed, refused>>
         \/ \E m \in S!Message : S!DispatchSend(e, st, hd, w, m)
  PROVE  /\ Tables(st, wire', op, sealed', refused')
         /\ Directions(st, wire', op, sealed', refused')
<1>1. CASE wire' = w /\ UNCHANGED <<sealed, refused>>
  BY <1>1
<1>2. CASE \E m \in S!Message : S!DispatchSend(e, st, hd, w, m)
  <2>1. PICK m \in S!Message : S!DispatchSend(e, st, hd, w, m)
    BY <1>2
  <2>2. CASE S!UpAt(st, e) = {} /\ wire' = w /\ UNCHANGED <<sealed, refused>>
    BY <2>2
  <2>3. CASE \E l \in S!BestLink(st, hd, e) : S!SendOn(e, st, l, w, m)
    <3>1. PICK l \in S!BestLink(st, hd, e) : S!SendOn(e, st, l, w, m)
      BY <2>3
    <3>2. l \in S!Links /\ st[e][l] = "up"
      BY DEF S!BestLink, S!UpAt
    <3> QED
      BY <3>1, <3>2, SendOnKeeps
  <2> QED
    BY <2>1, <2>2, <2>3 DEF S!DispatchSend
<1> QED
  BY <1>1, <1>2

(* What plugins send of their own accord is among the messages. *)
LEMMA PlainMessages ==
  ASSUME S!ConfigAssumption, S!NoLinkAssumption
  PROVE  S!Plain \subseteq S!Message /\ \A b \in S!Bodies : S!Small(b) \in S!Message
  BY DEF S!Plain, S!Message, S!Small, S!Bodies

InOrder == /\ Tables(state, wire, opened, sealed, refused)
           /\ Directions(state, wire, opened, sealed, refused)

(* A new session starts with message 2 ahead of everything. *)
LEMMA RespondKeeps ==
  ASSUME S!ConfigAssumption, S!NoLinkAssumption,
         InOrder, NEW e \in S!Ends, NEW l \in S!Links, S!Respond(e, l)
  PROVE  InOrder'
<1> DEFINE o == S!Other(e)
           st == [state EXCEPT ![e][l] = "up", ![o][l] = "shaking"]
           w == [wire EXCEPT ![o][l] = Append(@, S!Answer)]
<1> USE OtherEnd
<1>1. /\ state' = st /\ opened' = opened
      /\ S!MaybeSend(e, st, heard', w)
      /\ state[e][l] = "none" /\ state[o][l] = "none"
  BY DEF S!Respond
<1>2. /\ wire[e][l] = <<>> /\ wire[o][l] = <<>>
      /\ opened[e][l] = 0 /\ opened[o][l] = 0
      /\ sealed[e][l] = 0 /\ sealed[o][l] = 0
  BY <1>1 DEF InOrder, Directions, Direction
<1>3. S!Answer \in S!Frame /\ S!Answer.kind = "handshake"
  BY DEF S!Answer, S!Frame, S!Bodies
<1>4. Append(wire[o][l], S!Answer) = <<S!Answer>> /\ <<S!Answer>> \in Seq(S!Frame)
  BY <1>2, <1>3
<1>5. /\ st \in [S!Ends -> [S!Links -> {"none", "shaking", "up", "gone"}]]
      /\ w \in [S!Ends -> [S!Links -> Seq(S!Frame)]]
      /\ st[e][l] = "up" /\ st[o][l] = "shaking"
      /\ w[e][l] = <<>> /\ w[o][l] = <<S!Answer>>
      /\ \A d \in S!Ends, k \in S!Links : k # l => st[d][k] = state[d][k] /\ w[d][k] = wire[d][k]
  BY <1>2, <1>4 DEF InOrder, Tables
<1> HIDE DEF st, w
<1>6. Tables(st, w, opened, sealed, refused)
  BY <1>5 DEF InOrder, Tables
<1>7. ASSUME NEW d \in S!Ends, NEW k \in S!Links
      PROVE  Direction(st[d][k], st[S!Other(d)][k], w[d][k], opened[d][k],
                       sealed[S!Other(d)][k], k \in refused[S!Other(d)])
  <2>1. CASE k # l
    BY <2>1, <1>5 DEF InOrder, Directions
  <2>2. CASE k = l /\ d = e
    BY <2>2, <1>5, <1>2 DEF Direction, Ahead
  <2>3. CASE k = l /\ d = o
    BY <2>3, <1>5, <1>2, <1>3 DEF Direction, Ahead
  <2> QED
    BY <2>1, <2>2, <2>3, TwoEnds
<1>8. Directions(st, w, opened, sealed, refused)
  BY <1>7 DEF Directions
<1>9. \/ wire' = w /\ UNCHANGED <<sealed, refused>>
      \/ \E m \in S!Message : S!DispatchSend(e, st, heard', w, m)
  BY <1>1, PlainMessages DEF S!MaybeSend
<1> QED
  BY <1>1, <1>6, <1>8, <1>9, SendKeeps DEF InOrder

(* Message 2 is read and what queued behind it is next. *)
LEMMA FinishKeeps ==
  ASSUME S!ConfigAssumption, S!NoLinkAssumption,
         InOrder, NEW e \in S!Ends, NEW l \in S!Links, S!Finish(e, l)
  PROVE  InOrder'
<1> DEFINE o == S!Other(e)
           st == [state EXCEPT ![e][l] = "up"]
           w == [wire EXCEPT ![e][l] = Tail(@)]
<1> USE OtherEnd
<1>1. /\ state' = st /\ opened' = opened
      /\ S!MaybeSend(e, st, heard', w)
      /\ state[e][l] = "shaking" /\ wire[e][l] # <<>>
  BY DEF S!Finish
<1>2. wire[e][l] \in Seq(S!Frame) /\ Tail(wire[e][l]) \in Seq(S!Frame)
  BY <1>1 DEF InOrder, Tables
<1>3. /\ st \in [S!Ends -> [S!Links -> {"none", "shaking", "up", "gone"}]]
      /\ w \in [S!Ends -> [S!Links -> Seq(S!Frame)]]
      /\ st[e][l] = "up" /\ st[o][l] = state[o][l]
      /\ w[e][l] = Tail(wire[e][l]) /\ w[o][l] = wire[o][l]
      /\ \A d \in S!Ends, k \in S!Links : k # l => st[d][k] = state[d][k] /\ w[d][k] = wire[d][k]
  BY <1>2 DEF InOrder, Tables
<1> HIDE DEF st, w
<1>4. Tables(st, w, opened, sealed, refused)
  BY <1>3 DEF InOrder, Tables
<1>5. Direction(st[e][l], st[o][l], w[e][l], opened[e][l], sealed[o][l], l \in refused[o])
  <2> DEFINE r == l \in refused[o]
  <2>1. /\ Direction("shaking", state[o][l], wire[e][l], opened[e][l], sealed[o][l], r)
        /\ opened[e][l] \in Nat /\ sealed[o][l] \in Nat /\ r \in BOOLEAN
    BY <1>1 DEF InOrder, Directions, Tables
  <2> HIDE DEF r
  <2>2. Direction("up", state[o][l], Tail(wire[e][l]), opened[e][l], sealed[o][l], r)
    BY <2>1, <1>1, <1>2, ReadAnswer
  <2> QED
    BY <2>2, <1>3 DEF r
<1>6. Direction(st[o][l], st[e][l], w[o][l], opened[o][l], sealed[e][l], l \in refused[e])
  <2>1. Direction(state[o][l], "shaking", wire[o][l], opened[o][l], sealed[e][l], l \in refused[e])
    BY <1>1 DEF InOrder, Directions
  <2> QED
    BY <2>1, <1>3 DEF Direction
<1>7. Directions(st, w, opened, sealed, refused)
  BY <1>3, <1>5, <1>6, TwoEnds DEF InOrder, Directions
<1>8. \/ wire' = w /\ UNCHANGED <<sealed, refused>>
      \/ \E m \in S!Message : S!DispatchSend(e, st, heard', w, m)
  BY <1>1, PlainMessages DEF S!MaybeSend
<1> QED
  BY <1>1, <1>4, <1>7, <1>8, SendKeeps DEF InOrder

(* An end that loses a link says nothing more on it and hears nothing. *)
LEMMA DropKeeps ==
  ASSUME S!ConfigAssumption, S!NoLinkAssumption,
         InOrder, NEW e \in S!Ends, NEW l \in S!Links, S!Drop(e, l),
         state[e][l] \in {"shaking", "up"}
  PROVE  InOrder'
<1> DEFINE o == S!Other(e)
<1> USE OtherEnd
<1>1. /\ state' = [state EXCEPT ![e][l] = "gone"]
      /\ wire' = [wire EXCEPT ![e][l] = <<>>]
      /\ opened' = [opened EXCEPT ![e][l] = 0]
      /\ sealed' = [sealed EXCEPT ![e][l] = 0]
      /\ refused' = refused
  BY DEF S!Drop, S!Forget
<1>2. Tables(state, wire, opened, sealed, refused)'
  BY <1>1 DEF InOrder, Tables
<1>3. Direction(state'[e][l], state'[o][l], wire'[e][l], opened'[e][l], sealed'[o][l],
                l \in refused'[o])
  <2>1. Direction(state[e][l], state[o][l], wire[e][l], opened[e][l], sealed[o][l],
                  l \in refused[o])
    BY DEF InOrder, Directions
  <2> QED
    BY <2>1, <1>1 DEF Direction, InOrder, Tables
<1>4. Direction(state'[o][l], state'[e][l], wire'[o][l], opened'[o][l], sealed'[e][l],
                l \in refused'[e])
  <2>1. Direction(state[o][l], state[e][l], wire[o][l], opened[o][l], sealed[e][l],
                  l \in refused[e])
    BY DEF InOrder, Directions
  <2>2. /\ state'[o][l] = state[o][l] /\ wire'[o][l] = wire[o][l]
        /\ opened'[o][l] = opened[o][l]
        /\ state'[e][l] = "gone" /\ sealed'[e][l] = 0
    BY <1>1 DEF InOrder, Tables
  <2> QED
    BY <2>1, <2>2, <1>1 DEF Direction
<1>5. ASSUME NEW d \in S!Ends, NEW k \in S!Links, k # l
      PROVE  /\ state'[d][k] = state[d][k] /\ wire'[d][k] = wire[d][k]
             /\ opened'[d][k] = opened[d][k] /\ sealed'[d][k] = sealed[d][k]
  BY <1>1, <1>5 DEF InOrder, Tables
<1>6. Directions(state, wire, opened, sealed, refused)'
  BY <1>1, <1>3, <1>4, <1>5, TwoEnds DEF InOrder, Directions
<1> QED
  BY <1>2, <1>6 DEF InOrder

(* A frame is opened; whatever is sent from its handler goes out after. *)
LEMMA TakeKeeps ==
  ASSUME S!ConfigAssumption, S!NoLinkAssumption,
         InOrder, NEW e \in S!Ends, NEW l \in S!Links, NEW b, S!Take(e, l, b),
         \/ wire' = S!Without(e, l) /\ UNCHANGED <<sealed, refused>>
         \/ \E m \in S!Message : S!DispatchSend(e, state, heard', S!Without(e, l), m)
  PROVE  InOrder'
<1> DEFINE o == S!Other(e)
           w == S!Without(e, l)
           op == [opened EXCEPT ![e][l] = @ + 1]
<1> USE OtherEnd
<1>1. /\ state' = state /\ opened' = op
      /\ state[e][l] = "up" /\ wire[e][l] # <<>>
  BY DEF S!Take
<1>2. wire[e][l] \in Seq(S!Frame) /\ Tail(wire[e][l]) \in Seq(S!Frame)
  BY <1>1 DEF InOrder, Tables
<1>3. /\ w \in [S!Ends -> [S!Links -> Seq(S!Frame)]]
      /\ op \in [S!Ends -> [S!Links -> Nat]]
      /\ w[e][l] = Tail(wire[e][l]) /\ op[e][l] = opened[e][l] + 1
      /\ \A d \in S!Ends, k \in S!Links :
           k # l \/ d # e => w[d][k] = wire[d][k] /\ op[d][k] = opened[d][k]
  BY <1>2, SMTT(30) DEF InOrder, Tables, S!Without
<1> HIDE DEF w, op
<1>4. Tables(state, w, op, sealed, refused)
  BY <1>3 DEF InOrder, Tables
<1>5. Direction(state[e][l], state[o][l], w[e][l], op[e][l], sealed[o][l], l \in refused[o])
  <2> DEFINE r == l \in refused[o]
  <2>1. /\ Direction("up", state[o][l], wire[e][l], opened[e][l], sealed[o][l], r)
        /\ opened[e][l] \in Nat /\ sealed[o][l] \in Nat /\ r \in BOOLEAN
    BY <1>1 DEF InOrder, Directions, Tables
  <2> HIDE DEF r
  <2>2. Direction("up", state[o][l], Tail(wire[e][l]), opened[e][l] + 1, sealed[o][l], r)
    BY <2>1, <1>1, <1>2, OpenFrame
  <2> QED
    BY <2>2, <1>1, <1>3 DEF r
<1>6. Directions(state, w, op, sealed, refused)
  BY <1>3, <1>5 DEF InOrder, Directions
<1> QED
  BY <1>1, <1>4, <1>6, SendKeeps DEF InOrder, w

-----------------------------------------------------------------------------
(* The invariant and the theorem. *)

SessionsInv == S!TypeOK /\ InOrder

(* Before the first link every direction is empty. *)
LEMMA SessionsInitInv ==
  ASSUME S!ConfigAssumption, S!NoLinkAssumption
  PROVE  S!Init => SessionsInv
<1> SUFFICES ASSUME S!Init PROVE SessionsInv
  OBVIOUS
<1> USE DEF S!Ends, S!Other
<1>1. S!TypeOK
  BY DEF S!Init, S!TypeOK, S!Taker
<1>2. Tables(state, wire, opened, sealed, refused)
  BY <1>1 DEF S!TypeOK, Tables
<1>3. Directions(state, wire, opened, sealed, refused)
  BY DEF S!Init, Directions, Direction
<1> QED
  BY <1>1, <1>2, <1>3 DEF SessionsInv, InOrder

(* Every step keeps both directions of every link in order. *)
LEMMA StepInOrder ==
  ASSUME S!ConfigAssumption, S!NoLinkAssumption
  PROVE  SessionsInv /\ [S!Next]_S!vars => InOrder'
<1> SUFFICES ASSUME SessionsInv, [S!Next]_S!vars PROVE InOrder'
  OBVIOUS
<1>1. ASSUME NEW e \in S!Ends, NEW l \in S!Links, S!LinkEvent(e, l) PROVE InOrder'
  <2>1. CASE S!Respond(e, l)
    BY <2>1, RespondKeeps DEF SessionsInv
  <2>2. CASE S!Finish(e, l)
    BY <2>2, FinishKeeps DEF SessionsInv
  <2>3. CASE S!LinkDown(e, l) \/ S!Undecryptable(e, l)
    BY <2>3, DropKeeps DEF SessionsInv, S!LinkDown, S!Undecryptable
  <2>4. CASE S!Receive(e, l)
    BY <2>4, TakeKeeps, PlainMessages DEF SessionsInv, S!Receive, S!MaybeSend
  <2> QED
    BY <1>1, <2>1, <2>2, <2>3, <2>4 DEF S!LinkEvent
<1>2. ASSUME NEW l \in S!Links, S!ReceiveOffer(l) PROVE InOrder'
  BY <1>2, TakeKeeps DEF SessionsInv, S!ReceiveOffer, S!Taker, S!Ends
<1>3. ASSUME NEW l \in S!Links, S!ReceiveAccept(l) PROVE InOrder'
  BY <1>3, TakeKeeps, PlainMessages DEF SessionsInv, S!ReceiveAccept, S!Offerer, S!Ends, S!Bodies
<1>4. ASSUME NEW e \in S!Ends, NEW m \in S!Message, S!DispatchSend(e, state, heard, wire, m),
             UNCHANGED <<state, opened>>
      PROVE  InOrder'
  BY <1>4, SendKeeps DEF SessionsInv, InOrder
<1>5. CASE S!Offer
  BY <1>5, <1>4, PlainMessages DEF S!Offer, S!Offerer, S!Ends, S!Bodies
<1>6. CASE S!Listening
  BY <1>6, <1>4, PlainMessages DEF S!Listening, S!Taker, S!Ends, S!Bodies
<1>7. ASSUME NEW e \in S!Ends, S!LocalSend(e) PROVE InOrder'
  BY <1>7, <1>4, PlainMessages DEF S!LocalSend
<1>8. CASE S!Listen \/ (\E e \in S!Ends : S!Pass(e)) \/ UNCHANGED S!vars
  BY <1>8 DEF SessionsInv, InOrder, S!Listen, S!Pass, S!vars
<1> QED
  BY <1>1, <1>2, <1>3, <1>5, <1>6, <1>7, <1>8 DEF S!Next, S!Transfer

(* Every step keeps the types. *)
LEMMA StepTypes ==
  ASSUME S!ConfigAssumption, S!NoLinkAssumption
  PROVE  SessionsInv /\ InOrder' /\ [S!Next]_S!vars => S!TypeOK'
<1> SUFFICES ASSUME SessionsInv, InOrder', [S!Next]_S!vars PROVE S!TypeOK'
  OBVIOUS
<1> DEFINE Others ==
      /\ heard \in [S!Ends -> [S!Links -> Nat]]
      /\ now \in [S!Ends -> Nat]
      /\ share \in [S!Ends -> {"none", "waiting", "binding", "keyed", "dropped"}]
      /\ key \in [S!Ends -> S!Links \cup {NoLink}]
      /\ lone \in BOOLEAN
      /\ share[S!Taker] \in {"waiting", "binding"} => \E l \in S!Links : state[S!Taker][l] = "up"
<1>0. S!TypeOK' <=> Others' /\ Tables(state, wire, opened, sealed, refused)'
  BY DEF S!TypeOK, Tables
<1> SUFFICES Others'
  BY <1>0 DEF InOrder
<1> USE DEF SessionsInv, S!TypeOK, S!Ends, S!Offerer, S!Taker
<1>1. ASSUME NEW e \in S!Ends, NEW l \in S!Links, S!LinkEvent(e, l) PROVE Others'
  <2>1. CASE S!Respond(e, l)
    BY <2>1, SMTT(30) DEF S!Respond, S!Hear, S!StillLone, S!Other
  <2>2. CASE S!Finish(e, l)
    BY <2>2 DEF S!Finish, S!Hear, S!StillLone
  <2>3. CASE S!LinkDown(e, l) \/ S!Undecryptable(e, l)
    <3>1. /\ S!Drop(e, l) /\ heard' = [heard EXCEPT ![e][l] = 0]
          /\ UNCHANGED <<now, key, lone>>
          /\ state' = [state EXCEPT ![e][l] = "gone"]
      BY <2>3 DEF S!LinkDown, S!Undecryptable, S!Drop, S!Forget
    <3>2. CASE state[e][l] = "up" /\ S!UpAt(state', e) = {} /\ share[e] # "none"
      <4>1. share' = [share EXCEPT ![e] = "dropped"]
        BY <3>1, <3>2 DEF S!Drop
      <4>2. CASE e = S!Taker
        BY <4>1, <4>2, <3>1
      <4>3. CASE e # S!Taker
        <5>1. /\ share'[S!Taker] = share[S!Taker]
              /\ \A k \in S!Links : state'[S!Taker][k] = state[S!Taker][k]
          BY <4>1, <4>3, <3>1
        <5> QED
          BY <5>1, <4>1, <3>1
      <4> QED
        BY <4>2, <4>3
    <3>3. CASE ~(state[e][l] = "up" /\ S!UpAt(state', e) = {} /\ share[e] # "none")
      <4>1. share' = share
        BY <3>1, <3>3 DEF S!Drop
      <4>2. ASSUME share[S!Taker] \in {"waiting", "binding"}
            PROVE  \E k \in S!Links : state'[S!Taker][k] = "up"
        <5>1. PICK k \in S!Links : state[S!Taker][k] = "up"
          BY <4>2
        <5>2. CASE e = S!Taker /\ k = l
          BY <5>1, <5>2, <4>2, <3>3 DEF S!UpAt
        <5>3. CASE e # S!Taker \/ k # l
          BY <5>1, <5>3, <3>1
        <5> QED
          BY <5>2, <5>3
      <4> QED
        BY <4>1, <4>2, <3>1
    <3> QED
      BY <3>2, <3>3
  <2>4. CASE S!Receive(e, l)
    BY <2>4 DEF S!Receive, S!Take, S!Hear
  <2> QED
    BY <1>1, <2>1, <2>2, <2>3, <2>4 DEF S!LinkEvent
<1>2. ASSUME NEW l \in S!Links, S!ReceiveOffer(l) PROVE Others'
  BY <1>2 DEF S!ReceiveOffer, S!Take, S!Hear
<1>3. ASSUME NEW l \in S!Links, S!ReceiveAccept(l) PROVE Others'
  <2>1. /\ heard' = [heard EXCEPT ![S!Offerer][l] = now[S!Offerer]]
        /\ UNCHANGED <<state, now, lone>>
    BY <1>3 DEF S!ReceiveAccept, S!Take, S!Hear
  <2>2. CASE UNCHANGED <<share, key>>
    BY <2>1, <2>2
  <2>3. CASE share' = [share EXCEPT ![S!Offerer] = "keyed"] /\ S!DeriveKey(S!Offerer, heard')
    <3>1. PICK k \in S!Links : key' = [key EXCEPT ![S!Offerer] = k]
      BY <2>3 DEF S!DeriveKey, S!BestLink, S!UpAt
    <3> QED
      BY <2>1, <2>3, <3>1
  <2> QED
    BY <1>3, <2>2, <2>3 DEF S!ReceiveAccept
<1>4. CASE S!Offer
  BY <1>4, SMTT(30) DEF S!Offer
<1>5. CASE S!Listen
  <2>1. PICK k \in S!Links : key' = [key EXCEPT ![S!Taker] = k]
    BY <1>5 DEF S!Listen, S!DeriveKey, S!BestLink, S!UpAt
  <2> QED
    BY <2>1, <1>5 DEF S!Listen
<1>6. CASE S!Listening
  BY <1>6 DEF S!Listening
<1>7. ASSUME NEW e \in S!Ends, S!LocalSend(e) \/ S!Pass(e) PROVE Others'
  <2>1. CASE S!LocalSend(e)
    BY <2>1 DEF S!LocalSend
  <2>2. CASE S!Pass(e)
    <3>1. now' \in [S!Ends -> Nat]
      <4>1. now \in [S!Ends -> Nat] /\ now' = [now EXCEPT ![e] = @ + 1]
        BY <2>2 DEF S!Pass
      <4> QED
        BY ONLY <4>1
    <3> QED
      BY <2>2, <3>1 DEF S!Pass
  <2> QED
    BY <1>7, <2>1, <2>2
<1>8. CASE UNCHANGED S!vars
  BY <1>8 DEF S!vars
<1> QED
  BY <1>1, <1>2, <1>3, <1>4, <1>5, <1>6, <1>7, <1>8 DEF S!Next, S!Transfer

(* A direction in order has the frame its receiver waits for in front. *)
LEMMA OrderedIsReadable ==
  ASSUME S!ConfigAssumption, S!NoLinkAssumption
  PROVE  SessionsInv => S!InStep
<1> SUFFICES ASSUME SessionsInv, NEW e \in S!Ends, NEW l \in S!Links,
                    state[e][l] \in {"shaking", "up"}, wire[e][l] # <<>>,
                    l \notin refused[S!Other(e)]
             PROVE  S!Readable(e, l)
  BY DEF S!InStep
<1>1. Direction(state[e][l], state[S!Other(e)][l], wire[e][l], opened[e][l],
                sealed[S!Other(e)][l], l \in refused[S!Other(e)])
  BY DEF SessionsInv, InOrder, Directions
<1>2. wire[e][l] \in Seq(S!Frame) /\ opened[e][l] \in Nat
  BY DEF SessionsInv, S!TypeOK
<1>3. 1 \in 1 .. Len(wire[e][l]) /\ Head(wire[e][l]) = wire[e][l][1]
  BY <1>2
<1>4. wire[e][l][1].counter \in Nat
  <2>1. wire[e][l][1] \in S!Frame
    BY <1>2, <1>3
  <2> QED
    BY <2>1 DEF S!Frame
<1>5. CASE state[e][l] = "shaking"
  BY <1>1, <1>3, <1>5 DEF Direction, S!Readable
<1>6. CASE state[e][l] = "up"
  <2>1. wire[e][l][1].kind = "transport" /\ wire[e][l][1].counter + 0 + 1 = opened[e][l] + 1
    BY <1>1, <1>3, <1>6 DEF Direction, Ahead
  <2> QED
    BY <2>1, <1>2, <1>3, <1>4, <1>6 DEF S!Readable
<1> QED
  BY <1>5, <1>6

(* Unless the sender refused a message it had already sealed, the two ends *)
(* of every link stay in step, from message 2 to the last frame.           *)
THEOREM EndsStayInStep ==
  ASSUME S!ConfigAssumption, S!NoLinkAssumption
  PROVE  S!Spec => [](S!TypeOK /\ S!InStep)
<1>1. SessionsInv => S!TypeOK /\ S!InStep
  BY OrderedIsReadable DEF SessionsInv
<1>2. SessionsInv /\ [S!Next]_S!vars => SessionsInv'
  BY StepInOrder, StepTypes DEF SessionsInv
<1> QED
  BY <1>1, <1>2, SessionsInitInv, PTL DEF S!Spec


-----------------------------------------------------------------------------
(* One offer, one acceptance, one key.                                     *)
(*                                                                         *)
(* Which places of a queue hold a body, and that a queue u holds nothing   *)
(* of a body that v did not hold, further back by what has been read.      *)

Places(q, b) == {i \in 1 .. Len(q) : q[i].body = b}
Within(v, u, b) == \E s \in Nat : \A i \in Places(u, b) : i + s \in Places(v, b)
NoneNew(w, x, e, b) == \A l \in S!Links : Within(w[e][l], x[e][l], b)

(* A queue holds what it holds. *)
LEMMA WithinItself ==
  ASSUME S!ConfigAssumption, S!NoLinkAssumption,
         NEW v \in Seq(S!Frame), NEW b
  PROVE  Within(v, v, b)
<1>1. \A i \in Places(v, b) : i + 0 \in Places(v, b)
  BY DEF Places
<1> QED
  BY <1>1 DEF Within

(* An empty queue holds nothing. *)
LEMMA WithinEmpty ==
  ASSUME S!ConfigAssumption, S!NoLinkAssumption,
         NEW v, NEW b
  PROVE  Within(v, <<>>, b)
<1>1. Places(<<>>, b) = {}
  BY DEF Places
<1> QED
  BY <1>1 DEF Within

(* Reading the next frame adds nothing. *)
LEMMA WithinTail ==
  ASSUME S!ConfigAssumption, S!NoLinkAssumption,
         NEW v \in Seq(S!Frame), NEW b, v # <<>>
  PROVE  Within(v, Tail(v), b)
<1>1. ASSUME NEW i \in Places(Tail(v), b) PROVE i + 1 \in Places(v, b)
  <2>1. i \in 1 .. Len(Tail(v)) /\ Tail(v)[i].body = b
    BY DEF Places
  <2>2. Len(Tail(v)) = Len(v) - 1 /\ Len(v) \in Nat
    OBVIOUS
  <2>3. i + 1 \in 1 .. Len(v) /\ Tail(v)[i] = v[i + 1]
    BY <2>1, <2>2
  <2> QED
    BY <2>1, <2>3 DEF Places
<1> QED
  BY <1>1 DEF Within

(* A frame of another body adds nothing. *)
LEMMA WithinAppend ==
  ASSUME S!ConfigAssumption, S!NoLinkAssumption,
         NEW v, NEW u \in Seq(S!Frame), NEW b, NEW f \in S!Frame, f.body # b,
         Within(v, u, b)
  PROVE  Within(v, Append(u, f), b)
<1>1. PICK s \in Nat : \A i \in Places(u, b) : i + s \in Places(v, b)
  BY DEF Within
<1>2. Places(Append(u, f), b) \subseteq Places(u, b)
  <2> SUFFICES ASSUME NEW i \in 1 .. Len(Append(u, f)), Append(u, f)[i].body = b
               PROVE  i \in 1 .. Len(u) /\ u[i].body = b
    BY DEF Places
  <2>1. Len(Append(u, f)) = Len(u) + 1 /\ Len(u) \in Nat
    OBVIOUS
  <2>2. i # Len(u) + 1
    BY <2>1
  <2> QED
    BY <2>1, <2>2
<1> QED
  BY <1>1, <1>2 DEF Within

(* A message of another body, over whichever link it goes, leaves the      *)
(* queues of either end without a new one of this.                         *)
LEMMA SendsOther ==
  ASSUME S!ConfigAssumption, S!NoLinkAssumption,
         NEW e \in S!Ends, NEW d \in S!Ends, NEW st, NEW hd, NEW b,
         NEW w \in [S!Ends -> [S!Links -> Seq(S!Frame)]],
         sealed \in [S!Ends -> [S!Links -> Nat]],
         NoneNew(wire, w, d, b),
         \/ wire' = w
         \/ \E m \in S!Message : m.body # b /\ S!DispatchSend(e, st, hd, w, m)
  PROVE  NoneNew(wire, wire', d, b)
<1>1. CASE wire' = w
  BY <1>1
<1>2. CASE \E m \in S!Message : m.body # b /\ S!DispatchSend(e, st, hd, w, m)
  <2>1. PICK m \in S!Message : m.body # b /\ S!DispatchSend(e, st, hd, w, m)
    BY <1>2
  <2>2. CASE wire' = w
    BY <2>2
  <2>3. CASE \E l \in S!BestLink(st, hd, e) : S!SendOn(e, st, l, w, m)
    <3>1. PICK l \in S!BestLink(st, hd, e) : S!SendOn(e, st, l, w, m)
      BY <2>3
    <3> DEFINE f == [kind |-> "transport", counter |-> sealed[e][l], body |-> m.body]
               o == S!Other(e)
    <3>2. l \in S!Links /\ o \in S!Ends
      BY OtherEnd DEF S!BestLink, S!UpAt
    <3>3. f \in S!Frame /\ f.body # b
      BY <2>1, <3>2 DEF S!Frame, S!Message
    <3>4. wire' = w \/ wire' = [w EXCEPT ![o][l] = Append(@, f)]
      BY <3>1 DEF S!SendOn, S!Carry
    <3> HIDE DEF f, o
    <3>5. CASE wire' = [w EXCEPT ![o][l] = Append(@, f)]
      <4>1. ASSUME NEW k \in S!Links PROVE Within(wire[d][k], wire'[d][k], b)
        <5>1. CASE d = o /\ k = l
          <6>1. wire'[d][k] = Append(w[d][k], f) /\ w[d][k] \in Seq(S!Frame)
            BY <5>1, <3>5, <3>2
          <6>2. Within(wire[d][k], w[d][k], b)
            BY DEF NoneNew
          <6> QED
            BY <6>1, <6>2, <3>3, WithinAppend
        <5>2. CASE d # o \/ k # l
          BY <5>2, <3>5, <3>2 DEF NoneNew
        <5> QED
          BY <5>1, <5>2
      <4> QED
        BY <4>1 DEF NoneNew
    <3> QED
      BY <3>4, <3>5
  <2> QED
    BY <2>1, <2>2, <2>3 DEF S!DispatchSend
<1> QED
  BY <1>1, <1>2


(* Nothing that happens on a link puts an offer or an acceptance on a wire. *)
LEMMA LinkEventQuiet ==
  ASSUME S!ConfigAssumption, S!NoLinkAssumption,
         SessionsInv, NEW e \in S!Ends, NEW l \in S!Links, S!LinkEvent(e, l),
         NEW d \in S!Ends, NEW b, b # "plain"
  PROVE  NoneNew(wire, wire', d, b)
<1> USE OtherEnd
<1>1. /\ wire \in [S!Ends -> [S!Links -> Seq(S!Frame)]]
      /\ sealed \in [S!Ends -> [S!Links -> Nat]]
  BY DEF SessionsInv, S!TypeOK
<1>2. ASSUME NEW w \in [S!Ends -> [S!Links -> Seq(S!Frame)]], NEW c \in S!Ends, NEW u,
             \A k \in S!Links : k # l \/ d # c => w[d][k] = wire[d][k],
             d = c => w[d][l] = u, Within(wire[c][l], u, b)
      PROVE  NoneNew(wire, w, d, b)
  <2> SUFFICES ASSUME NEW k \in S!Links PROVE Within(wire[d][k], w[d][k], b)
    BY DEF NoneNew
  <2>1. CASE k = l /\ d = c
    BY <2>1, <1>2
  <2>2. CASE k # l \/ d # c
    <3>1. w[d][k] = wire[d][k] /\ wire[d][k] \in Seq(S!Frame)
      BY <2>2, <1>2, <1>1
    <3> QED
      BY <3>1, WithinItself
  <2> QED
    BY <2>1, <2>2
<1>3. ASSUME NEW st, NEW hd, NEW w \in [S!Ends -> [S!Links -> Seq(S!Frame)]],
             NoneNew(wire, w, d, b), S!MaybeSend(e, st, hd, w)
      PROVE  NoneNew(wire, wire', d, b)
  <2>1. \/ wire' = w
        \/ \E m \in S!Message : m.body # b /\ S!DispatchSend(e, st, hd, w, m)
    BY <1>3, PlainMessages DEF S!MaybeSend, S!Plain
  <2> QED
    BY <2>1, <1>1, <1>3, SendsOther
<1>4. CASE S!Respond(e, l)
  <2> DEFINE o == S!Other(e)
             st == [state EXCEPT ![e][l] = "up", ![o][l] = "shaking"]
             w == [wire EXCEPT ![o][l] = Append(@, S!Answer)]
             u == Append(wire[o][l], S!Answer)
  <2>1. S!Answer \in S!Frame /\ S!Answer.body # b
    BY DEF S!Answer, S!Frame, S!Bodies
  <2>2. wire[o][l] \in Seq(S!Frame) /\ u \in Seq(S!Frame)
    BY <1>1, <2>1
  <2>3. Within(wire[o][l], u, b)
    BY <2>1, <2>2, WithinItself, WithinAppend
  <2>4. w \in [S!Ends -> [S!Links -> Seq(S!Frame)]]
    BY <1>1, <2>2
  <2>5. /\ \A k \in S!Links : k # l \/ d # o => w[d][k] = wire[d][k]
        /\ d = o => w[d][l] = u
    BY <1>1
  <2>6. S!MaybeSend(e, st, heard', w)
    BY <1>4 DEF S!Respond
  <2>7. o \in S!Ends
    OBVIOUS
  <2> HIDE DEF o, st, w, u
  <2>8. NoneNew(wire, w, d, b)
    BY <2>3, <2>4, <2>5, <2>7, <1>2
  <2> QED
    BY <2>4, <2>6, <2>8, <1>3
<1>5. ASSUME wire[e][l] # <<>>
      PROVE  /\ [wire EXCEPT ![e][l] = Tail(@)] \in [S!Ends -> [S!Links -> Seq(S!Frame)]]
             /\ NoneNew(wire, [wire EXCEPT ![e][l] = Tail(@)], d, b)
  <2> DEFINE w == [wire EXCEPT ![e][l] = Tail(@)]
             u == Tail(wire[e][l])
  <2>1. wire[e][l] \in Seq(S!Frame) /\ u \in Seq(S!Frame)
    BY <1>1, <1>5
  <2>2. Within(wire[e][l], u, b)
    BY <2>1, <1>5, WithinTail
  <2>3. w \in [S!Ends -> [S!Links -> Seq(S!Frame)]]
    BY <1>1, <2>1
  <2>4. /\ \A k \in S!Links : k # l \/ d # e => w[d][k] = wire[d][k]
        /\ d = e => w[d][l] = u
    BY <1>1
  <2> HIDE DEF w, u
  <2>5. NoneNew(wire, w, d, b)
    BY <2>2, <2>3, <2>4, <1>2
  <2> QED
    BY <2>3, <2>5 DEF w
<1>6. CASE S!Finish(e, l)
  BY <1>6, <1>5, <1>3 DEF S!Finish
<1>7. CASE S!Receive(e, l)
  BY <1>7, <1>5, <1>3 DEF S!Receive, S!Take, S!Without
<1>8. CASE S!LinkDown(e, l) \/ S!Undecryptable(e, l)
  <2>1. wire' = [wire EXCEPT ![e][l] = <<>>]
    BY <1>8 DEF S!LinkDown, S!Undecryptable, S!Drop, S!Forget
  <2>2. wire' \in [S!Ends -> [S!Links -> Seq(S!Frame)]]
    BY <2>1, <1>1
  <2>3. /\ \A k \in S!Links : k # l \/ d # e => wire'[d][k] = wire[d][k]
        /\ d = e => wire'[d][l] = <<>>
    BY <2>1, <1>1
  <2>4. Within(wire[e][l], <<>>, b)
    BY WithinEmpty
  <2> QED
    BY <2>2, <2>3, <2>4, <1>2
<1> QED
  BY <1>4, <1>6, <1>7, <1>8 DEF S!LinkEvent

(* Taking a frame, and answering with a plain message or with nothing,     *)
(* puts none there either.                                                 *)
LEMMA TakeQuiet ==
  ASSUME S!ConfigAssumption, S!NoLinkAssumption,
         SessionsInv, NEW e \in S!Ends, NEW l \in S!Links, NEW c, S!Take(e, l, c),
         \/ wire' = S!Without(e, l)
         \/ S!DispatchSend(e, state, heard', S!Without(e, l), S!Small("plain")),
         NEW d \in S!Ends, NEW b, b # "plain"
  PROVE  NoneNew(wire, wire', d, b)
<1> DEFINE w == S!Without(e, l)
<1>1. /\ wire \in [S!Ends -> [S!Links -> Seq(S!Frame)]]
      /\ sealed \in [S!Ends -> [S!Links -> Nat]]
  BY DEF SessionsInv, S!TypeOK
<1>2. wire[e][l] \in Seq(S!Frame) /\ wire[e][l] # <<>>
  BY <1>1 DEF S!Take
<1>3. Tail(wire[e][l]) \in Seq(S!Frame)
  BY <1>2
<1>4. /\ w \in [S!Ends -> [S!Links -> Seq(S!Frame)]]
      /\ w[e][l] = Tail(wire[e][l])
      /\ \A k \in S!Links : k # l \/ d # e => w[d][k] = wire[d][k]
  BY <1>1, <1>3 DEF S!Without
<1> HIDE DEF w
<1>5. NoneNew(wire, w, d, b)
  <2> SUFFICES ASSUME NEW k \in S!Links PROVE Within(wire[d][k], w[d][k], b)
    BY DEF NoneNew
  <2>1. CASE k = l /\ d = e
    BY <2>1, <1>2, <1>4, WithinTail
  <2>2. CASE k # l \/ d # e
    <3>1. w[d][k] = wire[d][k] /\ wire[d][k] \in Seq(S!Frame)
      BY <2>2, <1>1, <1>4
    <3> QED
      BY <3>1, WithinItself
  <2> QED
    BY <2>1, <2>2
<1>6. \/ wire' = w
      \/ \E m \in S!Message : m.body # b /\ S!DispatchSend(e, state, heard', w, m)
  <2>1. S!Small("plain") \in S!Message /\ S!Small("plain").body # b
    BY DEF S!Small, S!Message, S!Bodies
  <2> QED
    BY <2>1 DEF w
<1> QED
  BY <1>1, <1>4, <1>5, <1>6, SendsOther

(* Sending a message of one body puts none of another on a wire. *)
LEMMA SendQuiet ==
  ASSUME S!ConfigAssumption, S!NoLinkAssumption,
         SessionsInv, NEW e \in S!Ends, NEW m \in S!Message,
         S!DispatchSend(e, state, heard, wire, m),
         NEW d \in S!Ends, NEW b, b # m.body
  PROVE  NoneNew(wire, wire', d, b)
<1>1. /\ wire \in [S!Ends -> [S!Links -> Seq(S!Frame)]]
      /\ sealed \in [S!Ends -> [S!Links -> Nat]]
  BY DEF SessionsInv, S!TypeOK
<1>2. NoneNew(wire, wire, d, b)
  <2>1. \A k \in S!Links : wire[d][k] \in Seq(S!Frame)
    BY <1>1
  <2> QED
    BY <2>1, WithinItself DEF NoneNew
<1> QED
  BY <1>1, <1>2, SendsOther

(* No wire changes, no frame is new. *)
LEMMA StillQuiet ==
  ASSUME S!ConfigAssumption, S!NoLinkAssumption,
         SessionsInv, wire' = wire, NEW d \in S!Ends, NEW b
  PROVE  NoneNew(wire, wire', d, b)
<1>1. \A k \in S!Links : wire[d][k] \in Seq(S!Frame)
  BY DEF SessionsInv, S!TypeOK
<1> QED
  BY <1>1, WithinItself DEF NoneNew


-----------------------------------------------------------------------------
OffersAt(l) == Places(wire[S!Taker][l], "offer")
AcceptsAt(l) == Places(wire[S!Offerer][l], "accept")

(* The file is offered once: before that nobody has heard of it, and while *)
(* the offer is on its way nobody has.  A taker who has not heard of it or *)
(* not answered has no key.                                                *)
OfferInv ==
  /\ share[S!Offerer] = "none" =>
       share[S!Taker] = "none" /\ \A l \in S!Links : OffersAt(l) = {}
  /\ \A l, m \in S!Links : \A i \in OffersAt(l), j \in OffersAt(m) : l = m /\ i = j
  /\ \A l \in S!Links : OffersAt(l) # {} => share[S!Taker] = "none"
  /\ share[S!Taker] \in {"none", "waiting"} => key[S!Taker] = NoLink

AtMostOneUp == \A e \in S!Ends : \A l, m \in S!UpAt(state, e) : l = m

(* With one session at a time: the taker who binds a port still has the    *)
(* session its key is from, an acceptance travels on that session, and the *)
(* offerer's key, once there is one, is from it too.                       *)
KeyInv ==
  lone =>
    /\ AtMostOneUp
    /\ share[S!Taker] = "binding" => key[S!Taker] \in S!UpAt(state, S!Taker)
    /\ \A l \in S!Links : AcceptsAt(l) # {} => key[S!Taker] = l
    /\ key[S!Offerer] # NoLink => key[S!Offerer] = key[S!Taker]

(* Steps that put no offer on a wire and tell the taker of none keep the   *)
(* offer in one place.                                                     *)
LEMMA OfferKept ==
  ASSUME S!ConfigAssumption, S!NoLinkAssumption,
         OfferInv,
         NoneNew(wire, wire', S!Taker, "offer"),
         share'[S!Offerer] = "none" => share[S!Offerer] = "none",
         \/ share'[S!Taker] = share[S!Taker] /\ key'[S!Taker] = key[S!Taker]
         \/ share[S!Taker] # "none" /\ share'[S!Taker] \notin {"none", "waiting"}
  PROVE  OfferInv'
<1>1. ASSUME NEW l \in S!Links
      PROVE  \E s \in Nat : \A i \in OffersAt(l)' : i + s \in OffersAt(l)
  BY DEF NoneNew, Within, OffersAt
<1>2. \A l \in S!Links : OffersAt(l)' # {} => OffersAt(l) # {}
  <2> SUFFICES ASSUME NEW l \in S!Links, OffersAt(l)' # {} PROVE OffersAt(l) # {}
    OBVIOUS
  <2> QED
    BY <1>1
<1>3. ASSUME NEW l \in S!Links, NEW m \in S!Links,
             NEW i \in OffersAt(l)', NEW j \in OffersAt(m)'
      PROVE  l = m /\ i = j
  <2>1. PICK a \in OffersAt(l), b \in OffersAt(m) : TRUE
    BY <1>2, <1>3
  <2>2. l = m
    BY <2>1 DEF OfferInv
  <2>3. PICK s \in Nat : \A k \in OffersAt(l)' : k + s \in OffersAt(l)
    BY <1>1
  <2>4. i + s = j + s
    BY <2>2, <2>3 DEF OfferInv
  <2>5. i \in Nat /\ j \in Nat
    BY DEF OffersAt, Places
  <2> QED
    BY <2>2, <2>4, <2>5
<1> QED
  BY <1>2, <1>3 DEF OfferInv

(* Steps that send no acceptance and set no key keep the keys, if they     *)
(* leave the taker's session alone while it binds.                         *)
LEMMA KeyKept ==
  ASSUME S!ConfigAssumption, S!NoLinkAssumption,
         KeyInv,
         NoneNew(wire, wire', S!Offerer, "accept"),
         key' = key,
         lone' => lone /\ AtMostOneUp',
         lone' /\ share'[S!Taker] = "binding" =>
           /\ share[S!Taker] = "binding"
           /\ key[S!Taker] \in S!UpAt(state, S!Taker) => key[S!Taker] \in S!UpAt(state', S!Taker)
  PROVE  KeyInv'
<1>1. ASSUME NEW l \in S!Links, AcceptsAt(l)' # {} PROVE AcceptsAt(l) # {}
  <2>1. \E s \in Nat : \A i \in AcceptsAt(l)' : i + s \in AcceptsAt(l)
    BY DEF NoneNew, Within, AcceptsAt
  <2> QED
    BY <2>1, <1>1
<1> QED
  BY <1>1 DEF KeyInv

(* Whatever happens on a link keeps both. *)
LEMMA LinkEventKeepsKeys ==
  ASSUME S!ConfigAssumption, S!NoLinkAssumption,
         SessionsInv, OfferInv, KeyInv, NEW e \in S!Ends, NEW l \in S!Links, S!LinkEvent(e, l)
  PROVE  OfferInv' /\ KeyInv'
<1> USE DEF S!Offerer, S!Taker, S!Ends
<1>1. /\ NoneNew(wire, wire', S!Taker, "offer")
      /\ NoneNew(wire, wire', S!Offerer, "accept")
  BY LinkEventQuiet
<1>2. /\ state \in [S!Ends -> [S!Links -> {"none", "shaking", "up", "gone"}]]
      /\ share \in [S!Ends -> {"none", "waiting", "binding", "keyed", "dropped"}]
  BY DEF SessionsInv, S!TypeOK
<1>3. CASE S!Respond(e, l) \/ S!Finish(e, l)
  <2>1. share' = share /\ key' = key /\ S!StillLone(state')
    BY <1>3 DEF S!Respond, S!Finish
  <2>2. lone' => lone /\ AtMostOneUp'
    BY <2>1 DEF S!StillLone, AtMostOneUp
  <2>3. ASSUME NEW d \in S!Ends PROVE S!UpAt(state, d) \subseteq S!UpAt(state', d)
    <3>1. CASE S!Respond(e, l)
      BY <3>1, <1>2 DEF S!Respond, S!UpAt, S!Other
    <3>2. CASE S!Finish(e, l)
      BY <3>2, <1>2 DEF S!Finish, S!UpAt
    <3> QED
      BY <1>3, <3>1, <3>2
  <2> QED
    BY <1>1, <2>1, <2>2, <2>3, OfferKept, KeyKept
<1>4. CASE S!Receive(e, l)
  <2>1. share' = share /\ key' = key /\ lone' = lone /\ state' = state
    BY <1>4 DEF S!Receive, S!Take
  <2>2. lone' => lone /\ AtMostOneUp'
    BY <2>1 DEF AtMostOneUp, KeyInv
  <2> QED
    BY <1>1, <2>1, <2>2, OfferKept, KeyKept
<1>5. CASE S!LinkDown(e, l) \/ S!Undecryptable(e, l)
  <2>1. /\ key' = key /\ lone' = lone
        /\ state' = [state EXCEPT ![e][l] = "gone"]
        /\ share' = IF state[e][l] = "up" /\ S!UpAt(state', e) = {} /\ share[e] # "none"
                      THEN [share EXCEPT ![e] = "dropped"] ELSE share
    BY <1>5 DEF S!LinkDown, S!Undecryptable, S!Drop
  <2>2. \A d \in S!Ends : S!UpAt(state', d) =
          IF d = e THEN S!UpAt(state, d) \ {l} ELSE S!UpAt(state, d)
    BY <2>1, <1>2 DEF S!UpAt
  <2>3. \A d \in S!Ends : share'[d] # share[d] => share[d] # "none" /\ share'[d] = "dropped"
    BY <2>1, <1>2
  <2>4. lone' => lone /\ AtMostOneUp'
    BY <2>1, <2>2 DEF AtMostOneUp, KeyInv
  <2>5. ASSUME lone', share'[S!Taker] = "binding", key[S!Taker] \in S!UpAt(state, S!Taker)
        PROVE  key[S!Taker] \in S!UpAt(state', S!Taker)
    <3>1. CASE e = S!Taker /\ l = key[S!Taker]
      <4>1. S!UpAt(state, S!Taker) = {l}
        BY <3>1, <2>5, <2>1 DEF KeyInv, AtMostOneUp
      <4>2. S!UpAt(state', e) = {} /\ state[e][l] = "up"
        BY <4>1, <3>1, <2>2, <2>5 DEF S!UpAt
      <4>3. share[e] # "none"
        BY <3>1, <2>3, <2>5
      <4> QED
        BY <4>2, <4>3, <3>1, <2>1, <2>5, <1>2
    <3>2. CASE e # S!Taker \/ l # key[S!Taker]
      BY <3>2, <2>2, <2>5
    <3> QED
      BY <3>1, <3>2
  <2> QED
    BY <1>1, <2>1, <2>3, <2>4, <2>5, OfferKept, KeyKept
<1> QED
  BY <1>3, <1>4, <1>5 DEF S!LinkEvent


(* The one offer goes out on one link, and is the only one. *)
LEMMA OfferKeepsKeys ==
  ASSUME S!ConfigAssumption, S!NoLinkAssumption,
         SessionsInv, OfferInv, KeyInv, S!Offer
  PROVE  OfferInv' /\ KeyInv'
<1> USE DEF S!Offerer, S!Taker, S!Ends
<1>1. /\ wire \in [S!Ends -> [S!Links -> Seq(S!Frame)]]
      /\ sealed \in [S!Ends -> [S!Links -> Nat]]
      /\ share \in [S!Ends -> {"none", "waiting", "binding", "keyed", "dropped"}]
  BY DEF SessionsInv, S!TypeOK
<1>2. /\ share[S!Offerer] = "none" /\ share' = [share EXCEPT ![S!Offerer] = "waiting"]
      /\ UNCHANGED <<state, key, lone>>
      /\ S!DispatchSend(S!Offerer, state, heard, wire, S!Small("offer"))
  BY DEF S!Offer
<1>3. share'[S!Offerer] = "waiting" /\ share'[S!Taker] = "none" /\ share[S!Taker] = "none"
  BY <1>1, <1>2 DEF OfferInv
<1>4. S!Small("offer") \in S!Message /\ S!Small("offer").body = "offer"
  BY DEF S!Small, S!Message, S!Bodies
<1>5. NoneNew(wire, wire', S!Offerer, "accept")
  BY <1>2, <1>4, SendQuiet
<1>6. \A l \in S!Links : OffersAt(l) = {}
  BY <1>2 DEF OfferInv
<1>7. \A l, m \in S!Links : \A i \in OffersAt(l)', j \in OffersAt(m)' : l = m /\ i = j
  <2>1. CASE wire' = wire
    BY <2>1, <1>6 DEF OffersAt
  <2>2. CASE wire' # wire
    <3>1. PICK k \in S!BestLink(state, heard, S!Offerer) :
            S!SendOn(S!Offerer, state, k, wire, S!Small("offer"))
      BY <2>2, <1>2 DEF S!DispatchSend
    <3> DEFINE f == [kind |-> "transport", counter |-> sealed[S!Offerer][k], body |-> "offer"]
    <3>2. k \in S!Links
      BY DEF S!BestLink, S!UpAt
    <3>3. wire' = [wire EXCEPT ![S!Taker][k] = Append(@, f)]
      BY <3>1, <2>2, <1>4 DEF S!SendOn, S!Carry, S!Other
    <3>4. f \in S!Frame
      BY <1>1, <3>2 DEF S!Frame, S!Bodies
    <3>5. /\ wire[S!Taker][k] \in Seq(S!Frame) /\ wire'[S!Taker][k] = Append(wire[S!Taker][k], f)
          /\ \A l \in S!Links : l # k => wire'[S!Taker][l] = wire[S!Taker][l]
      BY <1>1, <3>2, <3>3
    <3> HIDE DEF f
    <3>6. \A l \in S!Links : l # k => OffersAt(l)' = {}
      BY <1>6, <3>5 DEF OffersAt
    <3>7. ASSUME NEW i \in OffersAt(k)' PROVE i = Len(wire[S!Taker][k]) + 1
      <4>1. /\ i \in 1 .. Len(Append(wire[S!Taker][k], f))
            /\ Append(wire[S!Taker][k], f)[i].body = "offer"
        BY <3>5 DEF OffersAt, Places
      <4>2. i \notin 1 .. Len(wire[S!Taker][k]) \/ wire[S!Taker][k][i].body # "offer"
        BY <1>6, <3>2 DEF OffersAt, Places
      <4>3. /\ Len(Append(wire[S!Taker][k], f)) = Len(wire[S!Taker][k]) + 1
            /\ Len(wire[S!Taker][k]) \in Nat
        BY <3>4, <3>5
      <4>4. i \in 1 .. Len(wire[S!Taker][k]) => Append(wire[S!Taker][k], f)[i] = wire[S!Taker][k][i]
        BY <3>4, <3>5
      <4> QED
        BY <4>1, <4>2, <4>3, <4>4
    <3> QED
      BY <3>6, <3>7
  <2> QED
    BY <2>1, <2>2
<1>8. OfferInv'
  BY <1>2, <1>3, <1>7 DEF OfferInv
<1>9. lone' => lone /\ AtMostOneUp'
  BY <1>2 DEF AtMostOneUp, KeyInv
<1> QED
  BY <1>2, <1>3, <1>5, <1>8, <1>9, KeyKept

(* Once it has been read there is none on its way. *)
LEMMA ReceiveOfferKeepsKeys ==
  ASSUME S!ConfigAssumption, S!NoLinkAssumption,
         SessionsInv, OfferInv, KeyInv, NEW l \in S!Links, S!ReceiveOffer(l)
  PROVE  OfferInv' /\ KeyInv'
<1> USE DEF S!Offerer, S!Taker, S!Ends
<1>1. /\ wire \in [S!Ends -> [S!Links -> Seq(S!Frame)]]
      /\ share \in [S!Ends -> {"none", "waiting", "binding", "keyed", "dropped"}]
  BY DEF SessionsInv, S!TypeOK
<1>2. /\ S!Take(S!Taker, l, "offer") /\ wire' = S!Without(S!Taker, l)
      /\ wire[S!Taker][l] # <<>> /\ Head(wire[S!Taker][l]).body = "offer"
      /\ share' = [share EXCEPT ![S!Taker] = "waiting"]
      /\ UNCHANGED <<state, key, lone>>
  BY DEF S!ReceiveOffer, S!Take
<1>3. NoneNew(wire, wire', S!Offerer, "accept")
  BY <1>2, TakeQuiet
<1>4. wire[S!Taker][l] \in Seq(S!Frame)
  BY <1>1
<1>5. 1 \in OffersAt(l)
  BY <1>2, <1>4 DEF OffersAt, Places
<1>6. share[S!Taker] = "none" /\ share[S!Offerer] # "none" /\ key[S!Taker] = NoLink
  BY <1>5 DEF OfferInv
<1>7. share'[S!Taker] = "waiting" /\ share'[S!Offerer] = share[S!Offerer]
  BY <1>1, <1>2
<1>8. ASSUME NEW m \in S!Links, NEW i \in OffersAt(m)' PROVE FALSE
  <2>1. CASE m # l
    <3>1. wire'[S!Taker][m] = wire[S!Taker][m]
      BY <2>1, <1>1, <1>2 DEF S!Without
    <3>2. i \in OffersAt(m)
      BY <3>1 DEF OffersAt
    <3> QED
      BY <3>2, <2>1, <1>5 DEF OfferInv
  <2>2. CASE m = l
    <3>1. wire'[S!Taker][l] = Tail(wire[S!Taker][l])
      BY <1>1, <1>2 DEF S!Without
    <3>2. i \in 1 .. Len(Tail(wire[S!Taker][l])) /\ Tail(wire[S!Taker][l])[i].body = "offer"
      BY <3>1, <2>2 DEF OffersAt, Places
    <3>3. Len(Tail(wire[S!Taker][l])) = Len(wire[S!Taker][l]) - 1 /\ Len(wire[S!Taker][l]) \in Nat
      BY <1>2, <1>4
    <3>4. /\ i + 1 \in 1 .. Len(wire[S!Taker][l])
          /\ Tail(wire[S!Taker][l])[i] = wire[S!Taker][l][i + 1]
      BY <3>2, <3>3, <1>2, <1>4
    <3>5. i + 1 \in OffersAt(l)
      BY <3>2, <3>4 DEF OffersAt, Places
    <3>6. i + 1 = 1
      BY <3>5, <1>5 DEF OfferInv
    <3> QED
      BY <3>6, <3>2
  <2> QED
    BY <2>1, <2>2
<1>9. OfferInv'
  BY <1>2, <1>6, <1>7, <1>8 DEF OfferInv
<1>10. lone' => lone /\ AtMostOneUp'
  BY <1>2 DEF AtMostOneUp, KeyInv
<1> QED
  BY <1>2, <1>3, <1>7, <1>9, <1>10, KeyKept

(* The link a key is derived from, and an acceptance sent on, is up. *)
LEMMA BestIsUp ==
  ASSUME S!ConfigAssumption, S!NoLinkAssumption,
         NEW st, NEW hd, NEW e
  PROVE  S!BestLink(st, hd, e) \subseteq S!UpAt(st, e)
  BY DEF S!BestLink

(* The taker's key is new, and from its only session. *)
LEMMA ListenKeepsKeys ==
  ASSUME S!ConfigAssumption, S!NoLinkAssumption,
         SessionsInv, OfferInv, KeyInv, S!Listen
  PROVE  OfferInv' /\ KeyInv'
<1> USE DEF S!Offerer, S!Taker, S!Ends
<1>1. /\ share \in [S!Ends -> {"none", "waiting", "binding", "keyed", "dropped"}]
      /\ key \in [S!Ends -> S!Links \cup {NoLink}]
  BY DEF SessionsInv, S!TypeOK
<1>2. /\ share[S!Taker] = "waiting" /\ share' = [share EXCEPT ![S!Taker] = "binding"]
      /\ UNCHANGED <<state, wire, lone>>
  BY DEF S!Listen
<1>3. PICK k \in S!UpAt(state, S!Taker) : key' = [key EXCEPT ![S!Taker] = k]
  BY BestIsUp DEF S!Listen, S!DeriveKey
<1>4. share'[S!Taker] = "binding" /\ share'[S!Offerer] = share[S!Offerer]
  BY <1>1, <1>2
<1>5. key'[S!Taker] = k /\ key'[S!Offerer] = key[S!Offerer] /\ key[S!Taker] = NoLink
  BY <1>1, <1>2, <1>3 DEF OfferInv
<1>6. NoneNew(wire, wire', S!Taker, "offer")
  BY <1>2, StillQuiet
<1>7. OfferInv'
  BY <1>2, <1>4, <1>6, OfferKept
<1>8. ASSUME lone' PROVE /\ AtMostOneUp'
                         /\ key'[S!Taker] \in S!UpAt(state', S!Taker)
                         /\ \A l \in S!Links : AcceptsAt(l)' = {}
                         /\ key'[S!Offerer] = NoLink
  <2>1. lone /\ AtMostOneUp
    BY <1>2, <1>8 DEF KeyInv
  <2>2. \A l \in S!Links : AcceptsAt(l) = {}
    BY <2>1, <1>5 DEF KeyInv
  <2>3. key[S!Offerer] = NoLink
    BY <2>1, <1>5 DEF KeyInv
  <2> QED
    BY <2>1, <2>2, <2>3, <1>2, <1>3, <1>5 DEF AtMostOneUp, AcceptsAt
<1> QED
  BY <1>7, <1>8 DEF KeyInv

(* The acceptance goes out on the session the taker's key is from. *)
LEMMA ListeningKeepsKeys ==
  ASSUME S!ConfigAssumption, S!NoLinkAssumption,
         SessionsInv, OfferInv, KeyInv, S!Listening
  PROVE  OfferInv' /\ KeyInv'
<1> USE DEF S!Offerer, S!Taker, S!Ends
<1>1. /\ wire \in [S!Ends -> [S!Links -> Seq(S!Frame)]]
      /\ sealed \in [S!Ends -> [S!Links -> Nat]]
      /\ share \in [S!Ends -> {"none", "waiting", "binding", "keyed", "dropped"}]
  BY DEF SessionsInv, S!TypeOK
<1>2. /\ share[S!Taker] = "binding" /\ share' = [share EXCEPT ![S!Taker] = "keyed"]
      /\ UNCHANGED <<state, key, lone>>
      /\ S!DispatchSend(S!Taker, state, heard, wire, S!Small("accept"))
  BY DEF S!Listening
<1>3. share'[S!Taker] = "keyed" /\ share'[S!Offerer] = share[S!Offerer]
  BY <1>1, <1>2
<1>4. S!Small("accept") \in S!Message /\ S!Small("accept").body = "accept"
  BY DEF S!Small, S!Message, S!Bodies
<1>5. NoneNew(wire, wire', S!Taker, "offer")
  BY <1>2, <1>4, SendQuiet
<1>6. OfferInv'
  BY <1>2, <1>3, <1>5, OfferKept
<1>7. ASSUME lone', NEW l \in S!Links, AcceptsAt(l)' # {} PROVE key[S!Taker] = l
  <2>1. lone
    BY <1>2, <1>7
  <2>2. CASE wire'[S!Offerer][l] = wire[S!Offerer][l]
    BY <2>1, <2>2, <1>7 DEF AcceptsAt, KeyInv
  <2>3. CASE wire'[S!Offerer][l] # wire[S!Offerer][l]
    <3>1. PICK k \in S!BestLink(state, heard, S!Taker) :
            S!SendOn(S!Taker, state, k, wire, S!Small("accept"))
      BY <2>3, <1>2 DEF S!DispatchSend
    <3>2. k \in S!UpAt(state, S!Taker)
      BY BestIsUp
    <3>3. k \in S!Links
      BY <3>2 DEF S!UpAt
    <3>4. l = k
      BY <3>1, <3>3, <2>3, <1>1 DEF S!SendOn, S!Carry, S!Other
    <3> QED
      BY <3>2, <3>4, <2>1, <1>2 DEF KeyInv, AtMostOneUp
  <2> QED
    BY <2>2, <2>3
<1>8. KeyInv'
  BY <1>2, <1>3, <1>7 DEF KeyInv, AtMostOneUp
<1> QED
  BY <1>6, <1>8

(* The offerer's only session is the one the acceptance came on. *)
LEMMA ReceiveAcceptKeepsKeys ==
  ASSUME S!ConfigAssumption, S!NoLinkAssumption,
         SessionsInv, OfferInv, KeyInv, NEW l \in S!Links, S!ReceiveAccept(l)
  PROVE  OfferInv' /\ KeyInv'
<1> USE DEF S!Offerer, S!Taker, S!Ends
<1>1. /\ wire \in [S!Ends -> [S!Links -> Seq(S!Frame)]]
      /\ share \in [S!Ends -> {"none", "waiting", "binding", "keyed", "dropped"}]
      /\ key \in [S!Ends -> S!Links \cup {NoLink}]
  BY DEF SessionsInv, S!TypeOK
<1>2. /\ S!Take(S!Offerer, l, "accept")
      /\ state[S!Offerer][l] = "up"
      /\ wire[S!Offerer][l] # <<>> /\ Head(wire[S!Offerer][l]).body = "accept"
      /\ UNCHANGED <<state, lone>>
  BY DEF S!ReceiveAccept, S!Take
<1>3. \/ wire' = S!Without(S!Offerer, l)
      \/ S!DispatchSend(S!Offerer, state, heard', S!Without(S!Offerer, l), S!Small("plain"))
  BY DEF S!ReceiveAccept
<1>4. /\ NoneNew(wire, wire', S!Taker, "offer")
      /\ NoneNew(wire, wire', S!Offerer, "accept")
  BY <1>2, <1>3, TakeQuiet
<1>5. lone' => lone /\ AtMostOneUp'
  BY <1>2 DEF AtMostOneUp, KeyInv
<1>6. CASE UNCHANGED <<share, key>>
  BY <1>2, <1>4, <1>5, <1>6, OfferKept, KeyKept
<1>7. CASE share' = [share EXCEPT ![S!Offerer] = "keyed"] /\ S!DeriveKey(S!Offerer, heard')
  <2>1. PICK k \in S!UpAt(state, S!Offerer) : key' = [key EXCEPT ![S!Offerer] = k]
    BY <1>7, BestIsUp DEF S!DeriveKey
  <2>2. /\ share'[S!Offerer] = "keyed" /\ share'[S!Taker] = share[S!Taker]
        /\ key'[S!Offerer] = k /\ key'[S!Taker] = key[S!Taker]
    BY <1>1, <1>7, <2>1
  <2>3. OfferInv'
    BY <2>2, <1>4, OfferKept
  <2>4. wire[S!Offerer][l] \in Seq(S!Frame)
    BY <1>1
  <2>5. 1 \in AcceptsAt(l)
    BY <2>4, <1>2 DEF AcceptsAt, Places
  <2>6. ASSUME lone' PROVE k = key[S!Taker]
    <3>1. lone /\ key[S!Taker] = l /\ AtMostOneUp
      BY <2>5, <2>6, <1>2 DEF KeyInv
    <3>2. k = l
      BY <3>1, <2>1, <1>2 DEF AtMostOneUp, S!UpAt
    <3> QED
      BY <3>1, <3>2
  <2>7. ASSUME NEW m \in S!Links, AcceptsAt(m)' # {} PROVE AcceptsAt(m) # {}
    <3>1. \E s \in Nat : \A i \in AcceptsAt(m)' : i + s \in AcceptsAt(m)
      BY <1>4 DEF NoneNew, Within, AcceptsAt
    <3> QED
      BY <3>1, <2>7
  <2>8. KeyInv'
    BY <2>2, <2>6, <2>7, <1>2, <1>5 DEF KeyInv
  <2> QED
    BY <2>3, <2>8
<1> QED
  BY <1>6, <1>7 DEF S!ReceiveAccept

(* Through losses and reconnections, for every set of links: as long as    *)
(* neither end has two sessions at a time, both derive a transfer's key    *)
(* from the same session (handshake_hash_for, dispatch_bulk).              *)
THEOREM OneSessionOneKey ==
  ASSUME S!ConfigAssumption, S!NoLinkAssumption
  PROVE  S!Spec => []S!SameKeyIfLone
<1> DEFINE IInv == SessionsInv /\ OfferInv /\ KeyInv
<1>1. S!Init => IInv
  <2> SUFFICES ASSUME S!Init PROVE OfferInv /\ KeyInv
    BY SessionsInitInv
  <2>1. \A e \in S!Ends, l \in S!Links : wire[e][l] = <<>> /\ state[e][l] = "none"
    BY DEF S!Init
  <2>2. \A b : Places(<<>>, b) = {}
    BY DEF Places
  <2>3. \A l \in S!Links : OffersAt(l) = {} /\ AcceptsAt(l) = {}
    BY <2>1, <2>2 DEF OffersAt, AcceptsAt, S!Offerer, S!Taker, S!Ends
  <2>4. \A e \in S!Ends : S!UpAt(state, e) = {} /\ share[e] = "none" /\ key[e] = NoLink
    BY <2>1 DEF S!UpAt, S!Init
  <2> QED
    BY <2>3, <2>4 DEF OfferInv, KeyInv, AtMostOneUp, S!Offerer, S!Taker, S!Ends
<1>2. IInv /\ [S!Next]_S!vars => IInv'
  <2> SUFFICES ASSUME SessionsInv, OfferInv, KeyInv, [S!Next]_S!vars PROVE OfferInv' /\ KeyInv'
    BY StepInOrder, StepTypes DEF SessionsInv
  <2>1. ASSUME NEW e \in S!Ends, S!LocalSend(e) PROVE OfferInv' /\ KeyInv'
    <3>1. PICK m \in S!Plain : S!DispatchSend(e, state, heard, wire, m)
      BY <2>1 DEF S!LocalSend
    <3>2. m \in S!Message /\ m.body = "plain"
      BY PlainMessages DEF S!Plain
    <3>3. /\ NoneNew(wire, wire', S!Taker, "offer")
          /\ NoneNew(wire, wire', S!Offerer, "accept")
      BY <3>1, <3>2, SendQuiet DEF S!Offerer, S!Taker, S!Ends
    <3>4. UNCHANGED <<state, share, key, lone>>
      BY <2>1 DEF S!LocalSend
    <3>5. lone' => lone /\ AtMostOneUp'
      BY <3>4 DEF AtMostOneUp, KeyInv
    <3> QED
      BY <3>3, <3>4, <3>5, OfferKept, KeyKept
  <2>2. ASSUME UNCHANGED <<state, wire, share, key, lone>> PROVE OfferInv' /\ KeyInv'
    BY <2>2 DEF OfferInv, KeyInv, OffersAt, AcceptsAt, AtMostOneUp
  <2>3. CASE (\E e \in S!Ends : S!Pass(e)) \/ UNCHANGED S!vars
    BY <2>2, <2>3 DEF S!Pass, S!vars
  <2> QED
    BY <2>1, <2>3, LinkEventKeepsKeys, OfferKeepsKeys, ReceiveOfferKeepsKeys,
       ReceiveAcceptKeepsKeys, ListenKeepsKeys, ListeningKeepsKeys DEF S!Next, S!Transfer
<1>3. IInv => S!SameKeyIfLone
  BY DEF KeyInv, S!SameKeyIfLone, S!SameKey, S!Keyed, S!Offerer, S!Taker, S!Ends
<1> QED
  BY <1>1, <1>2, <1>3, PTL DEF S!Spec

-----------------------------------------------------------------------------
(* Dialling. *)

(* ToldIsTrue is inductive only without MalformedOnUp, which loses a link  *)
(* without a word; the other four do not depend on it.                     *)
Inv ==
  /\ TypeOK
  /\ UpIsPaired
  /\ TroubleMeansDown
  /\ UpIsTold
  /\ ~MalformedFrames => ToldIsTrue

USE ConfigAssumption, NoLinkAssumption

(* A new attempt on a non-empty route list is an attempt. *)
LEMMA NewDialType ==
  ASSUME NEW routes \in SUBSET Transports, routes # {}, NEW hand \in BOOLEAN
  PROVE  NewDial(routes, hand) \in Attempt
  BY TransportsAssumption DEF NewDial, Attempt

(* The empty slot is an attempt. *)
LEMMA NoAttemptType == NoAttempt \in Attempt
  BY DEF NoAttempt, Attempt

(* Moving an attempt down its list leaves an attempt or nothing. *)
LEMMA AdvanceType ==
  ASSUME NEW a \in Attempt
  PROVE  Advance(a) \in Attempt
<1>1. a.rest \in SUBSET Transports /\ a.hand \in BOOLEAN
  BY DEF Attempt
<1> QED
  BY <1>1, NewDialType, NoAttemptType DEF Advance

(* The initial state satisfies the inductive invariant. *)
LEMMA InitInv == Init => Inv
<1> SUFFICES ASSUME Init PROVE Inv
  OBVIOUS
<1>1. attempts \in [Slots -> Attempt]
  BY NoAttemptType DEF Init
<1> QED
  BY <1>1 DEF Init, Inv, TypeOK, UpIsPaired, TroubleMeansDown, UpIsTold,
      ToldIsTrue
(* try_next_route on any of the attempts keeps them attempts, and says     *)
(* "unreachable" only when nothing is up.                                  *)
LEMMA TryNextRoutesStep ==
  ASSUME Inv, NEW ks \in SUBSET Slots, TryNextRoutes(ks)
  PROVE  /\ attempts' \in [Slots -> Attempt]
         /\ trouble' \in BOOLEAN
         /\ trouble' => trouble \/ up = {}
         /\ told' = told \/ (told' = "unreachable" /\ up = {})
         /\ asked' = asked \/ asked' = FALSE
<1> DEFINE given == \E k \in ks : GivesUp(attempts[k])
<1> DEFINE asker == \E k \in ks : GivesUp(attempts[k]) /\ attempts[k].hand
<1>1. ASSUME NEW k \in Slots PROVE Advance(attempts[k]) \in Attempt
  BY AdvanceType DEF Inv, TypeOK
<1>2. attempts' \in [Slots -> Attempt]
  BY <1>1 DEF TryNextRoutes, Inv, TypeOK
<1>3. (given => up = {}) /\ (asker => up = {})
  BY DEF GivesUp
<1>4. trouble' = (trouble \/ given)
  BY Zenon DEF TryNextRoutes
<1>5. IF asker THEN told' = "unreachable" /\ asked' = FALSE
      ELSE told' = told /\ asked' = asked
  BY Zenon DEF TryNextRoutes, Tell, SayNothing
<1> HIDE DEF given, asker
<1>6. trouble' \in BOOLEAN
  BY <1>4
<1>7. trouble' => trouble \/ up = {}
  BY <1>3, <1>4
<1>8. /\ told' = told \/ (told' = "unreachable" /\ up = {})
      /\ asked' = asked \/ asked' = FALSE
  BY <1>3, <1>5
<1> QED
  BY <1>2, <1>6, <1>7, <1>8

(* connect_peer for nobody in particular keeps the attempts and the        *)
(* invariant's parts it can disturb.                                       *)
LEMMA ConnectAutomaticallyStep ==
  ASSUME Inv, NEW routes \in SUBSET Transports, ConnectAutomatically(routes)
  PROVE  /\ attempts' \in [Slots -> Attempt]
         /\ trouble' \in BOOLEAN
         /\ trouble' => trouble \/ up = {}
         /\ told' = told /\ asked' = asked
<1> DEFINE better == {t \in routes : t < freshest[1]}
<1> DEFINE start(ts) == \E k \in Slots :
      /\ attempts[k].phase = "none"
      /\ attempts' = [attempts EXCEPT ![k] = NewDial(ts, FALSE)]
<1>1. ASSUME NEW ts \in SUBSET Transports, ts # {}, start(ts)
      PROVE  attempts' \in [Slots -> Attempt]
  <2>1. NewDial(ts, FALSE) \in Attempt
    BY <1>1, NewDialType
  <2> QED
    BY <1>1, <2>1 DEF Inv, TypeOK
<1>2. better \in SUBSET Transports
  OBVIOUS
<1>3. told' = told /\ asked' = asked
  BY DEF ConnectAutomatically, SayNothing
<1>4. \/ attempts' = attempts /\ trouble' = trouble
      \/ better # {} /\ start(better) /\ trouble' = trouble
      \/ routes # {} /\ start(routes) /\ trouble' = trouble
      \/ PeerState = "unreachable" /\ attempts' = attempts /\ trouble' = TRUE
  BY Zenon DEF ConnectAutomatically, PeerState
<1>5. PeerState = "unreachable" => up = {}
  BY DEF PeerState
<1>6. attempts \in [Slots -> Attempt] /\ trouble \in BOOLEAN
  BY DEF Inv, TypeOK
<1> HIDE DEF start, better
<1>7. attempts' \in [Slots -> Attempt]
  BY <1>1, <1>2, <1>4, <1>6, Zenon
<1>8. trouble' = trouble \/ (trouble' = TRUE /\ up = {})
  BY <1>4, <1>5, Zenon
<1>9. trouble' \in BOOLEAN
  BY <1>6, <1>8
<1>10. trouble' => trouble \/ up = {}
  BY <1>8
<1> QED
  BY <1>3, <1>7, <1>9, <1>10

(* Links leave the table with the right word. *)
LEMMA LoseLinksStep ==
  ASSUME Inv, NEW ls \in SUBSET up, ls # {}, LoseLinks(ls)
  PROVE  /\ up' \subseteq up
         /\ freshest' \in up' \/ (up' = {} /\ freshest' = NoLink)
         /\ retry' \in Nat
         /\ told' \in {"reachable", "unreachable"}
         /\ told' = "reachable" <=> up' # {}
         /\ asked' = FALSE
  BY DEF Inv, TypeOK, LoseLinks, Tell
(* Every step preserves the inductive invariant: one case per handler. *)
LEMMA StepInv == Inv /\ [Next]_vars => Inv'
<1> SUFFICES ASSUME Inv, [Next]_vars PROVE Inv'
  OBVIOUS
<1> USE DEF Inv, TypeOK, UpIsPaired, TroubleMeansDown, UpIsTold,
      ToldIsTrue
<1>0. /\ addrs \in SUBSET Transports /\ seen \in SUBSET Transports
      /\ attempts \in [Slots -> Attempt] /\ NoAttempt \in Attempt
  BY NoAttemptType
<1>1. CASE Local
  <2>1. ASSUME NEW t \in Transports, SetPeerAddress(t) PROVE Inv'
    BY <2>1 DEF SetPeerAddress
  <2>2. CASE ConnectReachable
    BY <2>2 DEF ConnectReachable, PeerState, Tell
  <2>3. CASE ConnectAdopts
    <3>1. attempts' \in [Slots -> Attempt]
      BY <1>0, <2>3 DEF ConnectAdopts, Attempt
    <3> QED
      BY <2>3, <3>1 DEF ConnectAdopts
  <2>4. CASE ConnectDials
    <3>1. NewDial(Known(addrs, seen), TRUE) \in Attempt
      BY <1>0, <2>4, NewDialType DEF ConnectDials, Known
    <3> QED
      BY <2>4, <3>1 DEF ConnectDials
  <2>5. CASE ConnectNowhere
    BY <2>5 DEF ConnectNowhere, PeerState, Tell
  <2>6. CASE ReconsiderRoutes
    <3>1. Known(addrs, seen) \in SUBSET Transports
      BY DEF Known
    <3> QED
      BY <2>6, <3>1, ConnectAutomaticallyStep DEF ReconsiderRoutes
  <2>7. CASE Disconnect
    BY <2>7, LoseLinksStep DEF Disconnect
  <2>8. CASE Pair
    BY <2>8 DEF Pair
  <2>9. CASE Revoke
    <3>1. CASE up # {}
      <4>1. up' = {}
        BY <2>9, <3>1 DEF Revoke, LoseLinks
      <4> QED
        BY <2>9, <3>1, <4>1, LoseLinksStep DEF Revoke
    <3>2. CASE up = {}
      BY <2>9, <3>2 DEF Revoke
    <3> QED
      BY <3>1, <3>2
  <2> QED
    BY <1>1, <2>1, <2>2, <2>3, <2>4, <2>5, <2>6, <2>7, <2>8, <2>9 DEF Local
<1>2. CASE Discovery
  <2>1. ASSUME NEW t \in Transports, Sighted(t) PROVE Inv'
    <3>1. CASE paired
      BY <2>1, <3>1, ConnectAutomaticallyStep DEF Sighted
    <3>2. CASE ~paired
      BY <2>1, <3>2 DEF Sighted
    <3> QED
      BY <3>1, <3>2
  <2>2. ASSUME NEW ts \in SUBSET Transports, Withdrawn(ts) PROVE Inv'
    BY <2>2 DEF Withdrawn
  <2> QED
    BY <1>2, <2>1, <2>2 DEF Discovery
<1>3. ASSUME NEW k \in Slots, AttemptEvent(k) PROVE Inv'
  <2>0. attempts[k].phase = "shaking" => attempts[k].link \in Links
    BY <1>0 DEF Attempt
  <2>1. ASSUME NEW l \in Links, LinkUpDialled(k, l) PROVE Inv'
    <3>1. attempts' \in [Slots -> Attempt]
      BY <1>0, <2>1 DEF LinkUpDialled, Attempt
    <3> QED
      BY <2>1, <3>1 DEF LinkUpDialled
  <2>2. CASE DialFailed(k)
    BY <2>2, TryNextRoutesStep DEF DialFailed
  <2>3. CASE HandshakeDone(k)
    BY <1>0, <2>0, <2>3 DEF HandshakeDone, Established, Tell
  <2>4. CASE HandshakeRefused(k)
    BY <1>0, <2>4 DEF HandshakeRefused
  <2>5. CASE LinkDownHandshaking(k)
    BY <2>5, TryNextRoutesStep DEF LinkDownHandshaking
  <2> QED
    BY <1>3, <2>1, <2>2, <2>3, <2>4, <2>5 DEF AttemptEvent
<1>4. ASSUME NEW l \in Links, LinkEvent(l) PROVE Inv'
  <2>1. CASE InboundSession(l)
    BY <2>1 DEF InboundSession, Established, Tell
  <2>2. CASE LinkDownUp(l)
    BY <2>2, LoseLinksStep DEF LinkDownUp
  <2>3. CASE Received(l)
    BY <2>3 DEF Received
  <2>4. CASE MalformedOnUp(l)
    BY <2>4 DEF MalformedOnUp
  <2> QED
    BY <1>4, <2>1, <2>2, <2>3, <2>4 DEF LinkEvent
<1>5. CASE Tick
  <2> DEFINE moved == [k \in Slots |->
        IF k \in Expired THEN Advance(attempts[k]) ELSE attempts[k]]
  <2>1. moved \in [Slots -> Attempt]
    BY <1>0, AdvanceType
  <2>2. RetryDue => NewDial(addrs, FALSE) \in Attempt
    BY <1>0, NewDialType DEF RetryDue
  <2>3. attempts' \in [Slots -> Attempt]
    <3>1. \/ attempts' = moved
          \/ RetryDue /\ \E k \in Slots : attempts' = [moved EXCEPT ![k] = NewDial(addrs, FALSE)]
      BY <1>5 DEF Tick
    <3> HIDE DEF moved
    <3> QED
      BY <2>1, <2>2, <3>1
  <2> QED
    BY <1>5, <2>3 DEF Tick, GivesUp, Tell, SayNothing
<1>6. CASE Pass
  <2>1. ASSUME NEW k \in Slots
        PROVE  [attempts[k] EXCEPT !.left = Down(@)] \in Attempt
    BY <1>0 DEF Attempt, Down
  <2> QED
    BY <1>6, <2>1 DEF Pass, Down
<1>7. CASE UNCHANGED vars
  BY <1>7 DEF vars
<1> QED
  BY <1>1, <1>2, <1>3, <1>4, <1>5, <1>6, <1>7 DEF Next

(* Types, no session with a device that is not paired, no dial trouble on  *)
(* record while a session is up, and no device with a session shown as     *)
(* gone.                                                                   *)
THEOREM ReachabilitySafety ==
  Spec => [](TypeOK /\ UpIsPaired /\ TroubleMeansDown /\ UpIsTold)
<1>1. Inv => TypeOK /\ UpIsPaired /\ TroubleMeansDown /\ UpIsTold
  BY DEF Inv
<1> QED
  BY <1>1, InitInv, StepInv, PTL DEF Spec

(* However sessions come, go and replace one another, a device with one is  *)
(* not shown as gone.                                                      *)
THEOREM UpIsShown == Spec => []UpIsTold
  BY ReachabilitySafety, PTL

(* A session lost is told and retried at once, unless a frame without a    *)
(* kind took it.                                                           *)
LEMMA StepLossIsTold ==
  ASSUME Inv, [Next]_vars, up # {}, up' = {}
  PROVE  \/ told' = "unreachable" /\ retry' = 0
         \/ \E l \in up : MalformedOnUp(l)
<1>1. \/ Disconnect \/ Revoke
      \/ \E l \in Links : LinkDownUp(l) \/ MalformedOnUp(l)
  <2>1. ASSUME Local PROVE Disconnect \/ Revoke
    BY <2>1 DEF Local, SetPeerAddress, ConnectReachable, ConnectAdopts, ConnectDials,
       ConnectNowhere, ReconsiderRoutes, Pair
  <2>2. ASSUME Discovery PROVE FALSE
    BY <2>2 DEF Discovery, Sighted, Withdrawn
  <2>3. ASSUME NEW k \in Slots, AttemptEvent(k) PROVE FALSE
    BY <2>3 DEF AttemptEvent, LinkUpDialled, DialFailed, HandshakeDone, Established,
       HandshakeRefused, LinkDownHandshaking
  <2>4. ASSUME NEW l \in Links, LinkEvent(l) PROVE LinkDownUp(l) \/ MalformedOnUp(l)
    BY <2>4 DEF LinkEvent, InboundSession, Established, Received
  <2>5. ASSUME Tick \/ Pass \/ UNCHANGED vars PROVE FALSE
    BY <2>5 DEF Tick, Pass, vars
  <2> QED
    BY <2>1, <2>2, <2>3, <2>4, <2>5 DEF Next
<1>2. CASE Disconnect
  BY <1>2 DEF Disconnect, LoseLinks, Tell
<1>3. CASE Revoke
  BY <1>3 DEF Revoke, LoseLinks, Tell
<1>4. ASSUME NEW l \in Links, LinkDownUp(l) PROVE told' = "unreachable" /\ retry' = 0
  BY <1>4 DEF LinkDownUp, LoseLinks, Tell
<1>5. ASSUME NEW l \in Links, MalformedOnUp(l) PROVE l \in up
  BY <1>5 DEF MalformedOnUp
<1> QED
  BY <1>1, <1>2, <1>3, <1>4, <1>5

(* Every loss of the last session is told and retried at once, with the    *)
(* one exception that LossIsTold names.                                    *)
THEOREM NoSilentLoss == Spec => LossIsTold
<1>1. Inv /\ [Next]_vars =>
        [up # {} /\ up' = {} =>
           \/ told' = "unreachable" /\ retry' = 0
           \/ \E l \in up : MalformedOnUp(l)]_vars
  BY StepLossIsTold
<1> QED
  BY <1>1, InitInv, StepInv, PTL DEF Spec, LossIsTold

(* What the screen was told is how things are, as long as every frame has  *)
(* a kind.                                                                 *)
THEOREM ToldTheTruth ==
  ASSUME ~MalformedFrames
  PROVE  Spec => []ToldIsTrue
<1>1. Inv => ToldIsTrue
  BY DEF Inv
<1> QED
  BY <1>1, InitInv, StepInv, PTL DEF Spec

=============================================================================
