--------------------------- MODULE ControlProofs ----------------------------
(***************************************************************************)
(* Proofs about Control: for any number of clients and peers, any channel   *)
(* capacity and any queue bounds, what is on the screen, what a client of    *)
(* `acryliusctl pair` is sent and what a waiting request is answered agree   *)
(* with the core.                                                           *)
(*                                                                         *)
(* Each property speaks of the end of a pipeline (ui, the task, a client's   *)
(* inbox); its invariant says of everything still in the pipeline what the   *)
(* property says of what came out.                                          *)
(***************************************************************************)
EXTENDS Control, TLAPS

-----------------------------------------------------------------------------
(* What a queue holds. *)

PairKinds == {"sas", "complete", "failed"}

\* No event in s is about the pairing slot.
Quiet(s) == \A i \in 1 .. Len(s) : s[i].is \notin PairKinds

\* The last one that is asks question q.
Final(s, q) ==
  \E i \in 1 .. Len(s) :
    /\ s[i].is = "sas" /\ s[i].question = q
    /\ \A j \in 1 .. Len(s) : j > i => s[j].is \notin PairKinds

Asks(s, q) == \E i \in 1 .. Len(s) : s[i].is = "sas" /\ s[i].question = q

\* An event in s says that p is unreachable.
Mourns(s, p) == \E i \in 1 .. Len(s) : s[i].is = "unreachable" /\ s[i].peer = p

-----------------------------------------------------------------------------
(* The invariants. *)

Client == [at : {"idle", "replay", "writing", "stream", "wait", "ended", "ok", "reply",
                 "refused", "gone", "timeout"},
           is : {"none"} \cup Streams \cup Waits,
           peer : Peers \cup {Nobody}]

Inbox == {s \in Seq(Events) : Len(s) <= Capacity} \cup {Lagged}

(* Shapes of the tables; a question that is being written is one.           *)
Slots == {NoPairing, Slot("open", 0)} \cup {Slot("awaiting", q) : q \in Questions}

CoreTyped ==
  /\ slot \in Slots /\ asked \in 0 .. MaxQuestions /\ up \subseteq Peers /\ news \in 0 .. MaxNews
  /\ step \in {"idle", "observe"} /\ commands \in Seq(Commands) /\ doubt \subseteq Clients
  /\ dropped \subseteq Questions

ScreenTyped ==
  /\ ui \in Seq(Events) /\ presses \in Seq(Questions \X BOOLEAN)
  /\ {pending, showing, pairing, visible} \subseteq 0 .. MaxQuestions
  /\ {prompter, raised} \subseteq BOOLEAN

ClientsTyped ==
  /\ client \in [Clients -> Client] /\ inbox \in [Clients -> Inbox]
  /\ lines \in [Clients -> Seq(Questions)] /\ seen \in [Clients -> SUBSET Questions]
  /\ behind \subseteq Clients
  /\ \A c \in Clients : ~Listening(c) => inbox[c] = <<>>
  /\ \A c \in Clients : client[c].at = "writing" => pending # 0

Shape == CoreTyped /\ ScreenTyped /\ ClientsTyped

(* What the screen may rightly or, after a link lost in its handshake, still  *)
(* show.                                                                   *)
Current == {slot.question} \cup dropped

(* The last word under way to the screen is about such a question.           *)
ScreenInv ==
  /\ \A q : Final(ui, q) => q \in Current
  /\ Quiet(ui) /\ showing # 0 => showing \in Current
  /\ Quiet(ui) /\ showing = 0 => pairing \in {0} \cup Current
  /\ showing # 0 => pairing = 0
  /\ ~prompter => pairing = 0 /\ showing = 0

(* The question awaited has reached c, or is on its way to it.              *)
Reaches(c, q) ==
  \/ q \in seen[c]
  \/ client[c].at = "writing" /\ pending = q
  \/ Asks(ui, q) \/ showing = q
  \/ Asks(inbox[c], q) \/ inbox[c] = Lagged

PairInv ==
  \A c \in Clients :
    (/\ client[c].is = "pair" /\ client[c].at \in {"writing", "stream"}
     /\ c \notin behind /\ slot.is = "awaiting")
    => Reaches(c, slot.question)

(* While there is no doubt, the peer a client waits for has a session and    *)
(* nothing says otherwise.                                                  *)
WaitInv ==
  \A c \in Clients :
    /\ client[c].at = "gone" => c \in doubt
    /\ client[c].at = "wait" /\ c \notin doubt
       => /\ client[c].peer \in up
          /\ ~Mourns(ui, client[c].peer) /\ ~Mourns(inbox[c], client[c].peer)


-----------------------------------------------------------------------------
(* Queues. *)

LEMMA JoinAt ==
  ASSUME NEW T, NEW s \in Seq(T), NEW t \in Seq(T)
  PROVE  /\ s \o t \in Seq(T) /\ Len(s \o t) = Len(s) + Len(t)
         /\ \A i \in 1 .. Len(s) : i \in 1 .. Len(s \o t) /\ (s \o t)[i] = s[i]
         /\ \A i \in 1 .. Len(t) : Len(s) + i \in 1 .. Len(s \o t) /\ (s \o t)[Len(s) + i] = t[i]
         /\ \A i \in 1 .. Len(s \o t) :
              i \in 1 .. Len(s) \/ \E j \in 1 .. Len(t) : i = Len(s) + j
<1>1. Len(s) \in Nat /\ Len(t) \in Nat
  OBVIOUS
<1>2. s \o t \in Seq(T) /\ Len(s \o t) = Len(s) + Len(t)
  OBVIOUS
<1>3. \A i \in 1 .. Len(s) : (s \o t)[i] = s[i]
  OBVIOUS
<1>4. ASSUME NEW i \in 1 .. Len(t) PROVE (s \o t)[Len(s) + i] = t[i]
  BY <1>1
<1>5. ASSUME NEW i \in 1 .. Len(s \o t), i \notin 1 .. Len(s)
      PROVE  \E j \in 1 .. Len(t) : i = Len(s) + j
  <2>1. i - Len(s) \in 1 .. Len(t) /\ i = Len(s) + (i - Len(s))
    BY <1>1, <1>2, <1>5
  <2> QED
    BY <2>1
<1> QED
  BY <1>1, <1>2, <1>3, <1>4, <1>5

(* What is added behind: something quiet, or one word about the slot.       *)
LEMMA JoinFinal ==
  ASSUME NEW T, NEW s \in Seq(T), NEW t \in Seq(T)
  PROVE  /\ Quiet(s \o t) => Quiet(s) /\ Quiet(t)
         /\ Quiet(t) => \A q : Final(s \o t, q) => Final(s, q)
         /\ \A q : Asks(s, q) \/ Asks(t, q) => Asks(s \o t, q)
         /\ \A p : Mourns(s \o t, p) => Mourns(s, p) \/ Mourns(t, p)
<1> DEFINE u == s \o t
<1>1. /\ Len(s) \in Nat /\ Len(t) \in Nat
      /\ \A i \in 1 .. Len(s) : i \in 1 .. Len(u) /\ u[i] = s[i]
      /\ \A i \in 1 .. Len(t) : Len(s) + i \in 1 .. Len(u) /\ u[Len(s) + i] = t[i]
      /\ \A i \in 1 .. Len(u) : i \in 1 .. Len(s) \/ \E j \in 1 .. Len(t) : i = Len(s) + j
  BY JoinAt
<1> HIDE DEF u
<1>2. Quiet(u) => Quiet(s)
  BY <1>1 DEF Quiet
<1>3. Quiet(u) => Quiet(t)
  BY <1>1 DEF Quiet
<1>4. ASSUME Quiet(t), NEW q, Final(u, q) PROVE Final(s, q)
  <2>1. PICK i \in 1 .. Len(u) :
          /\ u[i].is = "sas" /\ u[i].question = q
          /\ \A j \in 1 .. Len(u) : j > i => u[j].is \notin PairKinds
    BY <1>4 DEF Final
  <2>2. i \in 1 .. Len(s)
    BY <1>1, <1>4, <2>1, ZenonT(60) DEF Quiet, PairKinds
  <2>3. \A j \in 1 .. Len(s) : j > i => s[j].is \notin PairKinds
    BY <1>1, <2>1
  <2> QED
    BY <1>1, <2>1, <2>2, <2>3 DEF Final
<1>5. \A q : Asks(s, q) => Asks(u, q)
  BY <1>1 DEF Asks
<1>6. \A q : Asks(t, q) => Asks(u, q)
  BY <1>1 DEF Asks
<1>7. ASSUME NEW p, Mourns(u, p) PROVE Mourns(s, p) \/ Mourns(t, p)
  <2>1. PICK i \in 1 .. Len(u) : u[i].is = "unreachable" /\ u[i].peer = p
    BY <1>7 DEF Mourns
  <2>2. CASE i \in 1 .. Len(s)
    BY <1>1, <2>1, <2>2 DEF Mourns
  <2>3. CASE \E j \in 1 .. Len(t) : i = Len(s) + j
    BY <1>1, <2>1, <2>3 DEF Mourns
  <2> QED
    BY <1>1, <2>2, <2>3
<1> QED
  BY <1>2, <1>3, <1>4, <1>5, <1>6, <1>7 DEF u

LEMMA JoinWord ==
  ASSUME NEW T, NEW s \in Seq(T), NEW e \in T, e.is \in PairKinds
  PROVE  /\ ~Quiet(s \o <<e>>)
         /\ \A q : Final(s \o <<e>>, q) => e.is = "sas" /\ e.question = q
<1> DEFINE u == s \o <<e>>
           n == Len(s) + 1
<1>1. /\ n \in 1 .. Len(u) /\ u[n] = e
      /\ \A i \in 1 .. Len(u) : i # n => n > i
  OBVIOUS
<1> HIDE DEF u, n
<1>2. ~Quiet(u)
  BY <1>1 DEF Quiet
<1>3. ASSUME NEW q, Final(u, q) PROVE e.is = "sas" /\ e.question = q
  BY <1>1, <1>3 DEF Final
<1> QED
  BY <1>2, <1>3 DEF u

(* What is taken in front.                                                  *)
LEMMA TailOf ==
  ASSUME NEW T, NEW s \in Seq(T), s # <<>>
  PROVE  /\ Tail(s) \in Seq(T) /\ Head(s) \in T /\ Len(Tail(s)) = Len(s) - 1
         /\ \A q : Final(Tail(s), q) => Final(s, q)
         /\ Quiet(Tail(s)) /\ Head(s).is \notin PairKinds => Quiet(s)
         /\ Quiet(Tail(s)) /\ Head(s).is = "sas" => Final(s, Head(s).question)
         /\ \A q : Asks(s, q) => Asks(Tail(s), q) \/ (Head(s).is = "sas" /\ Head(s).question = q)
         /\ \A p : Mourns(Tail(s), p) => Mourns(s, p)
         /\ Head(s).is = "unreachable" => Mourns(s, Head(s).peer)
<1> DEFINE u == Tail(s)
           h == Head(s)
<1>1. /\ u \in Seq(T) /\ h \in T /\ Len(s) \in Nat \ {0} /\ Len(u) = Len(s) - 1
      /\ 1 \in 1 .. Len(s) /\ s[1] = h
  OBVIOUS
<1>2. ASSUME NEW i \in 1 .. Len(u) PROVE i + 1 \in 1 .. Len(s) /\ u[i] = s[i + 1]
  BY <1>1
<1>3. ASSUME NEW i \in 1 .. Len(s), i # 1 PROVE i - 1 \in 1 .. Len(u) /\ u[i - 1] = s[i]
  BY <1>1, <1>3
<1> HIDE DEF u, h
<1>4. ASSUME NEW q, Final(u, q) PROVE Final(s, q)
  <2>1. PICK i \in 1 .. Len(u) :
          /\ u[i].is = "sas" /\ u[i].question = q
          /\ \A j \in 1 .. Len(u) : j > i => u[j].is \notin PairKinds
    BY <1>4 DEF Final
  <2>2. ASSUME NEW j \in 1 .. Len(s), j > i + 1 PROVE s[j].is \notin PairKinds
    <3>1. j - 1 \in 1 .. Len(u) /\ u[j - 1] = s[j] /\ j - 1 > i
      BY <1>3, <2>2
    <3> QED
      BY <2>1, <3>1
  <2> QED
    BY <1>2, <2>1, <2>2 DEF Final
<1>5. Quiet(u) /\ h.is \notin PairKinds => Quiet(s)
  BY <1>1, <1>3 DEF Quiet
<1>6. ASSUME Quiet(u), h.is = "sas" PROVE Final(s, h.question)
  <2>1. \A j \in 1 .. Len(s) : j > 1 => s[j].is \notin PairKinds
    BY <1>3, <1>6 DEF Quiet
  <2> QED
    BY <1>1, <1>6, <2>1 DEF Final
<1>7. \A q : Asks(s, q) => Asks(u, q) \/ (h.is = "sas" /\ h.question = q)
  BY <1>1, <1>3 DEF Asks
<1>8. \A p : Mourns(u, p) => Mourns(s, p)
  BY <1>2 DEF Mourns
<1>9. h.is = "unreachable" => Mourns(s, h.peer)
  BY <1>1 DEF Mourns
<1> QED
  BY <1>1, <1>4, <1>5, <1>6, <1>7, <1>8, <1>9 DEF u, h

LEMMA Nothing ==
  /\ Quiet(<<>>) /\ \A q : ~Final(<<>>, q) /\ ~Asks(<<>>, q)
  /\ \A p : ~Mourns(<<>>, p)
  BY DEF Quiet, Final, Asks, Mourns


LEMMA OneWord ==
  ASSUME NEW e \in Events
  PROVE  /\ <<e>> \in Seq(Events)
         /\ e.is \notin PairKinds => Quiet(<<e>>)
         /\ e.is = "sas" => Asks(<<e>>, e.question)
         /\ \A p : Mourns(<<e>>, p) => e.is = "unreachable" /\ e.peer = p
  BY DEF Quiet, Asks, Mourns

LEMMA TwoWords ==
  ASSUME NEW d \in Events, NEW e \in Events
  PROVE  /\ <<d, e>> \in Seq(Events)
         /\ d.is \notin PairKinds /\ e.is \notin PairKinds => Quiet(<<d, e>>)
         /\ \A p : Mourns(<<d, e>>, p) => \/ d.is = "unreachable" /\ d.peer = p
                                          \/ e.is = "unreachable" /\ e.peer = p
<1> DEFINE s == <<d, e>>
<1>1. s \in Seq(Events) /\ \A i \in 1 .. Len(s) : s[i] = d \/ s[i] = e
  OBVIOUS
<1> HIDE DEF s
<1> QED
  BY <1>1 DEF Quiet, Mourns, s

LEMMA JoinWords ==
  ASSUME NEW d, NEW e
  PROVE  <<d>> \o <<e>> = <<d, e>> /\ <<>> \o <<e>> = <<e>>
<1> DEFINE T == {d, e}
<1>0. <<d>> \in Seq(T) /\ <<e>> \in Seq(T) /\ <<d, e>> \in Seq(T) /\ <<>> \in Seq(T)
  OBVIOUS
<1>1. <<d>> \o <<e>> = <<d, e>>
  <2> DEFINE a == <<d>> \o <<e>>
  <2>1. a \in Seq(T) /\ Len(a) = 2
    BY <1>0
  <2>2. a[1] = d /\ a[2] = e
    BY <1>0
  <2> HIDE DEF a
  <2>3. a = <<d, e>>
    BY <2>1, <2>2
  <2> QED
    BY <2>3 DEF a
<1>2. <<>> \o <<e>> = <<e>>
  BY <1>0, JoinAt
<1> QED
  BY <1>1, <1>2

LEMMA EventsTyped ==
  /\ \A q \in Questions : Sas(q) \in Events
  /\ Complete \in Events /\ Failed \in Events
  /\ \A is \in PeerNews, p \in Peers : About(is, p) \in Events
  /\ \A q : Sas(q).is = "sas" /\ Sas(q).question = q
  /\ Complete.is = "complete" /\ Failed.is = "failed"
  /\ \A is, p : About(is, p).is = is /\ About(is, p).peer = p
  /\ \A e \in Events : e.is # "lagged" /\ (e.is = "sas" => e.question \in Questions)
<1>1. /\ \A q \in Questions : Sas(q) \in Events
      /\ Complete \in Events /\ Failed \in Events
      /\ \A is \in PeerNews, p \in Peers : About(is, p) \in Events
  BY DEF Events
<1>2. /\ \A q : Sas(q).is = "sas" /\ Sas(q).question = q
      /\ Complete.is = "complete" /\ Failed.is = "failed"
      /\ \A is, p : About(is, p).is = is /\ About(is, p).peer = p
  BY DEF Sas, Complete, Failed, About, Event
<1>3. ASSUME NEW e \in Events
      PROVE  e.is # "lagged" /\ (e.is = "sas" => e.question \in Questions)
  <2>1. CASE e \in {Complete, Failed}
    BY <1>2, <2>1
  <2>2. CASE \E q \in Questions : e = Sas(q)
    BY <1>2, <2>2
  <2>3. CASE \E is \in PeerNews, p \in Peers : e = About(is, p)
    BY <1>2, <2>3 DEF PeerNews
  <2> QED
    BY <2>1, <2>2, <2>3 DEF Events
<1> QED
  BY <1>1, <1>2, <1>3

LEMMA SlotsTyped ==
  /\ NoPairing \in Slots /\ Slot("open", 0) \in Slots
  /\ \A q \in Questions : Slot("awaiting", q) \in Slots
  /\ \A is, q : Slot(is, q).is = is /\ Slot(is, q).question = q
  /\ NoPairing.is = "idle" /\ NoPairing.question = 0
  /\ \A s \in Slots : IF s.is = "awaiting" THEN s.question \in Questions ELSE s.question = 0
  /\ \A q \in Questions : q # 0 /\ q \in 0 .. MaxQuestions
<1>1. /\ NoPairing \in Slots /\ Slot("open", 0) \in Slots
      /\ \A q \in Questions : Slot("awaiting", q) \in Slots
  BY DEF Slots
<1>2. \A is, q : Slot(is, q).is = is /\ Slot(is, q).question = q
  BY DEF Slot
<1>3. NoPairing.is = "idle" /\ NoPairing.question = 0
  BY DEF Slot, NoPairing
<1>4. \A s \in Slots : IF s.is = "awaiting" THEN s.question \in Questions ELSE s.question = 0
  BY <1>2, <1>3 DEF Slots
<1>5. \A q \in Questions : q # 0 /\ q \in 0 .. MaxQuestions
  BY DEF Questions
<1> QED
  BY <1>1, <1>2, <1>3, <1>4, <1>5

-----------------------------------------------------------------------------
(* What the core does and says in one step. *)

CoreStep ==
  \/ Ask \/ Lapse \/ LinkLost \/ TakeCommand
  \/ \E p \in Peers, is \in PeerNews : PeerEvent(p, is)

(* What it says settles what it did: of the slot's question, and of a peer   *)
(* somebody waits for.                                                     *)
Settles(say) ==
  /\ \/ Quiet(say) /\ Current \subseteq Current'
     \/ \E e \in Events : /\ say = <<e>> /\ e.is \in PairKinds
                          /\ e.is = "sas" => e.question = slot'.question
  /\ slot'.is = "awaiting" => slot' = slot \/ Asks(say, slot'.question)
  /\ \A c \in Clients :
       c \notin doubt' =>
         /\ c \notin doubt
         /\ client[c].peer \in up => client[c].peer \in up' /\ ~Mourns(say, client[c].peer)

LEMMA CoreSays ==
  ASSUME Shape, CoreStep
  PROVE  /\ UNCHANGED <<pending, screen, presses, client, inbox, lines, seen, behind>>
         /\ CoreTyped'
         /\ \E say \in Seq(Events) : ui' = ui \o say /\ Settles(say)
<1> USE EventsTyped, SlotsTyped
<1> DEFINE Says(say) == say \in Seq(Events) /\ ui' = ui \o say /\ Settles(say)
<1>t. /\ slot \in Slots /\ asked \in 0 .. MaxQuestions /\ up \subseteq Peers
      /\ news \in 0 .. MaxNews /\ commands \in Seq(Commands) /\ doubt \subseteq Clients
      /\ dropped \subseteq Questions
  BY DEF Shape, CoreTyped
<1>n. <<>> \in Seq(Events) /\ Quiet(<<>>) /\ \A p : ~Mourns(<<>>, p)
  BY Nothing
<1>k. "reachable" \notin PairKinds /\ \A is \in PeerNews : is \notin PairKinds
  BY DEF PairKinds, PeerNews
<1>h. ASSUME NEW say, Handled(say) PROVE ui' = ui \o say /\ step' = "observe"
  BY <1>h DEF Handled
\* What says nothing of the slot leaves it.
<1>q. ASSUME NEW say \in Seq(Events), Handled(say), Quiet(say), UNCHANGED <<slot, dropped>>,
             doubt \subseteq doubt',
             \A c \in Clients : c \notin doubt' /\ client[c].peer \in up
                                => client[c].peer \in up' /\ ~Mourns(say, client[c].peer)
      PROVE  Says(say)
  BY <1>h, <1>q DEF Settles, Current
\* One word about the slot.
<1>w. ASSUME NEW e \in Events, e.is \in PairKinds, Handled(<<e>>),
             e.is = "sas" => e.question = slot'.question,
             slot'.is = "awaiting" => slot' = slot \/ e.is = "sas",
             UNCHANGED <<up, doubt, dropped>>
      PROVE  Says(<<e>>)
  <2>1. <<e>> \in Seq(Events) /\ \A p : ~Mourns(<<e>>, p)
    BY <1>w, OneWord DEF PairKinds
  <2>2. slot'.is = "awaiting" => slot' = slot \/ Asks(<<e>>, slot'.question)
    BY <1>w, OneWord
  <2> QED
    BY <1>h, <1>w, <2>1, <2>2 DEF Settles
<1>1. CASE Ask
  <2>1. asked + 1 \in Questions
    BY <1>1, <1>t, ControlAssumption DEF Ask, Questions
  <2>2. Says(<<Sas(asked + 1)>>)
    BY <1>1, <1>w, <2>1 DEF Ask, PairKinds, history
  <2>3. CoreTyped'
    BY <1>1, <1>h, <1>t, <2>1 DEF Ask, CoreTyped, history, Questions
  <2> QED
    BY <1>1, <2>2, <2>3 DEF Ask, history
<1>2. CASE Lapse
  <2>1. Says(<<Failed>>)
    BY <1>2, <1>w DEF Lapse, PairKinds, history
  <2>2. CoreTyped'
    BY <1>2, <1>h, <1>t DEF Lapse, CoreTyped, history
  <2> QED
    BY <1>2, <2>1, <2>2 DEF Lapse, history
<1>6. CASE LinkLost
  <2>1. /\ slot' = NoPairing /\ Handled(<<>>) /\ UNCHANGED <<up, doubt>>
        /\ dropped' = dropped \cup ({slot.question} \ {0})
    BY <1>6 DEF LinkLost
  <2>2. Current \subseteq Current'
    BY <2>1 DEF Current
  <2>3. Says(<<>>)
    BY <1>h, <1>n, <2>1, <2>2 DEF Settles
  <2>4. slot.question \in Questions \cup {0}
    BY <1>t
  <2>5. CoreTyped'
    BY <1>6, <1>h, <1>t, <2>1, <2>4 DEF LinkLost, CoreTyped
  <2>6. UNCHANGED <<pending, screen, presses, client, inbox, lines, seen, behind>>
    BY <1>6 DEF LinkLost
  <2> QED
    BY <1>n, <2>3, <2>5, <2>6
<1>3. ASSUME NEW p \in Peers, NEW is \in PeerNews, PeerEvent(p, is)
      PROVE  CoreTyped' /\ \E say \in Seq(Events) : ui' = ui \o say /\ Settles(say)
  <2>1. About(is, p) \in Events /\ Quiet(<<About(is, p)>>)
    BY <1>k, OneWord
  <2>2. doubt \subseteq doubt' /\ doubt' \subseteq Clients /\ up' \subseteq Peers
        /\ UNCHANGED <<slot, dropped>>
    BY <1>3, <1>t DEF PeerEvent, Drops
  <2>3. ASSUME NEW c \in Clients, c \notin doubt', client[c].peer \in up
        PROVE  client[c].peer \in up' /\ ~Mourns(<<About(is, p)>>, client[c].peer)
    <3>1. client[c].peer \in up'
      BY <1>3, <2>3 DEF PeerEvent, Drops
    <3>2. Mourns(<<About(is, p)>>, client[c].peer) => is = "unreachable" /\ p = client[c].peer
      BY <2>1, OneWord
    <3>3. is = "unreachable" => p # client[c].peer
      BY <1>3, <2>3 DEF PeerEvent, Drops
    <3> QED
      BY <3>1, <3>2, <3>3
  <2>4. Says(<<About(is, p)>>)
    BY <1>3, <1>q, <2>1, <2>2, <2>3, OneWord DEF PeerEvent
  <2>5. CoreTyped'
    BY <1>3, <1>h, <1>t, <2>2, ControlAssumption DEF PeerEvent, CoreTyped
  <2> QED
    BY <2>4, <2>5
<1>4. CASE TakeCommand
  <2> DEFINE cmd == Head(commands)
  <2>1. cmd \in Commands /\ commands' \in Seq(Commands)
    BY <1>4, <1>t DEF TakeCommand
  <2>2. cmd.is \in {"connect", "plugin", "revoke"} => cmd.peer \in Peers
    BY <2>1 DEF Commands, Command
  <2>d. UNCHANGED dropped
    BY <1>4 DEF TakeCommand
  <2> HIDE DEF cmd
  <2> DEFINE Done == slot' \in Slots /\ up' \subseteq Peers /\ doubt' \subseteq Clients
                     /\ step' = "observe" /\ \E say \in Seq(Events) : Says(say)
  <2>3. ASSUME NEW accept \in BOOLEAN, Confirm(accept) PROVE Done
    <3>1. CASE slot.is = "awaiting"
      <4>1. PICK e \in {Complete, Failed} : Handled(<<e>>)
        BY <2>3, <3>1 DEF Confirm
      <4>2. e \in Events /\ e.is \in PairKinds /\ e.is # "sas"
        BY DEF PairKinds
      <4>3. slot' = NoPairing /\ UNCHANGED <<up, doubt>>
        BY <2>3, <3>1 DEF Confirm
      <4>4. Says(<<e>>)
        BY <1>w, <2>d, <4>1, <4>2, <4>3
      <4> QED
        BY <1>h, <1>t, <4>1, <4>3, <4>4
    <3>2. CASE slot.is # "awaiting"
      <4>1. Handled(<<>>) /\ UNCHANGED <<slot, up, doubt>>
        BY <2>3, <3>2 DEF Confirm
      <4>2. Says(<<>>)
        BY <1>n, <1>q, <2>d, <4>1
      <4> QED
        BY <1>h, <1>n, <1>t, <4>1, <4>2
    <3> QED
      BY <3>1, <3>2
  <2>4. ASSUME PairWith PROVE Done
    <3>1. CASE slot = NoPairing /\ slot' = Slot("open", 0) /\ Handled(<<>>)
      <4>1. slot'.question = slot.question /\ slot'.is # "awaiting" /\ UNCHANGED <<up, doubt>>
        BY <2>4, <3>1 DEF PairWith
      <4>2. Says(<<>>)
        BY <1>h, <1>n, <2>d, <3>1, <4>1 DEF Settles, Current
      <4> QED
        BY <1>h, <1>n, <1>t, <3>1, <4>1, <4>2
    <3>2. CASE UNCHANGED slot /\ Handled(<<Failed>>)
      <4>1. Says(<<Failed>>)
        BY <1>w, <2>d, <2>4, <3>2 DEF PairWith, PairKinds
      <4> QED
        BY <1>h, <1>t, <2>4, <3>2, <4>1 DEF PairWith
    <3> QED
      BY <2>4, <3>1, <3>2 DEF PairWith
  <2>5. ASSUME NEW p \in Peers, Connect(p) PROVE Done
    <3>0. UNCHANGED <<slot, up, doubt>>
      BY <2>5 DEF Connect
    <3>1. CASE Handled(<<About("reachable", p)>>)
      <4>1. About("reachable", p) \in Events
        BY DEF PeerNews
      <4>2. /\ <<About("reachable", p)>> \in Seq(Events) /\ Quiet(<<About("reachable", p)>>)
            /\ \A x : ~Mourns(<<About("reachable", p)>>, x)
        BY <1>k, <4>1, OneWord
      <4>3. Says(<<About("reachable", p)>>)
        BY <1>q, <2>d, <3>0, <3>1, <4>2
      <4> QED
        BY <1>h, <1>t, <3>0, <3>1, <4>3
    <3>2. CASE Handled(<<>>)
      <4>1. Says(<<>>)
        BY <1>n, <1>q, <2>d, <3>0, <3>2
      <4> QED
        BY <1>h, <1>n, <1>t, <3>0, <3>2, <4>1
    <3>3. CASE p \notin up /\ Handled(<<About("error", p), About("unreachable", p)>>)
      <4> DEFINE d == About("error", p)
                 e == About("unreachable", p)
      <4>1. d \in Events /\ e \in Events /\ d.is = "error" /\ e.is = "unreachable" /\ e.peer = p
        BY DEF PeerNews
      <4> HIDE DEF d, e
      <4>2. d.is \notin PairKinds /\ e.is \notin PairKinds
        BY <4>1 DEF PairKinds
      <4>3. /\ <<d, e>> \in Seq(Events) /\ Quiet(<<d, e>>)
            /\ \A x : Mourns(<<d, e>>, x) => x = p
        BY <4>1, <4>2, TwoWords
      <4>4. Handled(<<d, e>>)
        BY <3>3 DEF d, e
      <4>5. Says(<<d, e>>)
        BY <1>q, <2>d, <3>0, <3>3, <4>3, <4>4
      <4> QED
        BY <1>h, <1>t, <3>0, <4>4, <4>5
    <3> QED
      BY <2>5, <3>1, <3>2, <3>3 DEF Connect
  <2>6. ASSUME NEW p \in Peers, Plugin(p) PROVE Done
    <3>0. UNCHANGED <<slot, up, doubt>>
      BY <2>6 DEF Plugin
    <3>1. CASE Handled(<<>>)
      <4>1. Says(<<>>)
        BY <1>n, <1>q, <2>d, <3>0, <3>1
      <4> QED
        BY <1>h, <1>n, <1>t, <3>0, <3>1, <4>1
    <3>2. ASSUME NEW is \in {"error", "unreachable"}, Handled(<<About(is, p)>>),
                 is = "unreachable" => p \notin up
          PROVE  Done
      <4>1. About(is, p) \in Events /\ is \in PeerNews
        BY DEF PeerNews
      <4>2. /\ <<About(is, p)>> \in Seq(Events) /\ Quiet(<<About(is, p)>>)
            /\ \A x : Mourns(<<About(is, p)>>, x) => is = "unreachable" /\ p = x
        BY <1>k, <4>1, OneWord
      <4>a. \A c \in Clients : c \notin doubt' /\ client[c].peer \in up
              => client[c].peer \in up' /\ ~Mourns(<<About(is, p)>>, client[c].peer)
        BY <3>0, <3>2, <4>2
      <4>3. Says(<<About(is, p)>>)
        BY <1>q, <2>d, <3>0, <3>2, <4>2, <4>a
      <4> QED
        BY <1>h, <1>t, <3>0, <3>2, <4>3
    <3> QED
      BY <2>6, <3>1, <3>2 DEF Plugin
  <2>7. ASSUME NEW p \in Peers, Revoke(p) PROVE Done
    <3> DEFINE d == About("unreachable", p)
               e == About("revoked", p)
               say == IF p \in up THEN <<d, e>> ELSE <<e>>
    <3>1. Handled(say)
      <4>1. <<d>> \o <<e>> = <<d, e>>
        BY JoinWords
      <4>2. <<>> \o <<e>> = <<e>>
        BY JoinWords
      <4> QED
        BY <2>7, <4>1, <4>2 DEF Revoke
    <3>2. /\ UNCHANGED slot /\ up' = up \ {p}
          /\ doubt' = doubt \cup {c \in Clients : client[c].peer = p}
      BY <2>7 DEF Revoke, Drops
    <3>3. d \in Events /\ e \in Events /\ d.peer = p /\ e.peer = p
          /\ d.is \notin PairKinds /\ e.is \notin PairKinds
      BY DEF PeerNews, PairKinds
    <3> HIDE DEF d, e
    <3>4. say \in Seq(Events) /\ Quiet(say) /\ \A x : Mourns(say, x) => x = p
      BY <3>3, OneWord, TwoWords
    <3> HIDE DEF say
    <3>5. Says(say)
      BY <1>q, <2>d, <3>1, <3>2, <3>4
    <3> QED
      BY <1>h, <1>t, <3>1, <3>2, <3>4, <3>5
  <2>8. Done
    <3>1. \/ \E accept \in BOOLEAN : Confirm(accept)
          \/ PairWith
          \/ cmd.is = "connect" /\ Connect(cmd.peer)
          \/ cmd.is = "plugin" /\ Plugin(cmd.peer)
          \/ cmd.is = "revoke" /\ Revoke(cmd.peer)
      BY <1>4 DEF TakeCommand, cmd
    <3> QED
      BY <2>2, <2>3, <2>4, <2>5, <2>6, <2>7, <3>1
  <2>9. CoreTyped'
    BY <1>4, <1>t, <2>1, <2>8 DEF TakeCommand, CoreTyped
  <2> QED
    BY <1>4, <2>8, <2>9 DEF TakeCommand
<1>5. UNCHANGED <<pending, screen, presses, client, inbox, lines, seen, behind>>
  BY DEF CoreStep, Ask, Lapse, LinkLost, PeerEvent, TakeCommand, history
<1> QED
  BY <1>1, <1>2, <1>3, <1>4, <1>5, <1>6 DEF CoreStep


-----------------------------------------------------------------------------
(* Shapes. *)

LEMMA ShapeTyped == Shape => TypeOK
<1> SUFFICES ASSUME Shape PROVE TypeOK
  OBVIOUS
<1>1. ASSUME NEW c \in Clients
      PROVE  /\ client[c].at \in {"idle", "replay", "writing", "stream", "wait", "ended", "ok",
                                  "reply", "refused", "gone", "timeout"}
             /\ inbox[c] = Lagged \/ (inbox[c] \in Seq(Events) /\ Len(inbox[c]) <= Capacity)
             /\ ~Listening(c) => inbox[c] = <<>>
             /\ lines[c] \in Seq(Questions)
  BY DEF Shape, ClientsTyped, Client, Inbox
<1>2. /\ slot \in {NoPairing, Slot("open", 0)} \cup {Slot("awaiting", q) : q \in Questions}
      /\ asked \in 0 .. MaxQuestions /\ up \subseteq Peers /\ news \in 0 .. MaxNews
      /\ step \in {"idle", "observe"} /\ commands \in Seq(Commands)
  BY DEF Shape, CoreTyped, Slots
<1>3. /\ ui \in Seq(Events) /\ presses \in Seq(Questions \X BOOLEAN)
      /\ {pending, showing, pairing, visible} \subseteq 0 .. MaxQuestions
      /\ {prompter, raised} \subseteq BOOLEAN
  BY DEF Shape, ScreenTyped
<1>4. seen \in [Clients -> SUBSET Questions] /\ {behind, doubt} \subseteq SUBSET Clients
      /\ dropped \subseteq Questions
  BY DEF Shape, CoreTyped, ClientsTyped
<1> QED
  BY <1>1, <1>2, <1>3, <1>4 DEF TypeOK

LEMMA InitShape == Init => Shape
<1> SUFFICES ASSUME Init PROVE Shape
  OBVIOUS
<1>1. CoreTyped
  BY SlotsTyped, ControlAssumption DEF Init, CoreTyped
<1>2. ScreenTyped
  <2>1. {prompter, raised} \subseteq BOOLEAN
    BY DEF Init
  <2>2. {pending, showing, pairing, visible} \subseteq 0 .. MaxQuestions
    BY ControlAssumption DEF Init
  <2>3. ui \in Seq(Events) /\ presses \in Seq(Questions \X BOOLEAN)
    BY DEF Init
  <2> QED
    BY <2>1, <2>2, <2>3 DEF ScreenTyped
<1>3. Idle \in Client /\ Idle.at = "idle" /\ <<>> \in Inbox
  BY ControlAssumption DEF Idle, Client, Inbox
<1>4. ClientsTyped
  BY <1>3 DEF Init, ClientsTyped, Listening
<1> QED
  BY <1>1, <1>2, <1>4 DEF Shape

LEMMA AppendOf ==
  ASSUME NEW T, NEW s \in Seq(T), NEW e \in T
  PROVE  /\ Append(s, e) \in Seq(T) /\ Len(Append(s, e)) = Len(s) + 1
         /\ \A q : Asks(s, q) => Asks(Append(s, e), q)
         /\ e.is = "sas" => Asks(Append(s, e), e.question)
         /\ \A p : Mourns(Append(s, e), p) => Mourns(s, p) \/ (e.is = "unreachable" /\ e.peer = p)
<1> DEFINE u == Append(s, e)
           n == Len(s) + 1
<1>1. /\ u \in Seq(T) /\ Len(u) = n /\ n \in 1 .. Len(u) /\ u[n] = e
      /\ \A i \in 1 .. Len(s) : i \in 1 .. Len(u) /\ u[i] = s[i]
      /\ \A i \in 1 .. Len(u) : i = n \/ i \in 1 .. Len(s)
  OBVIOUS
<1>2. \A q : Asks(s, q) => Asks(u, q)
  BY <1>1 DEF Asks
<1>3. e.is = "sas" => Asks(u, e.question)
  BY <1>1 DEF Asks
<1>4. \A p : Mourns(u, p) => Mourns(s, p) \/ (e.is = "unreachable" /\ e.peer = p)
  BY <1>1 DEF Mourns
<1> QED
  BY <1>1, <1>2, <1>3, <1>4

LEMMA LaggedSays ==
  /\ Len(Lagged) = 1 /\ Head(Lagged).is = "lagged" /\ Lagged # <<>>
  /\ \A q : ~Asks(Lagged, q)
  /\ \A p : ~Mourns(Lagged, p)
<1> DEFINE e == Event("lagged", 0, Nobody)
<1>1. e.is = "lagged"
  BY DEF Event
<1> HIDE DEF e
<1>2. Lagged = <<e>>
  BY DEF Lagged, e
<1> QED
  BY <1>1, <1>2 DEF Asks, Mourns

(* What a broadcast leaves in the inboxes.                                  *)
LEMMA BroadcastInbox ==
  ASSUME Shape, NEW e \in Events, Broadcast(e)
  PROVE  /\ inbox' \in [Clients -> Inbox]
         /\ \A c \in Clients : ~Listening(c) => inbox'[c] = inbox[c]
         /\ \A c \in Clients : \A q :
              Asks(inbox[c], q) \/ inbox[c] = Lagged => Asks(inbox'[c], q) \/ inbox'[c] = Lagged
         /\ \A c \in Clients :
              Listening(c) /\ e.is = "sas" => Asks(inbox'[c], e.question) \/ inbox'[c] = Lagged
         /\ \A c \in Clients : \A p :
              Mourns(inbox'[c], p) => Mourns(inbox[c], p) \/ (e.is = "unreachable" /\ e.peer = p)
<1>0. inbox \in [Clients -> Inbox] /\ Capacity \in Nat
  BY ControlAssumption DEF Shape, ClientsTyped
<1>1. ASSUME NEW c \in Clients
      PROVE  \/ inbox'[c] = inbox[c] /\ (~Listening(c) \/ inbox[c] = Lagged)
             \/ inbox'[c] = Lagged /\ Listening(c)
             \/ /\ inbox[c] \in Seq(Events) /\ Len(inbox[c]) < Capacity /\ inbox[c] # Lagged
                /\ Listening(c) /\ inbox'[c] = Append(inbox[c], e)
  BY <1>0 DEF Broadcast, Inbox
<1>2. ASSUME NEW c \in Clients PROVE inbox'[c] \in Inbox
  <2>1. CASE inbox[c] \in Seq(Events) /\ Len(inbox[c]) < Capacity /\ inbox'[c] = Append(inbox[c], e)
    <3>1. inbox'[c] \in Seq(Events) /\ Len(inbox'[c]) = Len(inbox[c]) + 1
      BY <2>1, AppendOf
    <3> QED
      BY <1>0, <2>1, <3>1 DEF Inbox
  <2> QED
    BY <1>0, <1>1, <2>1 DEF Inbox
<1>3. inbox' \in [Clients -> Inbox]
  BY <1>2 DEF Broadcast
<1>4. ASSUME NEW c \in Clients, ~Listening(c) PROVE inbox'[c] = inbox[c]
  BY <1>1, <1>4
<1>a. ASSUME NEW c \in Clients, inbox[c] \in Seq(Events), inbox'[c] = Append(inbox[c], e)
      PROVE  /\ \A q : Asks(inbox[c], q) => Asks(inbox'[c], q)
             /\ e.is = "sas" => Asks(inbox'[c], e.question)
             /\ \A p : Mourns(inbox'[c], p)
                       => Mourns(inbox[c], p) \/ (e.is = "unreachable" /\ e.peer = p)
  <2> DEFINE s == inbox[c]
             u == inbox'[c]
  <2>1. s \in Seq(Events) /\ u = Append(s, e)
    BY <1>a
  <2> HIDE DEF s, u
  <2>2. /\ \A q : Asks(s, q) => Asks(u, q)
        /\ e.is = "sas" => Asks(u, e.question)
        /\ \A p : Mourns(u, p) => Mourns(s, p) \/ (e.is = "unreachable" /\ e.peer = p)
    BY <2>1, AppendOf
  <2> QED
    BY <2>2 DEF s, u
<1>5. ASSUME NEW c \in Clients, NEW q, Asks(inbox[c], q) \/ inbox[c] = Lagged
      PROVE  Asks(inbox'[c], q) \/ inbox'[c] = Lagged
  BY <1>1, <1>5, <1>a, LaggedSays
<1>6. ASSUME NEW c \in Clients, Listening(c), e.is = "sas"
      PROVE  Asks(inbox'[c], e.question) \/ inbox'[c] = Lagged
  BY <1>1, <1>6, <1>a
<1>7. ASSUME NEW c \in Clients, NEW p, Mourns(inbox'[c], p)
      PROVE  Mourns(inbox[c], p) \/ (e.is = "unreachable" /\ e.peer = p)
  BY <1>1, <1>7, <1>a, LaggedSays
<1> QED
  BY <1>3, <1>4, <1>5, <1>6, <1>7


(* A client's record changes, and no other.                                 *)
LEMMA OneClient ==
  ASSUME Shape, NEW c \in Clients, NEW r \in Client, client' = [client EXCEPT ![c] = r]
  PROVE  /\ client' \in [Clients -> Client] /\ client'[c] = r
         /\ \A d \in Clients : d # c => client'[d] = client[d]
  BY DEF Shape, ClientsTyped

LEMMA BecomesClient ==
  ASSUME Shape, NEW c \in Clients,
         NEW at \in {"replay", "writing", "stream", "wait"}, Becomes(c, at)
  PROVE  /\ client' \in [Clients -> Client]
         /\ client'[c] = [client[c] EXCEPT !.at = at]
         /\ client'[c].at = at /\ client'[c].is = client[c].is /\ client'[c].peer = client[c].peer
         /\ \A d \in Clients : d # c => client'[d] = client[d]
<1>1. client \in [Clients -> Client] /\ client[c] \in Client
  BY DEF Shape, ClientsTyped
<1> DEFINE r == [client[c] EXCEPT !.at = at]
<1>2. r \in Client /\ r.at = at /\ r.is = client[c].is /\ r.peer = client[c].peer
  BY <1>1 DEF Client
<1>3. client' = [client EXCEPT ![c] = r]
  BY DEF Becomes
<1> QED
  BY <1>1, <1>2, <1>3, OneClient

LEMMA EndsClient ==
  ASSUME Shape, NEW c \in Clients, NEW at, Ends(c, at),
         at \in {"idle", "ended", "ok", "reply", "refused", "gone", "timeout"}
  PROVE  /\ client' \in [Clients -> Client] /\ inbox' \in [Clients -> Inbox]
         /\ client'[c].at = at /\ client'[c].is = "none" /\ inbox'[c] = <<>>
         /\ \A d \in Clients : d # c => client'[d] = client[d] /\ inbox'[d] = inbox[d]
<1> DEFINE r == [Idle EXCEPT !.at = at]
<1>1. r \in Client /\ r.at = at /\ r.is = "none"
  BY DEF Idle, Client
<1>2. client' = [client EXCEPT ![c] = r] /\ inbox' = [inbox EXCEPT ![c] = <<>>]
  BY DEF Ends
<1>3. inbox \in [Clients -> Inbox] /\ <<>> \in Inbox
  BY ControlAssumption DEF Shape, ClientsTyped, Inbox
<1> HIDE DEF r
<1>4. /\ client' \in [Clients -> Client] /\ client'[c] = r
      /\ \A d \in Clients : d # c => client'[d] = client[d]
  BY <1>1, <1>2, OneClient
<1> QED
  BY <1>1, <1>2, <1>3, <1>4

(* An inbox gives up its first event.                                       *)
LEMMA TakeInbox ==
  ASSUME Shape, NEW c \in Clients, inbox[c] # <<>>, inbox[c] # Lagged,
         inbox' = [inbox EXCEPT ![c] = Tail(@)]
  PROVE  /\ inbox' \in [Clients -> Inbox] /\ inbox[c] \in Seq(Events) /\ Head(inbox[c]) \in Events
         /\ inbox'[c] = Tail(inbox[c])
         /\ \A d \in Clients : d # c => inbox'[d] = inbox[d]
<1>1. inbox \in [Clients -> Inbox] /\ Capacity \in Nat
  BY ControlAssumption DEF Shape, ClientsTyped
<1>2. inbox[c] \in Seq(Events) /\ Len(inbox[c]) <= Capacity
  BY <1>1 DEF Inbox
<1>3. Tail(inbox[c]) \in Seq(Events) /\ Head(inbox[c]) \in Events
      /\ Len(Tail(inbox[c])) = Len(inbox[c]) - 1
  BY <1>2
<1>4. Tail(inbox[c]) \in Inbox
  BY <1>1, <1>2, <1>3 DEF Inbox
<1> QED
  BY <1>1, <1>2, <1>3, <1>4

(* Steps that leave the clients alone, but for what they are broadcast.     *)
LEMMA ClientsSame ==
  ASSUME Shape, UNCHANGED <<pending, client, lines, seen, behind>>,
         UNCHANGED inbox \/ \E e \in Events : Broadcast(e)
  PROVE  ClientsTyped'
<1>1. inbox' \in [Clients -> Inbox] /\ \A c \in Clients : ~Listening(c) => inbox'[c] = inbox[c]
  BY BroadcastInbox DEF Shape, ClientsTyped
<1> QED
  BY <1>1 DEF Shape, ClientsTyped, Listening

LEMMA CommandsTyped ==
  ASSUME NEW is, NEW p,
         \/ is \in {"look", "approve", "deny"} \cup Streams /\ p = Nobody
         \/ is \in {"tell", "revoke"} \cup Waits /\ p \in Named
  PROVE  Sends(is, p) \in Seq(Commands)
<1>1. /\ \A i \in {"approve", "deny", "pairwith"} : Command(i, Nobody) \in Commands
      /\ \A i \in {"connect", "plugin", "revoke"}, x \in Peers : Command(i, x) \in Commands
  BY DEF Commands
<1>2. /\ is \in {"approve", "deny", "pairwith"} => Sends(is, p) = <<Command(is, Nobody)>>
      /\ is \in {"connect", "revoke"} => Sends(is, p) = <<Command(is, p)>>
      /\ is \in {"tell", "ask", "ping"} => Sends(is, p) = <<Command("plugin", p)>>
      /\ is \in {"look", "pair"} => Sends(is, p) = <<>>
  BY DEF Sends
<1>3. is \in {"connect", "revoke", "tell", "ask", "ping"} => p \in Peers
  BY ControlAssumption DEF Streams, Waits
<1>4. is \in {"approve", "deny", "pairwith"} \cup {"connect", "revoke"} \cup {"tell", "ask", "ping"}
               \cup {"look", "pair"}
  BY DEF Streams, Waits
<1>5. \A x \in Commands : <<x>> \in Seq(Commands)
  OBVIOUS
<1>6. CASE is \in {"approve", "deny", "pairwith"}
  BY <1>1, <1>2, <1>5, <1>6
<1>7. CASE is \in {"connect", "revoke"}
  <2>1. Command(is, p) \in Commands
    BY <1>1, <1>3, <1>7
  <2> QED
    BY <1>2, <1>5, <1>7, <2>1
<1>8. CASE is \in {"tell", "ask", "ping"}
  <2>1. Command("plugin", p) \in Commands
    BY <1>1, <1>3, <1>8
  <2> QED
    BY <1>2, <1>5, <1>8, <2>1
<1>9. CASE is \in {"look", "pair"}
  <2>1. Sends(is, p) = <<>>
    BY <1>2, <1>9
  <2> QED
    BY <2>1
<1> QED
  BY <1>4, <1>6, <1>7, <1>8, <1>9

(* A request that is not answered at once subscribes.                       *)
LEMMA RequestClient ==
  ASSUME Shape, NEW c \in Clients, NEW is, NEW p, Request(c, is, p),
         \/ is \in {"look", "approve", "deny"} \cup Streams /\ p = Nobody
         \/ is \in {"tell", "revoke"} \cup Waits /\ p \in Named
  PROVE  /\ client' \in [Clients -> Client] /\ inbox[c] = <<>>
         /\ client'[c].at \in {"ok", "replay", "stream", "wait"}
         /\ client'[c].at = "wait" => client'[c].peer = p
         /\ client'[c].is = "pair" => client'[c].at = "replay"
         /\ \A d \in Clients : d # c => client'[d] = client[d]
<1> DEFINE r == [at |-> First(is), is |-> is, peer |-> p]
           o == [Idle EXCEPT !.at = "ok"]
<1>1. o \in Client /\ o.at = "ok" /\ o.is = "none"
  BY DEF Idle, Client
<1>2. /\ is = "pair" => First(is) = "replay"
      /\ is = "pairwith" => First(is) = "stream"
      /\ is \in Waits => First(is) = "wait"
      /\ First(is) \in {"ok", "replay", "stream", "wait"}
      /\ First(is) # "ok" => is \in Streams \cup Waits
  BY DEF First, Streams, Waits
<1>3. p \in Peers \cup {Nobody}
  BY ControlAssumption
<1>4. First(is) # "ok" => r \in Client /\ r.at = First(is) /\ r.is = is /\ r.peer = p
  BY <1>2, <1>3 DEF Client
<1>5. client' = [client EXCEPT ![c] = IF First(is) = "ok" THEN o ELSE r]
  BY DEF Request
<1>6. inbox[c] = <<>>
  <2>1. client[c].at = "idle"
    BY DEF Request, Idle
  <2> QED
    BY <2>1 DEF Shape, ClientsTyped, Listening
<1> HIDE DEF r, o
<1>7. CASE First(is) = "ok"
  <2>1. /\ client' \in [Clients -> Client] /\ client'[c] = o
        /\ \A d \in Clients : d # c => client'[d] = client[d]
    BY <1>1, <1>5, <1>7, OneClient
  <2> QED
    BY <1>1, <1>6, <2>1
<1>8. CASE First(is) # "ok"
  <2>1. /\ client' \in [Clients -> Client] /\ client'[c] = r
        /\ \A d \in Clients : d # c => client'[d] = client[d]
    BY <1>4, <1>5, <1>8, OneClient
  <2> QED
    BY <1>2, <1>4, <1>6, <1>8, <2>1
<1> QED
  BY <1>7, <1>8


(* The steps of the task that shows events and of the desktop.              *)
ScreenStep ==
  TakeEvent \/ Raise \/ Shown \/ Started \/ Pressed \/ \E accept \in BOOLEAN : Press(accept)

LEMMA ScreenShape == ASSUME Shape, ScreenStep PROVE Shape'
<1>t. /\ ui \in Seq(Events) /\ presses \in Seq(Questions \X BOOLEAN)
      /\ pending \in 0 .. MaxQuestions /\ showing \in 0 .. MaxQuestions
      /\ pairing \in 0 .. MaxQuestions /\ visible \in 0 .. MaxQuestions
      /\ prompter \in BOOLEAN /\ raised \in BOOLEAN /\ commands \in Seq(Commands)
      /\ 0 \in 0 .. MaxQuestions
      /\ \A q \in 0 .. MaxQuestions : q # 0 => q \in Questions
  BY ControlAssumption DEF Shape, ScreenTyped, CoreTyped, Questions
<1>s. ASSUME ui' \in Seq(Events), presses' \in Seq(Questions \X BOOLEAN),
             pending' \in 0 .. MaxQuestions, showing' \in 0 .. MaxQuestions,
             pairing' \in 0 .. MaxQuestions, visible' \in 0 .. MaxQuestions,
             prompter' \in BOOLEAN, raised' \in BOOLEAN
      PROVE  ScreenTyped'
  BY <1>s DEF ScreenTyped
<1>c. ASSUME UNCHANGED <<core, step, commands, doubt, dropped>> PROVE CoreTyped'
  BY <1>c DEF Shape, CoreTyped, core
<1>1. CASE TakeEvent
  <2>1. Head(ui) \in Events /\ Tail(ui) \in Seq(Events) /\ ui' = Tail(ui)
    BY <1>1, <1>t DEF TakeEvent
  <2>2. /\ pairing' \in 0 .. MaxQuestions /\ visible' \in 0 .. MaxQuestions
        /\ showing' \in 0 .. MaxQuestions
    <3>1. CASE Fan(Head(ui))
      BY <1>t, <3>1 DEF Fan, ClosePair
    <3>2. CASE AskPair(Head(ui))
      BY <1>t, <2>1, <3>2, EventsTyped, SlotsTyped DEF AskPair, ClosePair
    <3> QED
      BY <1>1, <3>1, <3>2 DEF TakeEvent
  <2>3. UNCHANGED inbox \/ Broadcast(Head(ui))
    BY <1>1 DEF TakeEvent, Fan, AskPair
  <2>4. ClientsTyped'
    BY <1>1, <2>1, <2>3, ClientsSame DEF TakeEvent, history
  <2>5. UNCHANGED <<pending, prompter, raised, presses>>
    BY <1>1 DEF TakeEvent
  <2>6. ScreenTyped'
    BY <1>s, <1>t, <2>1, <2>2, <2>5
  <2> QED
    BY <1>1, <1>c, <2>4, <2>6 DEF Shape, TakeEvent, history
<1>2. CASE Raise
  <2>1. ScreenTyped'
    BY <1>2, <1>s, <1>t DEF Raise
  <2>2. ClientsTyped'
    BY <1>2, ClientsSame DEF Raise, history
  <2> QED
    BY <1>2, <1>c, <2>1, <2>2 DEF Shape, Raise, history
<1>3. CASE Shown
  <2>1. ScreenTyped'
    BY <1>3, <1>s, <1>t DEF Shown
  <2>2. Sas(showing) \in Events /\ Broadcast(Sas(showing))
    BY <1>3, <1>t, EventsTyped DEF Shown
  <2>3. ClientsTyped'
    BY <1>3, <2>2, ClientsSame DEF Shown, history
  <2> QED
    BY <1>3, <1>c, <2>1, <2>3 DEF Shape, Shown, history
<1>4. CASE Started
  <2>1. ScreenTyped'
    BY <1>4, <1>s, <1>t DEF Started
  <2>2. ClientsTyped'
    BY <1>4, ClientsSame DEF Started, history
  <2> QED
    BY <1>4, <1>c, <2>1, <2>2 DEF Shape, Started, history
<1>5. CASE Pressed
  <2>1. Command("approve", Nobody) \in Commands /\ Command("deny", Nobody) \in Commands
    BY DEF Commands
  <2>2. commands' \in Seq(Commands)
    <3>1. CASE Head(presses)[1] = pairing
      <4>1. PICK cmd \in Commands : commands' = Append(commands, cmd)
        BY <1>5, <2>1, <3>1 DEF Pressed
      <4> QED
        BY <1>t, <4>1
    <3>2. CASE Head(presses)[1] # pairing
      BY <1>5, <1>t, <3>2 DEF Pressed
    <3> QED
      BY <3>1, <3>2
  <2>3. CoreTyped'
    BY <1>5, <2>2 DEF Shape, CoreTyped, core, Pressed, history
  <2>4. presses' \in Seq(Questions \X BOOLEAN) /\ pairing' \in 0 .. MaxQuestions
    BY <1>5, <1>t DEF Pressed
  <2>5. ScreenTyped'
    BY <1>5, <1>s, <1>t, <2>4 DEF Pressed
  <2>6. ClientsTyped'
    BY <1>5, ClientsSame DEF Pressed, history
  <2> QED
    BY <2>3, <2>5, <2>6 DEF Shape
<1>6. ASSUME NEW accept \in BOOLEAN, Press(accept) PROVE Shape'
  <2>1. <<visible, accept>> \in Questions \X BOOLEAN
    BY <1>6, <1>t DEF Press
  <2>2. presses' \in Seq(Questions \X BOOLEAN)
    BY <1>6, <1>t, <2>1 DEF Press
  <2>3. ScreenTyped'
    BY <1>6, <1>s, <1>t, <2>2 DEF Press
  <2>4. ClientsTyped'
    BY <1>6, ClientsSame DEF Press, history
  <2> QED
    BY <1>6, <1>c, <2>3, <2>4 DEF Shape, Press, history
<1> QED
  BY <1>1, <1>2, <1>3, <1>4, <1>5, <1>6 DEF ScreenStep

LEMMA ClientShape ==
  ASSUME Shape, NEW c \in Clients, ClientStep(c)
  PROVE  Shape'
<1>t. /\ client \in [Clients -> Client] /\ inbox \in [Clients -> Inbox]
      /\ lines \in [Clients -> Seq(Questions)] /\ seen \in [Clients -> SUBSET Questions]
      /\ behind \subseteq Clients /\ pending \in 0 .. MaxQuestions /\ commands \in Seq(Commands)
      /\ doubt \subseteq Clients
      /\ \A d \in Clients : ~Listening(d) => inbox[d] = <<>>
      /\ \A d \in Clients : client[d].at = "writing" => pending # 0
  BY DEF Shape, ClientsTyped, ScreenTyped, CoreTyped
<1>s. ASSUME UNCHANGED <<ui, presses, pending, screen>> PROVE ScreenTyped'
  BY <1>s DEF Shape, ScreenTyped, screen
<1>c. ASSUME UNCHANGED <<core, step, dropped>>, commands' \in Seq(Commands), doubt' \subseteq Clients
      PROVE  CoreTyped'
  BY <1>c DEF Shape, CoreTyped, core
\* The client of the step alone changes.
<1>k. ASSUME client' \in [Clients -> Client], inbox' \in [Clients -> Inbox],
             lines' \in [Clients -> Seq(Questions)], seen' \in [Clients -> SUBSET Questions],
             behind' \subseteq Clients, UNCHANGED pending,
             \A d \in Clients : d # c => client'[d] = client[d] /\ inbox'[d] = inbox[d],
             client'[c].at \in {"replay", "writing", "stream", "wait"} \/ inbox'[c] = <<>>,
             client'[c].at = "writing" => pending # 0
      PROVE  ClientsTyped'
  <2>1. ASSUME NEW d \in Clients
        PROVE  client'[d].at \in {"replay", "writing", "stream", "wait"} \/ inbox'[d] = <<>>
    BY <1>k, <1>t DEF Listening
  <2>2. ASSUME NEW d \in Clients PROVE client'[d].at = "writing" => pending' # 0
    BY <1>k, <1>t
  <2> QED
    BY <1>k, <2>1, <2>2 DEF ClientsTyped, Listening
<1>q. ASSUME NEW q \in Questions, Tells(c, q)
      PROVE  lines' \in [Clients -> Seq(Questions)] /\ seen' \in [Clients -> SUBSET Questions]
  BY <1>q, <1>t DEF Tells
<1>1. ASSUME NEW is, NEW p, Request(c, is, p),
             \/ is \in {"look", "approve", "deny"} \cup Streams /\ p = Nobody
             \/ is \in {"tell", "revoke"} \cup Waits /\ p \in Named
      PROVE  Shape'
  <2>1. Sends(is, p) \in Seq(Commands)
    BY <1>1, CommandsTyped
  <2>2. commands' \in Seq(Commands) /\ doubt' \subseteq Clients
    BY <1>1, <1>t, <2>1 DEF Request, Submit
  <2>3. /\ client' \in [Clients -> Client] /\ inbox[c] = <<>>
        /\ client'[c].at \in {"ok", "replay", "stream", "wait"}
        /\ \A d \in Clients : d # c => client'[d] = client[d]
    BY <1>1, RequestClient
  <2>4. ClientsTyped'
    BY <1>1, <1>k, <1>t, <2>3 DEF Request
  <2> QED
    BY <1>1, <1>c, <1>s, <2>2, <2>4 DEF Shape, Request
<1>2. CASE Replay(c)
  <2>1. PICK at \in {"stream", "writing"} : Becomes(c, at) /\ (at = "writing" => pending # 0)
    BY <1>2 DEF Replay
  <2>2. /\ client' \in [Clients -> Client] /\ client'[c].at = at
        /\ \A d \in Clients : d # c => client'[d] = client[d]
    BY <2>1, BecomesClient
  <2>3. behind' \subseteq Clients
    BY <1>2, <1>t DEF Replay
  <2>4. ClientsTyped'
    BY <1>2, <1>k, <1>t, <2>1, <2>2, <2>3 DEF Replay
  <2> QED
    BY <1>2, <1>c, <1>s, <1>t, <2>4 DEF Shape, Replay
<1>3. CASE Written(c)
  <2>1. pending \in Questions
    BY <1>3, <1>t DEF Written, Questions
  <2>2. lines' \in [Clients -> Seq(Questions)] /\ seen' \in [Clients -> SUBSET Questions]
    BY <1>3, <1>q, <2>1 DEF Written
  <2>3. /\ client' \in [Clients -> Client] /\ client'[c].at = "stream"
        /\ \A d \in Clients : d # c => client'[d] = client[d]
    BY <1>3, BecomesClient DEF Written
  <2>4. ClientsTyped'
    BY <1>3, <1>k, <1>t, <2>2, <2>3 DEF Written
  <2> QED
    BY <1>3, <1>c, <1>s, <1>t, <2>4 DEF Shape, Written
<1>4. CASE Relay(c)
  <2>1. CASE Head(inbox[c]).is \in {"complete", "failed", "lagged"}
    <3>1. /\ client' \in [Clients -> Client] /\ inbox' \in [Clients -> Inbox]
          /\ client'[c].at = "ended" /\ inbox'[c] = <<>>
          /\ \A d \in Clients : d # c => client'[d] = client[d] /\ inbox'[d] = inbox[d]
      BY <1>4, <2>1, EndsClient DEF Relay
    <3>2. ClientsTyped'
      BY <1>4, <1>k, <1>t, <2>1, <3>1 DEF Relay
    <3> QED
      BY <1>4, <1>c, <1>s, <1>t, <3>2 DEF Shape, Relay
  <2>2. CASE Head(inbox[c]).is \notin {"complete", "failed", "lagged"}
    <3>1. inbox[c] # <<>> /\ inbox[c] # Lagged
      BY <1>4, <2>2, LaggedSays DEF Relay
    <3>2. /\ inbox' \in [Clients -> Inbox] /\ Head(inbox[c]) \in Events
          /\ \A d \in Clients : d # c => inbox'[d] = inbox[d]
      BY <1>4, <2>2, <3>1, TakeInbox DEF Relay
    <3>3. lines' \in [Clients -> Seq(Questions)] /\ seen' \in [Clients -> SUBSET Questions]
      BY <1>4, <1>q, <1>t, <2>2, <3>2, EventsTyped DEF Relay
    <3>4. client' = client /\ client[c].at = "stream" /\ UNCHANGED <<pending, behind>>
      BY <1>4, <2>2 DEF Relay
    <3>5. ClientsTyped'
      BY <1>k, <1>t, <3>2, <3>3, <3>4
    <3> QED
      BY <1>4, <1>c, <1>s, <1>t, <3>5 DEF Shape, Relay
  <2> QED
    BY <2>1, <2>2
<1>5. CASE Take(c)
  <2> DEFINE says == IF inbox[c] = Lagged THEN "gone" ELSE Verdict(client[c], Head(inbox[c]))
  <2>0. says \in {"reply", "refused", "gone", "wait"}
    BY DEF Verdict
  <2>d. doubt' \subseteq Clients /\ UNCHANGED <<pending, lines, seen, behind>>
    BY <1>5, <1>t DEF Take
  <2>1. CASE says = "wait"
    <3>1. inbox[c] # <<>> /\ inbox[c] # Lagged /\ inbox' = [inbox EXCEPT ![c] = Tail(@)]
      BY <1>5, <2>1 DEF Take
    <3>2. /\ inbox' \in [Clients -> Inbox]
          /\ \A d \in Clients : d # c => inbox'[d] = inbox[d]
      BY <3>1, TakeInbox
    <3>3. client' = client /\ client[c].at = "wait"
      BY <1>5, <2>1 DEF Take
    <3>4. ClientsTyped'
      BY <1>k, <1>t, <2>d, <3>2, <3>3
    <3> QED
      BY <1>5, <1>c, <1>s, <1>t, <2>d, <3>4 DEF Shape, Take
  <2>2. CASE says # "wait"
    <3>1. Ends(c, says)
      BY <1>5, <2>2 DEF Take
    <3>a. says \in {"idle", "ended", "ok", "reply", "refused", "gone", "timeout"}
      BY <2>0, <2>2
    <3> HIDE DEF says
    <3>2. /\ client' \in [Clients -> Client] /\ inbox' \in [Clients -> Inbox]
          /\ client'[c].at = says /\ inbox'[c] = <<>>
          /\ \A d \in Clients : d # c => client'[d] = client[d] /\ inbox'[d] = inbox[d]
      BY <3>1, <3>a, EndsClient
    <3>3. ClientsTyped'
      BY <1>k, <1>t, <2>d, <3>2, <3>a
    <3> QED
      BY <1>5, <1>c, <1>s, <1>t, <2>d, <3>3 DEF Shape, Take
  <2> QED
    BY <2>1, <2>2
<1>6. CASE Timeout(c)
  <2>1. /\ client' \in [Clients -> Client] /\ inbox' \in [Clients -> Inbox]
        /\ client'[c].at = "timeout" /\ inbox'[c] = <<>>
        /\ \A d \in Clients : d # c => client'[d] = client[d] /\ inbox'[d] = inbox[d]
    BY <1>6, EndsClient DEF Timeout
  <2>2. ClientsTyped'
    BY <1>6, <1>k, <1>t, <2>1 DEF Timeout, history
  <2> QED
    BY <1>6, <1>c, <1>s, <1>t, <2>2 DEF Shape, Timeout, history
<1>7. ASSUME NEW accept \in BOOLEAN, Answer(c, accept) PROVE Shape'
  <2>1. Command("approve", Nobody) \in Commands /\ Command("deny", Nobody) \in Commands
    BY DEF Commands
  <2>2. commands' \in Seq(Commands)
    BY <1>7, <1>t, <2>1 DEF Answer, Submit
  <2>3. lines' \in [Clients -> Seq(Questions)]
    BY <1>7, <1>t DEF Answer
  <2>4. UNCHANGED <<client, inbox, pending, seen, behind, doubt, dropped, core, step, ui, presses, screen>>
    BY <1>7 DEF Answer, history
  <2>5. ClientsTyped'
    BY <1>t, <2>3, <2>4 DEF ClientsTyped, Listening
  <2> QED
    BY <1>c, <1>s, <1>t, <2>2, <2>4, <2>5 DEF Shape
<1> QED
  BY <1>1, <1>2, <1>3, <1>4, <1>5, <1>6, <1>7 DEF ClientStep

LEMMA NextCases ==
  Next <=> CoreStep \/ Observe \/ ScreenStep \/ \E c \in Clients : ClientStep(c)
  BY DEF Next, CoreStep, ScreenStep

LEMMA StepShape == Shape /\ [Next]_vars => Shape'
<1> SUFFICES ASSUME Shape, [Next]_vars PROVE Shape'
  OBVIOUS
<1>1. CASE CoreStep
  <2>1. /\ UNCHANGED <<pending, screen, presses, client, inbox, lines, seen, behind>> /\ CoreTyped'
        /\ \E say \in Seq(Events) : ui' = ui \o say
    BY <1>1, CoreSays
  <2>2. ui' \in Seq(Events)
    BY <2>1, JoinAt DEF Shape, ScreenTyped
  <2>3. ScreenTyped'
    BY <2>1, <2>2 DEF Shape, ScreenTyped, screen
  <2>4. ClientsTyped'
    BY <2>1, ClientsSame
  <2> QED
    BY <2>1, <2>3, <2>4 DEF Shape
<1>2. CASE Observe
  <2>1. pending' \in 0 .. MaxQuestions
    BY <1>2, SlotsTyped, ControlAssumption DEF Observe, Shape, ScreenTyped, CoreTyped
  <2>2. CoreTyped'
    BY <1>2 DEF Observe, Shape, CoreTyped, core, history
  <2>3. ScreenTyped'
    BY <1>2, <2>1 DEF Observe, Shape, ScreenTyped, screen
  <2>4. ClientsTyped'
    BY <1>2 DEF Observe, Shape, ClientsTyped, Listening, history
  <2> QED
    BY <2>2, <2>3, <2>4 DEF Shape
<1>3. CASE ScreenStep
  BY <1>3, ScreenShape
<1>4. CASE \E c \in Clients : ClientStep(c)
  BY <1>4, ClientShape
<1>5. CASE UNCHANGED vars
  BY <1>5 DEF vars, core, screen, history, Shape, CoreTyped, ScreenTyped, ClientsTyped, Listening
<1> QED
  BY <1>1, <1>2, <1>3, <1>4, <1>5, NextCases

(* The fields hold what they can hold, inboxes no more than the channel      *)
(* does, and no client that has its answer is still subscribed.             *)
THEOREM Typing == Spec => []TypeOK
  BY InitShape, StepShape, ShapeTyped, PTL DEF Spec


-----------------------------------------------------------------------------
(* What is on the screen is what the core awaits. *)

LEMMA InitScreen == Init => ScreenInv
  BY Nothing DEF Init, ScreenInv

LEMMA ScreenKept == ASSUME Shape, ScreenInv, Next PROVE ScreenInv'
<1>t. /\ ui \in Seq(Events) /\ showing \in 0 .. MaxQuestions /\ pairing \in 0 .. MaxQuestions
      /\ prompter \in BOOLEAN /\ raised \in BOOLEAN
  BY DEF Shape, ScreenTyped
<1>i. /\ \A q : Final(ui, q) => q \in Current
      /\ Quiet(ui) /\ showing # 0 => showing \in Current
      /\ Quiet(ui) /\ showing = 0 => pairing \in {0} \cup Current
      /\ showing # 0 => pairing = 0
      /\ ~prompter => pairing = 0 /\ showing = 0
  BY DEF ScreenInv
<1>1. CASE CoreStep
  <2>1. UNCHANGED <<prompter, showing, pairing>>
    BY <1>1, CoreSays DEF screen
  <2>2. PICK say \in Seq(Events) : ui' = ui \o say /\ Settles(say)
    BY <1>1, CoreSays
  <2>3. CASE Quiet(say) /\ Current \subseteq Current'
    <3>1. (Quiet(ui') => Quiet(ui)) /\ \A q : Final(ui', q) => Final(ui, q)
      BY <1>t, <2>2, <2>3, JoinFinal
    <3> QED
      BY <1>i, <2>1, <2>3, <3>1 DEF ScreenInv
  <2>4. ASSUME NEW e \in Events, say = <<e>>, e.is \in PairKinds,
               e.is = "sas" => e.question = slot'.question
        PROVE  ScreenInv'
    <3>1. ~Quiet(ui') /\ \A q : Final(ui', q) => e.is = "sas" /\ e.question = q
      BY <1>t, <2>2, <2>4, JoinWord
    <3> QED
      BY <1>i, <2>1, <2>4, <3>1 DEF ScreenInv, Current
  <2> QED
    BY <2>2, <2>3, <2>4 DEF Settles
<1>2. CASE Observe
  BY <1>2, <1>i DEF Observe, ScreenInv, Current, core, history, screen
<1>3. CASE TakeEvent
  <2> DEFINE e == Head(ui)
  <2>1. /\ \A q : Final(ui', q) => Final(ui, q)
        /\ Quiet(ui') /\ e.is \notin PairKinds => Quiet(ui)
        /\ Quiet(ui') /\ e.is = "sas" => Final(ui, e.question)
        /\ e \in Events
    BY <1>3, <1>t, TailOf DEF TakeEvent
  <2>2. showing = 0 /\ UNCHANGED <<slot, prompter, dropped>> /\ Current' = Current
    BY <1>3 DEF TakeEvent, core, history, Current
  <2>e. e.is = "sas" => e.question # 0
    BY <2>1, EventsTyped, SlotsTyped
  <2>3. ASSUME Fan(e) PROVE ScreenInv'
    <3> HIDE DEF e
    <3>1. CASE e.is \in {"complete", "failed"} /\ prompter
      <4>1. pairing' = 0 /\ showing' = 0
        BY <2>2, <2>3, <3>1 DEF Fan, ClosePair
      <4> QED
        BY <1>i, <2>1, <2>2, <4>1 DEF ScreenInv
    <3>2. CASE ~(e.is \in {"complete", "failed"} /\ prompter)
      <4>1. pairing' = pairing /\ showing' = 0 /\ (e.is # "sas" \/ ~prompter)
        BY <2>2, <2>3, <3>2 DEF Fan
      <4>2. e.is \in PairKinds => pairing = 0
        BY <1>i, <3>2, <4>1 DEF PairKinds
      <4> QED
        BY <1>i, <2>1, <2>2, <4>1, <4>2 DEF ScreenInv
    <3> QED
      BY <3>1, <3>2
  <2>4. ASSUME AskPair(e) PROVE ScreenInv'
    <3>1. e.is = "sas" /\ prompter /\ pairing' = 0 /\ showing' = e.question
      BY <2>4 DEF AskPair, ClosePair
    <3> HIDE DEF e
    <3> QED
      BY <1>i, <2>1, <2>2, <2>e, <3>1 DEF ScreenInv
  <2> QED
    BY <1>3, <2>3, <2>4 DEF TakeEvent
<1>4. CASE Raise
  BY <1>4, <1>i DEF Raise, ScreenInv, Current, core, history
<1>5. CASE Shown
  <2>1. /\ showing # 0 /\ showing' = 0 /\ pairing' = IF raised THEN showing ELSE pairing
        /\ UNCHANGED <<slot, ui, prompter>> /\ Current' = Current
    BY <1>5 DEF Shown, core, history, Current
  <2> QED
    BY <1>i, <2>1 DEF ScreenInv
<1>6. CASE Started
  BY <1>6, <1>i DEF Started, ScreenInv, Current, core, history
<1>7. CASE Pressed
  <2>1. (pairing' = 0 \/ pairing' = pairing) /\ UNCHANGED <<slot, ui, prompter, showing>>
        /\ Current' = Current
    BY <1>7 DEF Pressed, core, history, Current
  <2> QED
    BY <1>i, <2>1 DEF ScreenInv
<1>8. CASE \E accept \in BOOLEAN : Press(accept)
  BY <1>8, <1>i DEF Press, ScreenInv, Current, core, history
<1>9. ASSUME NEW c \in Clients, ClientStep(c) PROVE ScreenInv'
  <2>1. UNCHANGED <<slot, ui, prompter, showing, pairing, dropped>>
    BY <1>9 DEF ClientStep, Request, Replay, Written, Relay, Take, Timeout, Answer, core, screen, history
  <2>2. Current' = Current
    BY <2>1 DEF Current
  <2> QED
    BY <1>i, <2>1, <2>2 DEF ScreenInv
<1> QED
  BY <1>1, <1>2, <1>3, <1>4, <1>5, <1>6, <1>7, <1>8, <1>9, NextCases DEF ScreenStep

-----------------------------------------------------------------------------
(* Nobody misses the question that is waiting. *)

LEMMA InitPair == Init => PairInv
  BY DEF Init, PairInv, Idle

(* A step that neither asks nor takes anything on its way to c.             *)
LEMMA PairStep ==
  ASSUME PairInv, NEW c \in Clients, client'[c].is = "pair",
         client'[c].at \in {"writing", "stream"}, c \notin behind', slot'.is = "awaiting",
         slot' = slot, client'[c] = client[c], c \notin behind,
         slot.question \in seen[c] => slot.question \in seen'[c],
         client[c].at = "writing" => pending' = pending,
         Asks(ui, slot.question) \/ showing = slot.question
           => \/ Asks(ui', slot.question) \/ showing' = slot.question
              \/ Asks(inbox'[c], slot.question) \/ inbox'[c] = Lagged,
         Asks(inbox[c], slot.question) \/ inbox[c] = Lagged
           => \/ Asks(inbox'[c], slot.question) \/ inbox'[c] = Lagged
              \/ slot.question \in seen'[c]
  PROVE  Reaches(c, slot.question)'
<1>1. Reaches(c, slot.question)
  BY DEF PairInv
<1> QED
  BY <1>1 DEF Reaches

LEMMA PairKept == ASSUME Shape, PairInv, Next PROVE PairInv'
<1> SUFFICES ASSUME NEW c \in Clients, client'[c].is = "pair",
                    client'[c].at \in {"writing", "stream"}, c \notin behind',
                    slot'.is = "awaiting"
             PROVE  Reaches(c, slot.question)'
  BY DEF PairInv
<1> DEFINE q == slot.question
<1>t. /\ ui \in Seq(Events) /\ inbox \in [Clients -> Inbox] /\ slot \in Slots
      /\ seen \in [Clients -> SUBSET Questions] /\ showing \in 0 .. MaxQuestions
      /\ lines \in [Clients -> Seq(Questions)]
  BY DEF Shape, ScreenTyped, ClientsTyped, CoreTyped
<1>q. slot.is = "awaiting" => q \in Questions /\ q # 0
  BY <1>t, SlotsTyped
<1>1. CASE CoreStep
  <2>1. UNCHANGED <<pending, showing, client, inbox, seen, behind>>
    BY <1>1, CoreSays DEF screen
  <2>2. PICK say \in Seq(Events) : ui' = ui \o say /\ Settles(say)
    BY <1>1, CoreSays
  <2>3. \A x : Asks(ui, x) \/ Asks(say, x) => Asks(ui', x)
    BY <1>t, <2>2, JoinFinal
  <2>4. CASE slot' = slot
    BY <2>1, <2>3, <2>4, PairStep
  <2>5. CASE Asks(say, slot'.question)
    BY <2>3, <2>5 DEF Reaches
  <2> QED
    BY <2>2, <2>4, <2>5 DEF Settles
<1>2. CASE Observe
  <2>1. UNCHANGED <<slot, ui, showing, client, inbox, seen, behind>>
    BY <1>2 DEF Observe, core, screen, history
  <2>2. client[c].at = "writing" => pending' = pending
    BY <1>2 DEF Observe
  <2> QED
    BY <2>1, <2>2, PairStep
<1>3. CASE TakeEvent
  <2> DEFINE e == Head(ui)
  <2>1. e \in Events /\ \A x : Asks(ui, x) => Asks(ui', x) \/ (e.is = "sas" /\ e.question = x)
    BY <1>3, <1>t, TailOf DEF TakeEvent
  <2>2. showing = 0 /\ UNCHANGED <<slot, pending, client, seen, behind>> /\ (Fan(e) \/ AskPair(e))
    BY <1>3 DEF TakeEvent, core, history
  <2> HIDE DEF e
  <2>3. Listening(c)
    BY <2>2 DEF Listening
  <2>4. Fan(e) => Broadcast(e)
    BY DEF Fan
  <2>5. AskPair(e) => showing' = e.question /\ UNCHANGED inbox
    BY DEF AskPair
  <2>6. Broadcast(e) =>
          /\ Asks(inbox[c], q) \/ inbox[c] = Lagged => Asks(inbox'[c], q) \/ inbox'[c] = Lagged
          /\ e.is = "sas" => Asks(inbox'[c], e.question) \/ inbox'[c] = Lagged
    BY <2>1, <2>3, BroadcastInbox
  <2>7. Asks(ui, q) \/ showing = q
          => \/ Asks(ui', q) \/ showing' = q
             \/ Asks(inbox'[c], q) \/ inbox'[c] = Lagged
    BY <1>q, <2>1, <2>2, <2>4, <2>5, <2>6
  <2> QED
    BY <2>2, <2>4, <2>5, <2>6, <2>7, PairStep
<1>4. CASE Shown
  <2>1. /\ showing # 0 /\ Broadcast(Sas(showing))
        /\ UNCHANGED <<slot, ui, pending, client, seen, behind>>
    BY <1>4 DEF Shown, core, history
  <2>2. Listening(c) /\ showing \in Questions
    BY <1>t, <2>1 DEF Listening, Questions
  <2>3. Sas(showing) \in Events /\ Sas(showing).is = "sas" /\ Sas(showing).question = showing
    BY <2>2, EventsTyped
  <2>4. /\ Asks(inbox[c], q) \/ inbox[c] = Lagged => Asks(inbox'[c], q) \/ inbox'[c] = Lagged
        /\ Asks(inbox'[c], showing) \/ inbox'[c] = Lagged
    BY <2>1, <2>2, <2>3, BroadcastInbox
  <2> QED
    BY <2>1, <2>4, PairStep
<1>5. CASE Raise \/ Started \/ Pressed \/ \E accept \in BOOLEAN : Press(accept)
  <2>1. UNCHANGED <<slot, ui, showing, pending, client, inbox, seen, behind>>
    BY <1>5 DEF Raise, Started, Pressed, Press, core, history
  <2> QED
    BY <2>1, PairStep
<1>6. ASSUME NEW d \in Clients, ClientStep(d) PROVE Reaches(c, slot.question)'
  <2>0. UNCHANGED <<slot, ui, pending, showing>>
    BY <1>6 DEF ClientStep, Request, Replay, Written, Relay, Take, Timeout, Answer, core, screen
  <2>a. seen'[c] = seen[c] \/ \E x : Tells(d, x)
    BY <1>6 DEF ClientStep, Request, Replay, Written, Relay, Take, Timeout, Answer, history
  <2>b. ASSUME NEW x, Tells(d, x)
        PROVE  seen[c] \subseteq seen'[c] /\ (c = d => x \in seen'[c])
    BY <1>t, <2>b DEF Tells
  <2>c. behind \subseteq behind'
    BY <1>6 DEF ClientStep, Request, Replay, Written, Relay, Take, Timeout, Answer, history
  <2>1. CASE client'[c] = client[c] /\ inbox'[c] = inbox[c]
    BY <2>0, <2>1, <2>a, <2>b, <2>c, PairStep
  <2>2. ASSUME NEW is, NEW p, Request(d, is, p),
               \/ is \in {"look", "approve", "deny"} \cup Streams /\ p = Nobody
               \/ is \in {"tell", "revoke"} \cup Waits /\ p \in Named
        PROVE  Reaches(c, slot.question)'
    <3>1. /\ client'[d].is = "pair" => client'[d].at = "replay"
          /\ c # d => client'[c] = client[c]
      BY <2>2, RequestClient
    <3>2. c # d /\ UNCHANGED inbox
      BY <2>2, <3>1 DEF Request
    <3> QED
      BY <2>1, <3>1, <3>2
  <2>3. CASE Replay(d)
    <3>1. CASE c = d
      <4>1. pending = slot.question
        BY <2>3, <2>0, <3>1 DEF Replay
      <4>2. pending # 0
        BY <1>q, <2>0, <4>1
      <4>3. client'[c].at = "writing"
        BY <2>3, <3>1, <4>2, BecomesClient DEF Replay
      <4> QED
        BY <2>0, <4>1, <4>3 DEF Reaches
    <3>2. CASE c # d
      <4>1. PICK at \in {"stream", "writing"} : Becomes(d, at)
        BY <2>3 DEF Replay
      <4>2. client'[c] = client[c] /\ inbox' = inbox
        BY <2>3, <3>2, <4>1, BecomesClient DEF Replay
      <4> QED
        BY <2>1, <4>2
    <3> QED
      BY <3>1, <3>2
  <2>4. CASE Written(d)
    <3>1. client'[c] = client[c] \/ c = d
      BY <2>4, BecomesClient DEF Written
    <3>2. inbox' = inbox /\ Tells(d, pending) /\ client[d].at = "writing"
      BY <2>4 DEF Written
    <3>3. CASE c = d
      <4>1. client'[c].is = client[c].is
        BY <2>4, <3>3, BecomesClient DEF Written
      <4>2. c \notin behind
        BY <2>c
      <4>3. Reaches(c, slot.question)
        BY <2>0, <3>2, <3>3, <4>1, <4>2 DEF PairInv
      <4>4. seen[c] \subseteq seen'[c] /\ pending \in seen'[c]
        BY <2>b, <3>2, <3>3
      <4> QED
        BY <2>0, <3>2, <4>3, <4>4 DEF Reaches
    <3> QED
      BY <2>1, <3>1, <3>2, <3>3
  <2>5. CASE Relay(d)
    <3>1. CASE Head(inbox[d]).is \in {"complete", "failed", "lagged"}
      <4>1. /\ client'[d].is = "none"
            /\ c # d => client'[c] = client[c] /\ inbox'[c] = inbox[c]
        BY <2>5, <3>1, EndsClient DEF Relay
      <4> QED
        BY <2>1, <4>1
    <3>2. CASE Head(inbox[d]).is \notin {"complete", "failed", "lagged"}
      <4>1. /\ inbox[d] # <<>> /\ inbox[d] # Lagged /\ client' = client
            /\ inbox' = [inbox EXCEPT ![d] = Tail(@)]
        BY <2>5, <3>2, LaggedSays DEF Relay
      <4>2. /\ inbox[d] \in Seq(Events) /\ inbox'[d] = Tail(inbox[d])
            /\ c # d => inbox'[c] = inbox[c]
        BY <4>1, TakeInbox
      <4>3. CASE c = d
        <5>1. Asks(inbox[c], q) => \/ Asks(inbox'[c], q)
                                   \/ Head(inbox[c]).is = "sas" /\ Head(inbox[c]).question = q
          BY <4>1, <4>2, <4>3, TailOf
        <5>2. Head(inbox[c]).is = "sas" => Head(inbox[c]).question \in seen'[c]
          BY <2>5, <2>b, <3>2, <4>3 DEF Relay
        <5>3. q \in seen[c] => q \in seen'[c]
          BY <2>a, <2>b
        <5> QED
          BY <2>0, <2>c, <4>1, <4>3, <5>1, <5>2, <5>3, PairStep
      <4> QED
        BY <2>1, <4>1, <4>2, <4>3
    <3> QED
      BY <3>1, <3>2
  <2>6. CASE Take(d)
    <3>1. c # d => client'[c] = client[c] /\ inbox'[c] = inbox[c]
      BY <2>6, <1>t DEF Take, Ends, Shape, ClientsTyped
    <3>2. c # d
      <4>1. client[d].at = "wait"
        BY <2>6 DEF Take
      <4>2. client' = client \/ \E x \in {"reply", "refused", "gone"} : Ends(d, x)
        BY <2>6 DEF Take, Verdict
      <4>3. client'[d].at \in {"wait", "reply", "refused", "gone"}
        BY <4>1, <4>2, EndsClient
      <4> QED
        BY <4>3
    <3> QED
      BY <2>1, <3>1, <3>2
  <2>7. CASE Timeout(d)
    <3>1. client'[d].at = "timeout" /\ (c # d => client'[c] = client[c] /\ inbox'[c] = inbox[c])
      BY <2>7, EndsClient DEF Timeout
    <3> QED
      BY <2>1, <3>1
  <2>8. CASE \E accept \in BOOLEAN : Answer(d, accept)
    BY <2>1, <2>8 DEF Answer
  <2> QED
    BY <1>6, <2>2, <2>3, <2>4, <2>5, <2>6, <2>7, <2>8 DEF ClientStep
<1> QED
  BY <1>1, <1>2, <1>3, <1>4, <1>5, <1>6, NextCases DEF ScreenStep


-----------------------------------------------------------------------------
(* Whoever is told "gone" was told the truth. *)

LEMMA InitWait == Init => WaitInv
<1> SUFFICES ASSUME Init, NEW c \in Clients PROVE client[c].at = "idle"
  BY DEF WaitInv
<1>1. client[c] = Idle
  BY DEF Init
<1> QED
  BY <1>1 DEF Idle

(* Only the peer's own going ends a wait with "gone".                       *)
LEMMA VerdictGone ==
  ASSUME NEW r, NEW e, Verdict(r, e) = "gone"
  PROVE  e.is = "unreachable" /\ e.peer = r.peer
<1>1. e.peer = r.peer
  BY DEF Verdict
<1>2. CASE r.is \in {"ask", "ping"} /\ e.is = "unreachable"
  BY <1>1, <1>2
<1>3. CASE ~(r.is \in {"ask", "ping"} /\ e.is = "unreachable")
  BY <1>3 DEF Verdict
<1> QED
  BY <1>2, <1>3

LEMMA WaitKept == ASSUME Shape, WaitInv, Next PROVE WaitInv'
<1> SUFFICES ASSUME NEW c \in Clients
             PROVE  /\ client'[c].at = "gone" => c \in doubt'
                    /\ client'[c].at = "wait" /\ c \notin doubt'
                       => /\ client'[c].peer \in up'
                          /\ ~Mourns(ui', client'[c].peer) /\ ~Mourns(inbox'[c], client'[c].peer)
  BY DEF WaitInv
<1> DEFINE p == client[c].peer
           Goal == /\ client'[c].at = "gone" => c \in doubt'
                   /\ client'[c].at = "wait" /\ c \notin doubt'
                      => /\ client'[c].peer \in up'
                         /\ ~Mourns(ui', client'[c].peer) /\ ~Mourns(inbox'[c], client'[c].peer)
<1>t. ui \in Seq(Events) /\ inbox \in [Clients -> Inbox]
  BY DEF Shape, ScreenTyped, ClientsTyped
<1>i. /\ client[c].at = "gone" => c \in doubt
      /\ client[c].at = "wait" /\ c \notin doubt
         => p \in up /\ ~Mourns(ui, p) /\ ~Mourns(inbox[c], p)
  BY DEF WaitInv
\* Steps that say nothing new of c's peer.
<1>q. ASSUME client'[c] = client[c], doubt \subseteq doubt', up' = up,
             Mourns(ui', p) => Mourns(ui, p),
             Mourns(inbox'[c], p) => Mourns(inbox[c], p) \/ Mourns(ui, p)
      PROVE  Goal
  BY <1>i, <1>q
<1>1. CASE CoreStep
  <2>1. UNCHANGED <<client, inbox>>
    BY <1>1, CoreSays
  <2>2. PICK say \in Seq(Events) : ui' = ui \o say /\ Settles(say)
    BY <1>1, CoreSays
  <2>3. Mourns(ui', p) => Mourns(ui, p) \/ Mourns(say, p)
    BY <1>t, <2>2, JoinFinal
  <2>4. c \notin doubt' => c \notin doubt /\ (p \in up => p \in up' /\ ~Mourns(say, p))
    BY <2>2 DEF Settles
  <2>5. client[c].at = "gone" => c \in doubt'
    BY <1>i, <2>4
  <2> QED
    BY <1>i, <2>1, <2>3, <2>4, <2>5
<1>2. CASE Observe \/ Raise \/ Started \/ Pressed \/ \E accept \in BOOLEAN : Press(accept)
  <2>1. UNCHANGED <<client, inbox, ui, up, doubt>>
    BY <1>2 DEF Observe, Raise, Started, Pressed, Press, core, history
  <2> QED
    BY <1>q, <2>1
<1>3. CASE TakeEvent
  <2> DEFINE e == Head(ui)
  <2>1. /\ e \in Events /\ \A x : Mourns(ui', x) => Mourns(ui, x)
        /\ e.is = "unreachable" => Mourns(ui, e.peer)
    BY <1>3, <1>t, TailOf DEF TakeEvent
  <2>2. UNCHANGED <<client, up, doubt>> /\ (UNCHANGED inbox \/ Broadcast(e))
    BY <1>3 DEF TakeEvent, Fan, AskPair, core, history
  <2> HIDE DEF e
  <2>3. Broadcast(e) => (Mourns(inbox'[c], p)
                           => Mourns(inbox[c], p) \/ (e.is = "unreachable" /\ e.peer = p))
    BY <2>1, BroadcastInbox
  <2> QED
    BY <1>q, <2>1, <2>2, <2>3
<1>4. CASE Shown
  <2>1. showing # 0 /\ Broadcast(Sas(showing)) /\ UNCHANGED <<client, ui, up, doubt>>
    BY <1>4 DEF Shown, core, history
  <2>2. showing \in Questions
    BY <2>1 DEF Shape, ScreenTyped, Questions
  <2>3. Sas(showing) \in Events /\ Sas(showing).is = "sas"
    BY <2>2, EventsTyped
  <2>4. Mourns(inbox'[c], p) => Mourns(inbox[c], p)
    BY <2>1, <2>3, BroadcastInbox
  <2> QED
    BY <1>q, <2>1, <2>4
<1>5. ASSUME NEW d \in Clients, ClientStep(d) PROVE Goal
  <2>0. UNCHANGED <<ui, up>> /\ doubt \subseteq doubt'
    BY <1>5 DEF ClientStep, Request, Replay, Written, Relay, Take, Timeout, Answer, core, history
  <2>1. CASE client'[c] = client[c] /\ inbox'[c] = inbox[c]
    BY <1>q, <2>0, <2>1
  <2>2. ASSUME NEW is, NEW x, Request(d, is, x),
               \/ is \in {"look", "approve", "deny"} \cup Streams /\ x = Nobody
               \/ is \in {"tell", "revoke"} \cup Waits /\ x \in Named
        PROVE  Goal
    <3>1. /\ client'[d].at \in {"ok", "replay", "stream", "wait"} /\ inbox[d] = <<>>
          /\ client'[d].at = "wait" => client'[d].peer = x
          /\ c # d => client'[c] = client[c]
      BY <2>2, RequestClient
    <3>2. UNCHANGED inbox
      BY <2>2 DEF Request
    <3>3. CASE c = d
      <4>1. c \notin doubt' => ui = <<>> /\ x \in up
        BY <2>2, <3>3 DEF Request
      <4>2. \A y : ~Mourns(<<>>, y)
        BY Nothing
      <4> QED
        BY <2>0, <3>1, <3>2, <3>3, <4>1, <4>2
    <3> QED
      BY <2>1, <3>1, <3>2, <3>3
  <2>3. CASE Replay(d)
    <3>1. PICK at \in {"stream", "writing"} : Becomes(d, at)
      BY <2>3 DEF Replay
    <3>2. client'[d].at = at /\ (c # d => client'[c] = client[c]) /\ UNCHANGED inbox
      BY <2>3, <3>1, BecomesClient DEF Replay
    <3> QED
      BY <2>1, <3>2
  <2>4. CASE Written(d)
    <3>1. client'[d].at = "stream" /\ (c # d => client'[c] = client[c]) /\ UNCHANGED inbox
      BY <2>4, BecomesClient DEF Written
    <3> QED
      BY <2>1, <3>1
  <2>5. CASE Relay(d)
    <3>1. CASE Ends(d, "ended")
      <4>1. client'[d].at = "ended" /\ (c # d => client'[c] = client[c] /\ inbox'[c] = inbox[c])
        BY <3>1, EndsClient
      <4> QED
        BY <2>1, <4>1
    <3>2. CASE ~Ends(d, "ended")
      <4>1. client' = client /\ client[d].at = "stream" /\ inbox' = [inbox EXCEPT ![d] = Tail(@)]
        BY <2>5, <3>2 DEF Relay
      <4>2. c # d => inbox'[c] = inbox[c]
        BY <1>t, <4>1
      <4> QED
        BY <2>1, <4>1, <4>2
    <3> QED
      BY <3>1, <3>2
  <2>6. CASE Take(d)
    <3> DEFINE says == IF inbox[d] = Lagged THEN "gone" ELSE Verdict(client[d], Head(inbox[d]))
    <3>0. /\ client[d].at = "wait" /\ inbox[d] # <<>>
          /\ IF says = "wait" THEN inbox' = [inbox EXCEPT ![d] = Tail(@)] /\ UNCHANGED client
             ELSE Ends(d, says)
          /\ doubt' = IF inbox[d] = Lagged THEN doubt \cup {d} ELSE doubt
      BY <2>6 DEF Take
    <3>1. says \in {"reply", "refused", "gone", "wait"}
      BY DEF Verdict
    <3>2. says = "gone" /\ inbox[d] # Lagged
            => Head(inbox[d]).is = "unreachable" /\ Head(inbox[d]).peer = client[d].peer
      BY VerdictGone
    <3>3. says = "wait" => inbox[d] # Lagged
      OBVIOUS
    <3> HIDE DEF says
    <3>4. inbox[d] # Lagged => inbox[d] \in Seq(Events)
      BY <1>t DEF Inbox
    <3>5. CASE says = "wait"
      <4>1. inbox'[d] = Tail(inbox[d]) /\ (c # d => inbox'[c] = inbox[c])
        BY <1>t, <3>0, <3>5
      <4>2. \A x : Mourns(Tail(inbox[d]), x) => Mourns(inbox[d], x)
        BY <3>0, <3>3, <3>4, <3>5, TailOf
      <4>3. Mourns(inbox'[c], p) => Mourns(inbox[c], p)
        BY <4>1, <4>2
      <4> QED
        BY <1>q, <2>0, <3>0, <3>5, <4>3
    <3>6. CASE says # "wait"
      <4>1. client'[d].at = says /\ (c # d => client'[c] = client[c] /\ inbox'[c] = inbox[c])
        BY <3>0, <3>1, <3>6, EndsClient
      <4>2. CASE c = d /\ says = "gone" /\ inbox[d] # Lagged
        <5>1. Mourns(inbox[c], p)
          BY <3>0, <3>2, <3>4, <4>2, TailOf
        <5> QED
          BY <1>i, <2>0, <3>0, <4>1, <4>2, <5>1
      <4>3. CASE c = d /\ says = "gone" /\ inbox[d] = Lagged
        BY <3>0, <4>1, <4>3
      <4>4. CASE c = d /\ says # "gone"
        BY <3>6, <4>1, <4>4
      <4> QED
        BY <2>1, <4>1, <4>2, <4>3, <4>4
    <3> QED
      BY <3>5, <3>6
  <2>7. CASE Timeout(d)
    <3>1. client'[d].at = "timeout" /\ (c # d => client'[c] = client[c] /\ inbox'[c] = inbox[c])
      BY <2>7, EndsClient DEF Timeout
    <3> QED
      BY <2>1, <3>1
  <2>8. CASE \E accept \in BOOLEAN : Answer(d, accept)
    BY <2>1, <2>8 DEF Answer
  <2> QED
    BY <1>5, <2>2, <2>3, <2>4, <2>5, <2>6, <2>7, <2>8 DEF ClientStep
<1> QED
  BY <1>1, <1>2, <1>3, <1>4, <1>5, NextCases DEF ScreenStep

-----------------------------------------------------------------------------
(* All of it together. *)

ControlInv == Shape /\ ScreenInv /\ PairInv /\ WaitInv

LEMMA InitControl == Init => ControlInv
  BY InitShape, InitScreen, InitPair, InitWait DEF ControlInv

LEMMA StepControl == ControlInv /\ [Next]_vars => ControlInv'
<1> SUFFICES ASSUME ControlInv, [Next]_vars PROVE ControlInv'
  OBVIOUS
<1>0. Shape /\ ScreenInv /\ PairInv /\ WaitInv
  BY DEF ControlInv
<1>1. Shape'
  BY <1>0, StepShape
<1>2. CASE Next
  BY <1>0, <1>1, <1>2, ScreenKept, PairKept, WaitKept DEF ControlInv
<1>3. CASE UNCHANGED vars
  <2>0. UNCHANGED <<core, ui, pending, screen, client, inbox, history>>
    BY <1>3 DEF vars
  <2>1. ScreenInv'
    BY <1>0, <2>0 DEF ScreenInv, Current, core, screen, history
  <2>2. PairInv'
    BY <1>0, <2>0 DEF PairInv, Reaches, core, screen, history
  <2>3. WaitInv'
    BY <1>0, <2>0 DEF WaitInv, core, history
  <2> QED
    BY <1>1, <2>1, <2>2, <2>3 DEF ControlInv
<1> QED
  BY <1>2, <1>3

(* However answers, lapses, new questions and a slow desktop interleave, once *)
(* the task has shown everything the buttons on the screen are those of the  *)
(* question the core awaits, or of one on_link_down dropped without a word.  *)
THEOREM ScreenIsTrue == Spec => []OnScreenIsAwaited
<1>1. ControlInv => OnScreenIsAwaited
  BY Nothing DEF ControlInv, ScreenInv, Current, OnScreenIsAwaited
<1> QED
  BY <1>1, InitControl, StepControl, PTL DEF Spec

(* Between the subscription, the snapshot and the broadcast no client of     *)
(* `acryliusctl pair` falls through: when nothing is on its way any more, it *)
(* has been sent the question that waits.                                   *)
THEOREM PairIsHeard == Spec => []NobodyMissesIt
<1>1. ControlInv => NobodyMissesIt
  <2> SUFFICES ASSUME ControlInv, NEW c \in Clients, client[c].is = "pair",
                      client[c].at = "stream", inbox[c] = <<>>, ui = <<>>, showing = 0,
                      slot.is = "awaiting", c \notin behind
               PROVE  slot.question \in seen[c]
    BY DEF NobodyMissesIt
  <2>1. Reaches(c, slot.question)
    BY DEF ControlInv, PairInv
  <2>2. slot.question # 0
    BY SlotsTyped DEF ControlInv, Shape, CoreTyped
  <2>3. ~Asks(<<>>, slot.question) /\ Lagged # <<>>
    BY Nothing, LaggedSays
  <2> QED
    BY <2>1, <2>2, <2>3 DEF Reaches
<1> QED
  BY <1>1, InitControl, StepControl, PTL DEF Spec

(* A request that waits is answered "unreachable" only if its peer was not   *)
(* there at some moment since, or news was under way when it asked, or its   *)
(* receiver fell behind.                                                   *)
THEOREM GoneWasGone == Spec => []GoneIsTrue
<1>1. ControlInv => GoneIsTrue
  BY DEF ControlInv, WaitInv, GoneIsTrue
<1> QED
  BY <1>1, InitControl, StepControl, PTL DEF Spec
=============================================================================
