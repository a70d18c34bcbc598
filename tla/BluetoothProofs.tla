-------------------------- MODULE BluetoothProofs ---------------------------
(***************************************************************************)
(* Proofs about Bluetooth and Fragments for every number of phones, every   *)
(* list of messages, every size of a fragment and every bound: what the     *)
(* core is told of each link, and what is put together from fragments.      *)
(***************************************************************************)
EXTENDS Bluetooth, SequenceTheorems, TLAPS

USE BluetoothAssumption

-----------------------------------------------------------------------------
(* Fragments. *)

\* A byte of a message phones send.
Byte == Nat \X Nat
Frags == [start : BOOLEAN, more : BOOLEAN, body : Seq(Byte)]

(* A fragment carries at least one byte, and the fragments of a message but  *)
(* the last are full.                                                      *)
LEMMA PiecesFit ==
  ASSUME NEW len \in Nat, NEW size \in Nat
  PROVE  /\ Payload(size) \in Nat \ {0}
         /\ Pieces(len, size) \in Nat \ {0}
         /\ \A j \in Nat : j < Pieces(len, size) => j * Payload(size) \in Nat /\ j * Payload(size) <= len
         /\ \A j \in Nat \ {0} : j < Pieces(len, size) => j * Payload(size) < len
<1> DEFINE p == Payload(size)
           n == Pieces(len, size)
<1>1. p \in Nat \ {0}
  BY DEF Payload, Header
<1> HIDE DEF p
<1>2. CASE len = 0
  <2>1. n = 1
    BY <1>2 DEF Pieces
  <2> QED
    BY <1>1, <1>2, <2>1 DEF p
<1>3. CASE len # 0
  <2> DEFINE a == len + p - 1
  <2>1. n = a \div p /\ a \in Nat /\ a >= p
    BY <1>1, <1>3 DEF Pieces, p
  <2>2. n \in Nat /\ n # 0 /\ n * p <= a
    <3> HIDE DEF a, n
    <3>1. n \in Nat
      BY <1>1, <2>1
    <3>2. n > 0
      BY <1>1, <2>1
    <3>3. n * p <= a
      BY <1>1, <2>1
    <3> QED
      BY <3>1, <3>2, <3>3
  <2> HIDE DEF n, a
  <2>3. ASSUME NEW j \in Nat, j < n PROVE j * p \in Nat /\ j * p < len
    <3>1. (j + 1) * p <= n * p
      BY <1>1, <2>2, <2>3, Z3
    <3>2. (j + 1) * p = j * p + p /\ j * p \in Nat
      BY <1>1, Z3
    <3>3. n * p \in Nat
      BY <1>1, <2>2, Z3
    <3> QED
      BY <1>1, <2>1, <2>2, <3>1, <3>2, <3>3 DEF a
  <2> QED
    BY <1>1, <2>2, <2>3 DEF p, n
<1> QED
  BY <1>2, <1>3

(* A function on 1 .. n is a sequence of length n.                          *)
LEMMA FunctionIsSeq ==
  ASSUME NEW S, NEW n \in Nat, NEW f \in [1 .. n -> S]
  PROVE  f \in Seq(S) /\ Len(f) = n
<1>1. f \in Seq(S)
  OBVIOUS
<1>2. DOMAIN f = 1 .. Len(f) /\ Len(f) \in Nat
  BY <1>1
<1> QED
  BY <1>1, <1>2

(* What a message and its fragments are.                                   *)
LEMMA MessageForm ==
  ASSUME NEW m \in 1 .. Len(Lengths)
  PROVE  /\ Message(m) \in Seq(Byte) /\ Len(Message(m)) \in Nat
         /\ Len(Message(m)) = Lengths[m]
         /\ \A i \in 1 .. Len(Message(m)) : Message(m)[i] = <<m, i>>
<1>1. Lengths[m] \in Nat /\ m \in Nat
  OBVIOUS
<1>2. Message(m) \in [1 .. Lengths[m] -> Byte]
  BY <1>1 DEF Message, Byte
<1>3. Message(m) \in Seq(Byte) /\ Len(Message(m)) = Lengths[m]
  BY <1>1, <1>2, FunctionIsSeq
<1> QED
  BY <1>1, <1>3 DEF Message

\* The fragments of message m, and where the j-th of them ends in it.
Cut(m) == Fragment(Message(m), FragmentSize)
Count(m) == Pieces(Lengths[m], FragmentSize)
Upto(m, j) == IF j = Count(m) THEN Lengths[m] ELSE j * Payload(FragmentSize)
Prefix(m, j) == SubSeq(Message(m), 1, j * Payload(FragmentSize))

(* What `fragment` makes of a message.                                      *)
LEMMA CutForm ==
  ASSUME NEW m \in 1 .. Len(Lengths)
  PROVE  /\ Count(m) \in Nat \ {0} /\ Cut(m) \in Seq(Frags) /\ Len(Cut(m)) = Count(m)
         /\ \A j \in 1 .. Count(m) :
              /\ Cut(m)[j].start = (j = 1) /\ Cut(m)[j].more = (j < Count(m))
              /\ Cut(m)[j].body = SubSeq(Message(m), (j - 1) * Payload(FragmentSize) + 1, Upto(m, j))
              /\ (j - 1) * Payload(FragmentSize) \in Nat /\ Upto(m, j) \in Nat
              /\ (j - 1) * Payload(FragmentSize) <= Upto(m, j) /\ Upto(m, j) <= Lengths[m]
<1> DEFINE p == Payload(FragmentSize)
           n == Count(m)
           cut(j) == [start |-> j = 1, more |-> j < n,
                      body |-> SubSeq(Message(m), (j - 1) * p + 1, Upto(m, j))]
<1>1. Lengths[m] \in Nat /\ FragmentSize \in Nat
  OBVIOUS
<1>2. /\ p \in Nat \ {0} /\ n \in Nat \ {0}
      /\ \A j \in Nat : j < n => j * p \in Nat /\ j * p <= Lengths[m]
  BY <1>1, PiecesFit DEF Count
<1>3. Message(m) \in Seq(Byte) /\ Len(Message(m)) = Lengths[m]
  BY MessageForm
<1> HIDE DEF p, n
<1>4. ASSUME NEW j \in 1 .. n
      PROVE  /\ (j - 1) * p \in Nat /\ Upto(m, j) \in Nat
             /\ (j - 1) * p <= Upto(m, j) /\ Upto(m, j) <= Lengths[m]
  <2>1. j - 1 \in Nat /\ j - 1 < n /\ j \in Nat /\ (j # n => j < n)
    BY <1>2
  <2>2. (j - 1) * p \in Nat /\ (j - 1) * p <= Lengths[m]
    BY <1>2, <2>1
  <2>3. CASE j = n
    BY <1>1, <2>2, <2>3 DEF Upto, n
  <2>4. CASE j # n
    <3>1. Upto(m, j) = j * p /\ j * p \in Nat /\ j * p <= Lengths[m]
      BY <1>2, <2>1, <2>4 DEF Upto, n, p
    <3>2. (j - 1) * p <= j * p
      BY <1>2, <2>1, Z3
    <3> QED
      BY <2>2, <3>1, <3>2
  <2> QED
    BY <2>3, <2>4
<1>5. Cut(m) = [j \in 1 .. n |-> cut(j)]
  BY <1>3 DEF Cut, Fragment, Upto, Count, p, n
<1>6. ASSUME NEW j \in 1 .. n PROVE cut(j).body \in Seq(Byte)
  <2> DEFINE a == (j - 1) * p + 1
             b == Upto(m, j)
  <2>1. a \in Nat /\ a >= 1 /\ b \in Nat /\ b <= Lengths[m]
    BY <1>4
  <2> HIDE DEF a, b
  <2>2. \A i \in a .. b : Message(m)[i] \in Byte
    BY <1>1, <1>3, <2>1, SMTT(30)
  <2>3. SubSeq(Message(m), a, b) \in Seq(Byte)
    BY <2>1, <2>2, SubSeqProperties
  <2> QED
    BY <2>3 DEF a, b
<1>7. ASSUME NEW j \in 1 .. n PROVE cut(j) \in Frags
  BY <1>6, <1>7 DEF Frags
<1> HIDE DEF cut
<1>8. Cut(m) \in [1 .. n -> Frags]
  BY <1>5, <1>7
<1>9. Cut(m) \in Seq(Frags) /\ Len(Cut(m)) = n
  BY <1>2, <1>8, FunctionIsSeq
<1> QED
  BY <1>2, <1>4, <1>5, <1>9 DEF cut, p, n

(* Only the last fragment of a message says that nothing follows.           *)
LEMMA LastOfCut ==
  ASSUME NEW m \in 1 .. Len(Lengths), NEW j \in 1 .. Count(m)
  PROVE  Count(m) \in Nat /\ Cut(m)[j].more = (j < Count(m))
<1>1. /\ Count(m) \in Nat \ {0}
      /\ \A q \in 1 .. Count(m) : Cut(m)[q].more = (q < Count(m))
  BY CutForm
<1> QED
  BY <1>1

(* A prefix of the message and the next fragment make the next prefix, and   *)
(* with the last fragment the message is whole.                            *)
LEMMA CutGrows ==
  ASSUME NEW m \in 1 .. Len(Lengths), NEW j \in 1 .. Count(m)
  PROVE  Prefix(m, j - 1) \o Cut(m)[j].body =
           IF j = Count(m) THEN Message(m) ELSE Prefix(m, j)
<1> DEFINE a == (j - 1) * Payload(FragmentSize)
           b == Upto(m, j)
<1>1. /\ Cut(m)[j].body = SubSeq(Message(m), a + 1, b)
      /\ a \in Nat /\ b \in Nat /\ a <= b /\ b <= Lengths[m]
  BY CutForm
<1>2. /\ Message(m) \in Seq(Byte) /\ Len(Message(m)) = Lengths[m] /\ Lengths[m] \in Nat
  BY MessageForm
<1>3. SubSeq(Message(m), 1, a) \o SubSeq(Message(m), a + 1, b) = SubSeq(Message(m), 1, b)
  <2> HIDE DEF a, b
  <2> DEFINE t == Message(m)
  <2>1. t \in Seq(Byte) /\ 1 \in 1 .. Len(t) + 1 /\ a \in 1 - 1 .. Len(t) /\ b \in a .. Len(t)
    BY <1>1, <1>2, SMTT(30)
  <2> HIDE DEF t
  <2>2. SubSeq(t, 1, a) \o SubSeq(t, a + 1, b) = SubSeq(t, 1, b)
    BY <2>1, ConcatAdjacentSubSeq
  <2> QED
    BY <2>2 DEF t
<1>4. Prefix(m, j - 1) = SubSeq(Message(m), 1, a)
  BY DEF Prefix
<1>5. b = Lengths[m] => SubSeq(Message(m), 1, b) = Message(m)
  BY <1>2, SubSeqFull
<1> QED
  BY <1>1, <1>3, <1>4, <1>5 DEF Upto, Prefix

(* The place after the first a, if there is another.                       *)
LEMMA Within ==
  ASSUME NEW a \in Nat, NEW b \in Nat, NEW c \in Nat, a + 1 <= b, b <= c
  PROVE  a + 1 \in 1 .. c
OBVIOUS

(* A fragment that is not its message's last says which one it is.          *)
LEMMA CutInjective ==
  ASSUME NEW m \in 1 .. Len(Lengths), NEW j \in 1 .. Count(m),
         NEW k \in 1 .. Len(Lengths), NEW i \in 1 .. Count(k),
         Cut(m)[j] = Cut(k)[i], Cut(m)[j].more
  PROVE  m = k /\ j = i
<1> DEFINE p == Payload(FragmentSize)
<1>1. p \in Nat \ {0} /\ FragmentSize \in Nat
  BY PiecesFit
<1> HIDE DEF p
<1>2. ASSUME NEW n \in 1 .. Len(Lengths), NEW h \in 1 .. Count(n), Cut(n)[h].more
      PROVE  Cut(n)[h].body[1] = <<n, (h - 1) * p + 1>>
  <2>1. /\ Count(n) \in Nat /\ h < Count(n)
        /\ Cut(n)[h].body = SubSeq(Message(n), (h - 1) * p + 1, h * p)
        /\ (h - 1) * p \in Nat /\ h * p \in Nat /\ h * p <= Lengths[n]
    <3>1. /\ Count(n) \in Nat /\ h < Count(n)
          /\ Cut(n)[h].body = SubSeq(Message(n), (h - 1) * p + 1, Upto(n, h))
          /\ (h - 1) * p \in Nat /\ Upto(n, h) \in Nat /\ Upto(n, h) <= Lengths[n]
      BY <1>2, CutForm DEF p
    <3>2. Upto(n, h) = h * p
      BY <3>1 DEF Upto, p
    <3> QED
      BY <3>1, <3>2
  <2>2. (h - 1) * p + 1 <= h * p
    <3>1. h * p = (h - 1) * p + p
      BY <1>1, <2>1, Z3
    <3> QED
      BY <1>1, <2>1, <3>1
  <2>3. /\ Message(n) \in Seq(Byte) /\ Len(Message(n)) = Lengths[n] /\ Lengths[n] \in Nat
        /\ \A x \in 1 .. Lengths[n] : Message(n)[x] = <<n, x>>
    BY MessageForm
  <2> DEFINE a == (h - 1) * p
             b == h * p
  <2>4. a \in Nat /\ b \in Nat /\ a + 1 <= b /\ b <= Lengths[n]
    BY <2>1, <2>2
  <2> HIDE DEF a, b
  <2>5. SubSeq(Message(n), a + 1, b)[1] = Message(n)[a + 1]
    BY <2>3, <2>4
  <2> QED
    <3>1. Cut(n)[h].body = SubSeq(Message(n), a + 1, b)
      BY <2>1 DEF a, b
    <3>2. Message(n)[a + 1] = <<n, a + 1>>
      <4>1. a + 1 \in 1 .. Lengths[n]
        BY <2>3, <2>4, Within
      <4> DEFINE x == a + 1
      <4> HIDE DEF x
      <4>2. Message(n)[x] = <<n, x>>
        BY <2>3, <4>1 DEF x
      <4> QED
        BY <4>2 DEF x
    <3>3. Cut(n)[h].body[1] = <<n, a + 1>>
      BY <2>5, <3>1, <3>2
    <3> QED
      BY <3>3 DEF a
<1>3. m = k /\ (j - 1) * p + 1 = (i - 1) * p + 1
  <2>1. Cut(m)[j].body[1] = <<m, (j - 1) * p + 1>>
    BY <1>2
  <2>2. Cut(k)[i].body[1] = <<k, (i - 1) * p + 1>>
    BY <1>2
  <2> QED
    BY <2>1, <2>2
<1>4. j \in Nat /\ i \in Nat
  BY CutForm
<1>5. (j - 1) * p = (i - 1) * p
  <2> DEFINE a == (j - 1) * p
             b == (i - 1) * p
  <2>1. a \in Int /\ b \in Int
    BY <1>1, <1>4
  <2> HIDE DEF a, b
  <2>2. a + 1 = b + 1
    BY <1>3 DEF a, b
  <2>3. a = b
    BY <2>1, <2>2
  <2> QED
    BY <2>3 DEF a, b
<1>6. j = i
  BY <1>1, <1>4, <1>5, Z3
<1> QED
  BY <1>3, <1>6

-----------------------------------------------------------------------------
(* What the transport keeps, and what the core is told. *)

(* Why CoreAgrees holds.  A link is retired under the number it is held      *)
(* by, so what is told of it must not have ended: the numbers handed out,    *)
(* the record kept for each and the link held have to fit each other, and a  *)
(* task that retires a link must name a device.                            *)

Writing == [at : {"called", "again"}, dev : Centrals, frag : Frags]
Tellings == [is : {"up", "down", "recv"}, msg : Seq(Byte)]
Assemblers == [open : BOOLEAN, buf : Seq(Byte)]
Links == [id : Nat, device : Centrals \cup {NoOne}, asm : Assemblers]

Radio ==
  /\ present \subseteq Centrals /\ found \subseteq present
  /\ onAir \in BOOLEAN /\ registered \in BOOLEAN /\ app \in BOOLEAN
  /\ wanted \in BOOLEAN /\ cooling \in BOOLEAN
  /\ last \in Centrals \cup {NoOne}
  /\ signals \in [Watchers -> SUBSET Centrals]
  /\ subscriber \in {"called", "done"}

Tasks ==
  /\ task \in [Runners -> Steps]
  /\ \A r \in Runners : task[r].at = "drop" => task[r].dev \in Centrals

Counted ==
  /\ connects \in 0 .. MaxConnects /\ overtakes \in 0 .. MaxOvertakes
  /\ faults \in 0 .. MaxFaults

Queue ==
  /\ writes \in Seq(Writing) /\ Len(writes) <= MaxInFlight
  /\ sent \in 0 .. Len(Lengths)

\* What is told of one link, and the record of all of them.
Log(u) ==
  /\ \A k \in 1 .. Len(u) : u[k].is = "up" <=> k = 1
  /\ \A k \in 1 .. Len(u) : u[k].is = "down" => k = Len(u)
Ended(u) == u[Len(u)].is = "down"
Fits(l, log, next) ==
  /\ next \in Nat \ {0} /\ l \in Links /\ l.id < next
  /\ l.id = 0 => l = NoLink
  /\ l.id # 0 => l.device \in Centrals
  /\ log \in Seq(Seq(Tellings)) /\ Len(log) = next - 1
  /\ \A n \in 1 .. Len(log) : log[n] # <<>> /\ Log(log[n]) /\ (l.id = n <=> ~Ended(log[n]))

TransportInv == Radio /\ Tasks /\ Counted /\ Queue /\ Fits(link, told, nextLink)

(* The record that fits the link is the one the core is to have.            *)
LEMMA FitsAgrees == Fits(link, told, nextLink) => CoreAgrees
<1> SUFFICES ASSUME Fits(link, told, nextLink), NEW n \in DOMAIN told
             PROVE  /\ \A k \in DOMAIN told[n] : told[n][k].is = "up" <=> k = 1
                    /\ \A k \in DOMAIN told[n] : told[n][k].is = "down" => k = Len(told[n])
                    /\ link.id = n <=> told[n][Len(told[n])].is # "down"
  BY DEF CoreAgrees
<1>1. n \in 1 .. Len(told) /\ told[n] \in Seq(Tellings)
  BY DEF Fits
<1>2. DOMAIN told[n] = 1 .. Len(told[n])
  BY <1>1
<1> QED
  BY <1>1, <1>2, SMTT(30) DEF Fits, Log, Ended

(* What the invariant says contains the type invariant.                     *)
LEMMA TypesHold == TransportInv => TypeOK
<1> SUFFICES ASSUME TransportInv PROVE TypeOK
  OBVIOUS
<1> USE DEF TransportInv
<1>1. {onAir, registered, app, wanted, cooling} \subseteq BOOLEAN
  BY Zenon DEF Radio
<1>2. link.device \in Centrals \cup {NoOne} /\ link.id < nextLink /\ (link.id = 0) = (link = NoLink)
  BY DEF Fits, Links, NoLink
<1>3. DOMAIN told = 1 .. nextLink - 1
  BY DEF Fits
<1>4. Len(writes) <= MaxInFlight /\ sent <= Len(Lengths) /\ connects <= MaxConnects
      /\ overtakes <= MaxOvertakes /\ faults <= MaxFaults
  BY DEF Queue, Counted
<1> QED
  BY <1>1, <1>2, <1>3, <1>4 DEF TypeOK, Radio, Tasks

(* The forms of a task, of a link and of what is told.                      *)
LEMMA Forms ==
  /\ Idle \in Steps /\ Idle.at = "idle"
  /\ \A dev \in Centrals \cup {NoOne}, held \in BOOLEAN, forget \in BOOLEAN,
        at \in {"idle", "ask", "drop", "check", "sleep", "forget"} :
       LET s == Step(at, dev, held, forget) IN s \in Steps /\ s.at = at /\ s.dev = dev
  /\ NoLink \in Links /\ NoLink.id = 0 /\ NoLink.asm = Closed
  /\ Closed \in Assemblers /\ ~Closed.open /\ Closed.buf = <<>>
  /\ Down \in Tellings /\ Down.is = "down" /\ Said("up", <<>>) \in Tellings
  /\ \A msg \in Seq(Byte) : Said("recv", msg) \in Tellings /\ Said("recv", msg).is = "recv"
                            /\ Said("recv", msg).msg = msg
<1>1. \A dev \in Centrals \cup {NoOne}, held \in BOOLEAN, forget \in BOOLEAN,
         at \in {"idle", "ask", "drop", "check", "sleep", "forget"} :
        LET s == Step(at, dev, held, forget) IN s \in Steps /\ s.at = at /\ s.dev = dev
  BY DEF Step, Steps
<1>2. Idle \in Steps /\ Idle.at = "idle"
  BY DEF Idle, Step, Steps
<1>3. Closed \in Assemblers /\ ~Closed.open /\ Closed.buf = <<>>
  BY DEF Closed, Assemblers
<1>4. NoLink \in Links /\ NoLink.id = 0 /\ NoLink.asm = Closed
  BY <1>3 DEF NoLink, Links
<1>5. /\ Down \in Tellings /\ Down.is = "down" /\ Said("up", <<>>) \in Tellings
      /\ \A msg \in Seq(Byte) : Said("recv", msg) \in Tellings /\ Said("recv", msg).is = "recv"
                                /\ Said("recv", msg).msg = msg
  BY DEF Down, Said, Tellings
<1> QED
  BY <1>1, <1>2, <1>3, <1>4, <1>5

(* The initial state satisfies the invariant.                              *)
LEMMA InitTransport == Init => TransportInv
<1> SUFFICES ASSUME Init PROVE TransportInv
  OBVIOUS
<1>1. Radio
  BY DEF Init, Radio
<1>2. Tasks
  BY Forms DEF Init, Tasks
<1>3. Counted /\ Queue
  BY DEF Init, Counted, Queue
<1>4. Fits(link, told, nextLink)
  BY Forms DEF Init, Fits
<1> QED
  BY <1>1, <1>2, <1>3, <1>4 DEF TransportInv

(* The bounds are numbers.                                                 *)
LEMMA BoundsAreNat ==
  /\ MaxConnects \in Nat /\ MaxOvertakes \in Nat /\ MaxFaults \in Nat /\ MaxInFlight \in Nat
  /\ MaxMessage \in Nat /\ FragmentSize \in Nat /\ Len(Lengths) \in Nat
OBVIOUS

(* A task whose entry becomes a task that does not retire a link, or one     *)
(* that names the device, keeps the table.                                  *)
LEMMA TaskSet ==
  ASSUME Tasks, NEW r, NEW s \in Steps, s.at = "drop" => s.dev \in Centrals,
         task' = [task EXCEPT ![r] = s]
  PROVE  Tasks'
BY DEF Tasks

(* The steps of phones, of bluetoothd and of the watching tasks leave the    *)
(* link and what was told of it alone.                                      *)
LEMMA AroundKeeps ==
  ASSUME TransportInv,
         \/ \E c \in Centrals : Connect(c) \/ Depart(c) \/ ReadValue(c)
         \/ Restart \/ (\E w \in Watchers : Release(w)) \/ Advertise(TRUE) \/ Advertise(FALSE)
         \/ \E w \in Watchers, c \in Centrals : Signal(w, c)
         \/ Supervise \/ Decide \/ Forget \/ CoolDown
         \/ \E r \in Runners : Check(r) \/ Registered(r) \/ RegisterFailed(r)
  PROVE  TransportInv' /\ UNCHANGED <<core, writes, sent, overtakes>>
<1>0. Radio /\ Tasks /\ Counted /\ Queue /\ Fits(link, told, nextLink)
  BY DEF TransportInv
<1>1. ASSUME UNCHANGED <<core, writes, sent, overtakes>>, Radio', Tasks', Counted'
      PROVE  TransportInv'
  BY <1>0, <1>1 DEF TransportInv, core, Queue
<1> USE DEF radio, advert, counts
<1>2. ASSUME NEW c \in Centrals, Connect(c)
      PROVE  Radio' /\ Tasks' /\ Counted' /\ UNCHANGED <<core, writes, sent, overtakes>>
  <2>1. Radio' /\ Tasks'
    BY <1>0, <1>2 DEF Connect, Radio, Tasks
  <2> QED
    BY <1>0, <1>2, <2>1, BoundsAreNat DEF Connect, Counted
<1>3. ASSUME NEW c \in Centrals, Depart(c)
      PROVE  Radio' /\ Tasks' /\ Counted' /\ UNCHANGED <<core, writes, sent, overtakes>>
  BY <1>0, <1>3 DEF Depart, Radio, Tasks, Counted
<1>4. ASSUME NEW c \in Centrals, ReadValue(c)
      PROVE  Radio' /\ Tasks' /\ Counted' /\ UNCHANGED <<core, writes, sent, overtakes>>
  BY <1>0, <1>4 DEF ReadValue, Radio, Tasks, Counted
<1>5. ASSUME Restart
      PROVE  Radio' /\ Tasks' /\ Counted' /\ UNCHANGED <<core, writes, sent, overtakes>>
  <2>1. Radio' /\ Tasks'
    BY <1>0, <1>5 DEF Restart, Radio, Tasks
  <2> QED
    BY <1>0, <1>5, <2>1, BoundsAreNat DEF Restart, Counted
<1>6. ASSUME NEW w \in Watchers, Release(w)
      PROVE  Radio' /\ Tasks' /\ Counted' /\ UNCHANGED <<core, writes, sent, overtakes>>
  <2>1. Tasks'
    <3> DEFINE s == Step("check", NoOne, FALSE, FALSE)
    <3>1. s \in Steps /\ s.at = "check"
      BY DEF Step, Steps
    <3>2. task' = [task EXCEPT ![w] = s]
      BY <1>6 DEF Release
    <3> HIDE DEF s
    <3> QED
      BY <1>0, <3>1, <3>2, TaskSet
  <2>2. Radio'
    BY <1>0, <1>6 DEF Release, Radio
  <2> QED
    BY <1>0, <1>6, <2>1, <2>2, BoundsAreNat DEF Release, Counted
<1>7. ASSUME NEW ok \in BOOLEAN, Advertise(ok)
      PROVE  Radio' /\ Tasks' /\ Counted' /\ UNCHANGED <<core, writes, sent, overtakes>>
  <2>1. Radio' /\ Tasks'
    BY <1>0, <1>7 DEF Advertise, Radio, Tasks
  <2>2. faults' \in 0 .. MaxFaults
    BY <1>0, <1>7, BoundsAreNat DEF Advertise, Counted
  <2> QED
    BY <1>0, <1>7, <2>1, <2>2 DEF Advertise, Counted
<1>8. ASSUME NEW w \in Watchers, NEW c \in Centrals, Signal(w, c)
      PROVE  Radio' /\ Tasks' /\ Counted' /\ UNCHANGED <<core, writes, sent, overtakes>>
  <2>1. Tasks'
    <3>1. CASE IsOurs(c)
      <4> DEFINE s == Step("drop", c, FALSE, FALSE)
      <4>1. s \in Steps /\ s.dev = c
        BY Forms
      <4>2. task' = [task EXCEPT ![w] = s]
        BY <1>8, <3>1 DEF Signal
      <4> HIDE DEF s
      <4> QED
        BY <1>0, <4>1, <4>2, TaskSet
    <3>2. CASE ~IsOurs(c)
      BY <1>0, <1>8, <3>2 DEF Signal, Tasks
    <3> QED
      BY <3>1, <3>2
  <2> QED
    BY <1>0, <1>8, <2>1 DEF Signal, Radio, Counted
<1>9. ASSUME Supervise
      PROVE  Radio' /\ Tasks' /\ Counted' /\ UNCHANGED <<core, writes, sent, overtakes>>
  <2>1. Watching \in Centrals \cup {NoOne}
    BY <1>0 DEF Watching, Fits, Links, Radio
  <2>2. Step("ask", Watching, link # NoLink, FALSE) \in Steps
        /\ Step("ask", Watching, link # NoLink, FALSE).at = "ask"
    BY <2>1, Forms
  <2>3. Tasks'
    BY <1>0, <1>9, <2>2, TaskSet DEF Supervise
  <2> QED
    BY <1>0, <1>9, <2>3 DEF Supervise, Radio, Counted
<1>10. ASSUME Decide
       PROVE  Radio' /\ Tasks' /\ Counted' /\ UNCHANGED <<core, writes, sent, overtakes>>
  <2> DEFINE t == task["supervise"]
             then == CASE Reconcile(t.dev) = "Nothing" -> Idle
                       [] Reconcile(t.dev) = "Readvertise" -> Step("check", NoOne, FALSE, FALSE)
                       [] OTHER -> IF t.held THEN Step("drop", t.dev, FALSE, TRUE)
                                   ELSE Step("check", NoOne, FALSE, TRUE)
  <2>1. t \in Steps
    BY <1>0 DEF Tasks, Runners
  <2>2. t.dev \in Centrals \cup {NoOne} /\ t.held \in BOOLEAN
    BY <2>1 DEF Steps
  <2>3. Reconcile(t.dev) \in {"Nothing", "Readvertise"} \/ t.dev # NoOne
    BY DEF Reconcile
  <2> HIDE DEF t
  <2>4. then \in Steps /\ (then.at = "drop" => then.dev \in Centrals)
    BY <2>2, <2>3, Forms
  <2>5. Tasks'
    <3>1. task' = [task EXCEPT !["supervise"] = then]
      BY <1>10 DEF Decide, t
    <3> HIDE DEF then
    <3> QED
      BY <1>0, <2>4, <3>1, TaskSet
  <2> QED
    BY <1>0, <1>10, <2>5 DEF Decide, Radio, Counted
<1>11. ASSUME Forget
       PROVE  Radio' /\ Tasks' /\ Counted' /\ UNCHANGED <<core, writes, sent, overtakes>>
  <2>1. Tasks'
    BY <1>0, <1>11, Forms, TaskSet DEF Forget
  <2> QED
    BY <1>0, <1>11, <2>1 DEF Forget, Radio, Counted
<1>12. ASSUME CoolDown
       PROVE  Radio' /\ Tasks' /\ Counted' /\ UNCHANGED <<core, writes, sent, overtakes>>
  BY <1>0, <1>12 DEF CoolDown, Radio, Tasks, Counted
<1>13. ASSUME NEW r \in Runners, Check(r)
       PROVE  Radio' /\ Tasks' /\ Counted' /\ UNCHANGED <<core, writes, sent, overtakes>>
  <2>1. Tasks'
    <3>1. CASE task' = [task EXCEPT ![r] = Idle]
      BY <1>0, <3>1, Forms, TaskSet
    <3>2. CASE task' = [task EXCEPT ![r].at = "sleep"]
      BY <1>0, <3>2 DEF Tasks, Steps
    <3> QED
      BY <1>13, <3>1, <3>2 DEF Check
  <2>2. cooling' \in BOOLEAN /\ app' \in BOOLEAN
    BY <1>0, <1>13 DEF Check, Radio
  <2> QED
    BY <1>0, <1>13, <2>1, <2>2 DEF Check, Radio, Counted
<1>14. ASSUME NEW r \in Runners, Registered(r)
       PROVE  Radio' /\ Tasks' /\ Counted' /\ UNCHANGED <<core, writes, sent, overtakes>>
  <2>1. Tasks'
    <3> DEFINE s == IF task[r].forget THEN [task[r] EXCEPT !.at = "forget"] ELSE Idle
    <3>1. s \in Steps /\ s.at # "drop"
      BY <1>0, Forms DEF Tasks, Steps
    <3>2. task' = [task EXCEPT ![r] = s]
      BY <1>0, <1>14 DEF Registered, Tasks
    <3> HIDE DEF s
    <3> QED
      BY <1>0, <3>1, <3>2, TaskSet
  <2> QED
    BY <1>0, <1>14, <2>1 DEF Registered, Radio, Counted
<1>15. ASSUME NEW r \in Runners, RegisterFailed(r)
       PROVE  Radio' /\ Tasks' /\ Counted' /\ UNCHANGED <<core, writes, sent, overtakes>>
  <2>1. Tasks'
    BY <1>0, <1>15, Forms, TaskSet DEF RegisterFailed
  <2> QED
    <3>1. Radio'
      BY <1>0, <1>15 DEF RegisterFailed, Radio
    <3> QED
      BY <1>0, <1>15, <2>1, <3>1, BoundsAreNat DEF RegisterFailed, Counted
<1> QED
  BY <1>1, <1>2, <1>3, <1>4, <1>5, <1>6, <1>7, <1>8, <1>9, <1>10, <1>11, <1>12, <1>13, <1>14, <1>15

-----------------------------------------------------------------------------
(* The record. *)

(* A record that has not ended grows by anything but another beginning.     *)
LEMMA LogGrows ==
  ASSUME NEW u \in Seq(Tellings), u # <<>>, Log(u), ~Ended(u),
         NEW x \in Tellings, x.is # "up"
  PROVE  LET v == Append(u, x) IN
         v \in Seq(Tellings) /\ v # <<>> /\ Log(v) /\ (Ended(v) <=> x.is = "down")
<1> DEFINE v == Append(u, x)
           n == Len(u)
<1>1. /\ v \in Seq(Tellings) /\ Len(v) = n + 1 /\ n \in Nat /\ n >= 1
      /\ \A k \in 1 .. n : v[k] = u[k]
      /\ v[n + 1] = x
  OBVIOUS
<1> HIDE DEF v, n
<1>2. \A k \in 1 .. n : (u[k].is = "up" <=> k = 1) /\ u[k].is # "down"
  BY <1>1 DEF Log, Ended, n
<1>3. \A k \in 1 .. n + 1 : k \in 1 .. n \/ k = n + 1
  BY <1>1
<1>4. Log(v)
  <2>1. ASSUME NEW k \in 1 .. n + 1
        PROVE  (v[k].is = "up" <=> k = 1) /\ (v[k].is = "down" => k = n + 1)
    <3>1. CASE k \in 1 .. n
      BY <1>1, <1>2, <3>1
    <3>2. CASE k = n + 1
      BY <1>1, <3>2
    <3> QED
      BY <1>3, <3>1, <3>2
  <2> QED
    BY <1>1, <2>1 DEF Log
<1>5. Ended(v) <=> x.is = "down"
  BY <1>1 DEF Ended
<1>6. v # <<>>
  BY <1>1
<1> QED
  BY <1>1, <1>4, <1>5, <1>6 DEF v

(* One link's record grows, and the others stay.                           *)
LEMMA RecordGrows ==
  ASSUME NEW l, NEW log, NEW next, Fits(l, log, next), l.id # 0,
         NEW x \in Tellings, x.is # "up"
  PROVE  LET more == [log EXCEPT ![l.id] = Append(@, x)] IN
         /\ more \in Seq(Seq(Tellings)) /\ Len(more) = next - 1
         /\ \A n \in 1 .. Len(more) :
              /\ more[n] # <<>> /\ Log(more[n])
              /\ n # l.id => Ended(more[n])
              /\ n = l.id => (Ended(more[n]) <=> x.is = "down")
<1> DEFINE more == [log EXCEPT ![l.id] = Append(@, x)]
           u == log[l.id]
<1>1. l.id \in 1 .. Len(log) /\ Len(log) = next - 1 /\ log \in Seq(Seq(Tellings))
      /\ next \in Nat
  BY DEF Fits, Links
<1>2. u \in Seq(Tellings) /\ u # <<>> /\ Log(u) /\ ~Ended(u)
  BY <1>1, SMTT(30) DEF Fits
<1>3. Append(u, x) \in Seq(Tellings) /\ Append(u, x) # <<>> /\ Log(Append(u, x))
      /\ (Ended(Append(u, x)) <=> x.is = "down")
  BY <1>2, LogGrows
<1>4. /\ more \in Seq(Seq(Tellings)) /\ Len(more) = Len(log)
      /\ \A n \in 1 .. Len(log) : more[n] = IF n = l.id THEN Append(u, x) ELSE log[n]
  <2> DEFINE v == Append(u, x)
             i == l.id
  <2>1. more = [log EXCEPT ![i] = v]
    BY <1>1
  <2>2. i \in 1 .. Len(log) /\ v \in Seq(Tellings) /\ log \in Seq(Seq(Tellings))
    BY <1>1, <1>3
  <2> HIDE DEF more, v, i
  <2>3. /\ [log EXCEPT ![i] = v] \in Seq(Seq(Tellings))
        /\ Len([log EXCEPT ![i] = v]) = Len(log)
        /\ \A n \in 1 .. Len(log) : [log EXCEPT ![i] = v][n] = IF n = i THEN v ELSE log[n]
    BY <2>2, ExceptSeq
  <2>4. /\ more \in Seq(Seq(Tellings)) /\ Len(more) = Len(log)
        /\ \A n \in 1 .. Len(log) : more[n] = IF n = i THEN v ELSE log[n]
    BY <2>1, <2>3, Zenon
  <2> QED
    BY <2>4 DEF v, i
<1>5. \A n \in 1 .. Len(log) : log[n] # <<>> /\ Log(log[n]) /\ (n # l.id => Ended(log[n]))
  BY DEF Fits
<1> HIDE DEF more, u
<1>6. \A n \in 1 .. Len(more) :
        /\ more[n] # <<>> /\ Log(more[n])
        /\ n # l.id => Ended(more[n])
        /\ n = l.id => (Ended(more[n]) <=> x.is = "down")
  BY <1>3, <1>4, <1>5
<1> QED
  BY <1>1, <1>4, <1>6 DEF more, u

(* drop_link_for and the others that retire the link they look at.          *)
LEMMA FitsDown ==
  ASSUME NEW l, NEW log, NEW next, Fits(l, log, next), l.id # 0
  PROVE  Fits(NoLink, [log EXCEPT ![l.id] = Append(@, Down)], next)
<1> DEFINE more == [log EXCEPT ![l.id] = Append(@, Down)]
<1>1. /\ more \in Seq(Seq(Tellings)) /\ Len(more) = next - 1
      /\ \A n \in 1 .. Len(more) :
           /\ more[n] # <<>> /\ Log(more[n])
           /\ n # l.id => Ended(more[n])
           /\ n = l.id => (Ended(more[n]) <=> Down.is = "down")
  BY Forms, RecordGrows
<1>2. next \in Nat \ {0}
  BY DEF Fits
<1> HIDE DEF more
<1>3. \A n \in 1 .. Len(more) : more[n] # <<>> /\ Log(more[n]) /\ Ended(more[n]) /\ n # 0
  BY <1>1, Forms
<1>4. Fits(NoLink, more, next)
  BY <1>1, <1>2, <1>3, Forms DEF Fits
<1> QED
  BY <1>4 DEF more

(* A message on the link, or a fragment of one.                             *)
LEMMA FitsRecv ==
  ASSUME NEW l, NEW log, NEW next, Fits(l, log, next), l.id # 0,
         NEW msg \in Seq(Byte), NEW asm \in Assemblers
  PROVE  /\ Fits([l EXCEPT !.asm = asm], [log EXCEPT ![l.id] = Append(@, Said("recv", msg))], next)
         /\ Fits([l EXCEPT !.asm = asm], log, next)
<1> DEFINE x == Said("recv", msg)
           more == [log EXCEPT ![l.id] = Append(@, x)]
           k == [l EXCEPT !.asm = asm]
<1>0. x \in Tellings /\ x.is = "recv"
  BY Forms
<1> HIDE DEF x
<1>1. k \in Links /\ k.id = l.id /\ k.device = l.device
  BY DEF Fits, Links
<1>2. /\ more \in Seq(Seq(Tellings)) /\ Len(more) = next - 1
      /\ \A n \in 1 .. Len(more) :
           /\ more[n] # <<>> /\ Log(more[n])
           /\ n # l.id => Ended(more[n])
           /\ n = l.id => (Ended(more[n]) <=> x.is = "down")
  BY <1>0, RecordGrows
<1> HIDE DEF more, k
<1>3. Fits(k, more, next)
  <2>1. \A n \in 1 .. Len(more) :
          more[n] # <<>> /\ Log(more[n]) /\ (k.id = n <=> ~Ended(more[n]))
    BY <1>0, <1>1, <1>2
  <2>2. /\ next \in Nat \ {0} /\ k \in Links /\ k.id < next
        /\ k.id = 0 => k = NoLink
        /\ k.id # 0 => k.device \in Centrals
    BY <1>1 DEF Fits
  <2> QED
    BY <1>2, <2>1, <2>2 DEF Fits
<1>4. Fits(k, log, next)
  BY <1>1 DEF Fits
<1> QED
  BY <1>3, <1>4 DEF more, k, x

(* A new link.                                                             *)
LEMMA FitsUp ==
  ASSUME NEW log, NEW next, Fits(NoLink, log, next), NEW c \in Centrals
  PROVE  Fits([id |-> next, device |-> c, asm |-> Closed], Append(log, <<Said("up", <<>>)>>), next + 1)
<1> DEFINE k == [id |-> next, device |-> c, asm |-> Closed]
           u == <<Said("up", <<>>)>>
           more == Append(log, u)
<1>1. next \in Nat \ {0} /\ log \in Seq(Seq(Tellings)) /\ Len(log) = next - 1
  BY DEF Fits
<1>2. k \in Links /\ k.id = next /\ k.device = c
  BY <1>1, Forms DEF Links
<1>3. u \in Seq(Tellings) /\ u # <<>> /\ Log(u) /\ ~Ended(u)
  <2>1. u \in Seq(Tellings) /\ Len(u) = 1 /\ u[1].is = "up"
    BY Forms DEF Said
  <2> QED
    BY <2>1 DEF Log, Ended
<1> HIDE DEF k, u
<1>4. /\ more \in Seq(Seq(Tellings)) /\ Len(more) = next
      /\ more[next] = u
      /\ \A n \in 1 .. next - 1 : more[n] = log[n]
  BY <1>1, <1>3
<1>5. \A n \in 1 .. next - 1 : log[n] # <<>> /\ Log(log[n]) /\ Ended(log[n])
  BY <1>1, Forms DEF Fits
<1>6. \A n \in 1 .. next : n = next \/ (n \in 1 .. next - 1 /\ n # next)
  BY <1>1
<1> HIDE DEF more
<1>7. Fits(k, more, next + 1)
  <2>1. \A n \in 1 .. next :
          more[n] # <<>> /\ Log(more[n]) /\ (k.id = n <=> ~Ended(more[n]))
    BY <1>2, <1>3, <1>4, <1>5, <1>6
  <2>2. /\ next + 1 \in Nat \ {0} /\ k.id < next + 1 /\ k.id # 0 /\ next = (next + 1) - 1
    BY <1>1, <1>2
  <2> QED
    BY <1>2, <1>4, <2>1, <2>2 DEF Fits
<1> QED
  BY <1>7 DEF k, u, more

-----------------------------------------------------------------------------
(* The link. *)

(* Whoever retires the link, under the number it is held by.                *)
LEMMA DropKeeps ==
  ASSUME TransportInv, link.id # 0, link' = NoLink, Tell(link.id, Down), UNCHANGED nextLink
  PROVE  Fits(link, told, nextLink)'
<1>1. Fits(link, told, nextLink)
  BY DEF TransportInv
<1>2. Fits(NoLink, [told EXCEPT ![link.id] = Append(@, Down)], nextLink)
  BY <1>1, FitsDown
<1> QED
  BY <1>2 DEF Tell

(* drop_link_for for a device.                                             *)
LEMMA DropForKeeps ==
  ASSUME TransportInv, NEW c \in Centrals, DropLinkFor(c)
  PROVE  Fits(link, told, nextLink)'
<1>1. Fits(link, told, nextLink) /\ NoOne \notin Centrals
  BY DEF TransportInv, Centrals, NoOne
<1>2. CASE link.device # c
  BY <1>1, <1>2 DEF DropLinkFor, core
<1>3. CASE link.device = c
  <2>1. link.id # 0
    BY <1>1, <1>3 DEF Fits, NoLink
  <2> QED
    BY <1>3, <2>1, DropKeeps DEF DropLinkFor
<1> QED
  BY <1>2, <1>3

(* start_notify, a command of the core, and a task that retires what it      *)
(* found gone.                                                             *)
LEMMA RetiringKeeps ==
  ASSUME TransportInv,
         StartNotify \/ (\E n \in 1 .. nextLink - 1 : CommandDrop(n)) \/ \E r \in Runners : Drop(r)
  PROVE  TransportInv' /\ UNCHANGED <<writes, sent, overtakes>>
         /\ (UNCHANGED link \/ link' = NoLink)
         /\ (UNCHANGED told \/ \E n : Tell(n, Down))
<1>0. Radio /\ Tasks /\ Counted /\ Queue /\ Fits(link, told, nextLink)
  BY DEF TransportInv
<1> USE DEF radio, advert, counts
<1>1. CASE StartNotify
  <2>1. Radio' /\ Tasks' /\ Counted' /\ Queue' /\ UNCHANGED <<writes, sent, overtakes>>
    BY <1>0, <1>1 DEF StartNotify, Radio, Tasks, Counted, Queue
  <2>2. CASE link = NoLink
    BY <1>0, <1>1, <2>1, <2>2 DEF StartNotify, core, TransportInv
  <2>3. CASE link # NoLink
    <3>1. DropLinkFor(link.device) /\ link.device \in Centrals
      BY <1>0, <1>1, <2>3 DEF StartNotify, Fits
    <3>2. Fits(link, told, nextLink)'
      BY <3>1, DropForKeeps
    <3> QED
      BY <2>1, <3>1, <3>2 DEF DropLinkFor, TransportInv
  <2> QED
    BY <2>2, <2>3
<1>2. ASSUME NEW n \in 1 .. nextLink - 1, CommandDrop(n)
      PROVE  TransportInv' /\ UNCHANGED <<writes, sent, overtakes>> /\ link' = NoLink /\ Tell(n, Down)
  <2>1. Radio' /\ Tasks' /\ Counted' /\ Queue' /\ UNCHANGED <<writes, sent, overtakes>>
    BY <1>0, <1>2 DEF CommandDrop, Radio, Tasks, Counted, Queue
  <2>2. link.id # 0 /\ link' = NoLink /\ Tell(link.id, Down) /\ UNCHANGED nextLink
    BY <1>0, <1>2 DEF CommandDrop, Fits
  <2> QED
    BY <1>2, <2>1, <2>2, DropKeeps DEF TransportInv, CommandDrop
<1>3. ASSUME NEW r \in Runners, Drop(r)
      PROVE  TransportInv' /\ UNCHANGED <<writes, sent, overtakes>>
             /\ (UNCHANGED link \/ link' = NoLink)
             /\ (UNCHANGED told \/ \E n : Tell(n, Down))
  <2>1. Radio' /\ Counted' /\ Queue' /\ UNCHANGED <<writes, sent, overtakes>>
    BY <1>0, <1>3 DEF Drop, Radio, Counted, Queue
  <2>2. Tasks'
    <3> DEFINE s == Step("check", NoOne, FALSE, task[r].forget)
    <3>1. s \in Steps /\ s.at = "check"
      BY <1>0 DEF Step, Steps, Tasks
    <3>2. task' = [task EXCEPT ![r] = s]
      BY <1>0, <1>3 DEF Drop, Tasks
    <3> HIDE DEF s
    <3> QED
      BY <1>0, <3>1, <3>2, TaskSet
  <2>3. task[r].dev \in Centrals /\ DropLinkFor(task[r].dev)
    BY <1>0, <1>3 DEF Drop, Tasks
  <2>4. Fits(link, told, nextLink)'
    BY <2>3, DropForKeeps
  <2> QED
    BY <2>1, <2>2, <2>3, <2>4 DEF TransportInv, DropLinkFor, core
<1> QED
  BY <1>1, <1>2, <1>3

(* The queue without one of its tasks.                                      *)
LEMMA WithoutOne ==
  ASSUME Queue, NEW i \in 1 .. Len(writes)
  PROVE  /\ Without(i) \in Seq(Writing) /\ Len(Without(i)) = Len(writes) - 1
         /\ \A k \in 1 .. Len(writes) - 1 :
              Without(i)[k] = writes[IF k < i THEN k ELSE k + 1]
<1> DEFINE n == Len(writes)
           u == SubSeq(writes, 1, i - 1)
           v == SubSeq(writes, i + 1, n)
<1>1. writes \in Seq(Writing) /\ n \in Nat
  BY DEF Queue
<1>2. u \in Seq(Writing) /\ Len(u) = i - 1 /\ \A k \in 1 .. i - 1 : u[k] = writes[k]
  BY <1>1
<1>3. v \in Seq(Writing) /\ Len(v) = n - i /\ \A k \in 1 .. n - i : v[k] = writes[i + k]
  BY <1>1
<1>4. Without(i) = u \o v
  BY DEF Without
<1> HIDE DEF n, u, v
<1>5. /\ u \o v \in Seq(Writing) /\ Len(u \o v) = n - 1
      /\ \A k \in 1 .. n - 1 : (u \o v)[k] = IF k <= i - 1 THEN u[k] ELSE v[k - (i - 1)]
  <2>1. /\ u \o v \in Seq(Writing) /\ Len(u \o v) = Len(u) + Len(v)
        /\ \A k \in 1 .. Len(u) + Len(v) :
             (u \o v)[k] = IF k <= Len(u) THEN u[k] ELSE v[k - Len(u)]
    BY <1>2, <1>3, ConcatProperties
  <2>2. Len(u) + Len(v) = n - 1
    BY <1>1, <1>2, <1>3
  <2> QED
    BY <1>2, <2>1, <2>2
<1>6. ASSUME NEW k \in 1 .. n - 1
      PROVE  (u \o v)[k] = writes[IF k < i THEN k ELSE k + 1]
  <2>1. CASE k < i
    BY <1>1, <1>2, <1>5, <2>1 DEF n
  <2>2. CASE ~(k < i)
    <3>1. k - (i - 1) \in 1 .. n - i /\ i + (k - (i - 1)) = k + 1 /\ ~(k <= i - 1)
      BY <1>1, <2>2 DEF n
    <3> QED
      BY <1>3, <1>5, <2>2, <3>1
  <2> QED
    BY <2>1, <2>2
<1> QED
  BY <1>4, <1>5, <1>6 DEF n

(* A phone writes the first k fragments of the next message.               *)
LEMMA WriteForm ==
  ASSUME TransportInv, NEW c \in Centrals, NEW k \in 1 .. MaxInFlight, Write(c, k)
  PROVE  LET n == Len(writes) IN
         /\ TransportInv' /\ UNCHANGED <<core, overtakes>>
         /\ sent' = sent + 1 /\ sent + 1 \in 1 .. Len(Lengths) /\ k <= Count(sent + 1)
         /\ Len(writes') = n + k
         /\ \A x \in 1 .. n : writes'[x] = writes[x]
         /\ \A j \in 1 .. k :
              writes'[n + j] = [at |-> "called", dev |-> c, frag |-> Cut(sent + 1)[j]]
<1> DEFINE n == Len(writes)
           m == sent + 1
           call(j) == [at |-> "called", dev |-> c, frag |-> Cut(m)[j]]
           called == [j \in 1 .. k |-> call(j)]
<1>0. Radio /\ Tasks /\ Counted /\ Queue /\ Fits(link, told, nextLink)
  BY DEF TransportInv
<1>1. /\ writes' = writes \o called /\ k <= Len(Cut(m)) /\ n + k <= MaxInFlight
      /\ sent' = m /\ sent < Len(Lengths)
      /\ UNCHANGED <<radio, core, last, advert, task, signals, subscriber, counts>>
  BY DEF Write, Cut
<1>2. m \in 1 .. Len(Lengths) /\ n \in Nat /\ writes \in Seq(Writing) /\ k \in Nat
  BY <1>0, <1>1, BoundsAreNat DEF Queue
<1> HIDE DEF m
<1>3. Cut(m) \in Seq(Frags) /\ Len(Cut(m)) = Count(m) /\ Count(m) \in Nat
  BY <1>2, CutForm
<1>4. \A j \in 1 .. k : Cut(m)[j] \in Frags
  BY <1>1, <1>2, <1>3
<1>5. \A j \in 1 .. k : call(j) \in Writing
  BY <1>4 DEF Writing
<1> HIDE DEF call
<1>6. called \in [1 .. k -> Writing]
  BY <1>5
<1>7. called \in Seq(Writing) /\ Len(called) = k
  BY <1>2, <1>6, FunctionIsSeq
<1>8. \A j \in 1 .. k : called[j] = call(j)
  OBVIOUS
<1> HIDE DEF n, called
<1>9. /\ writes' \in Seq(Writing) /\ Len(writes') = n + k
      /\ \A x \in 1 .. n : writes'[x] = writes[x]
      /\ \A j \in 1 .. k : writes'[n + j] = called[j]
  <2>1. /\ writes' \in Seq(Writing) /\ Len(writes') = n + k
        /\ \A x \in 1 .. n + k : writes'[x] = IF x <= n THEN writes[x] ELSE called[x - n]
    BY <1>1, <1>2, <1>7, ConcatProperties DEF n
  <2>2. \A j \in 1 .. k : n + j \in 1 .. n + k /\ ~(n + j <= n) /\ (n + j) - n = j
    BY <1>2
  <2>3. \A x \in 1 .. n : x \in 1 .. n + k /\ x <= n
    BY <1>2
  <2> QED
    BY <2>1, <2>2, <2>3
<1>10. Queue'
  BY <1>1, <1>2, <1>9 DEF Queue
<1>11. TransportInv'
  BY <1>0, <1>1, <1>10 DEF TransportInv, Radio, Tasks, Counted, radio, core, advert, counts
<1> QED
  BY <1>1, <1>2, <1>3, <1>8, <1>9, <1>11 DEF counts, call, n, m

(* write_value notes who writes.                                            *)
LEMMA NoteKeeps ==
  ASSUME Radio, Queue, NEW i \in 1 .. Len(writes), NoteCentral(i),
         UNCHANGED <<radio, advert, signals, subscriber>>
  PROVE  Radio'
<1>1. writes[i].dev \in Centrals
  <2>1. writes[i] \in Writing
    BY DEF Queue
  <2> QED
    BY <2>1 DEF Writing
<1>2. last' \in Centrals \cup {NoOne}
  BY <1>1 DEF NoteCentral, Radio
<1> QED
  BY <1>2 DEF Radio, radio, advert

(* A fragment overtakes only so many times.                                 *)
LEMMA OvertakeKeeps ==
  ASSUME Counted, NEW i, Overtake(i), UNCHANGED <<connects, faults>>
  PROVE  Counted' /\ (overtakes' = 0 => overtakes = 0 /\ ~Late(i))
BY BoundsAreNat DEF Counted, Overtake

(* The holder a writer found gone is retired.                               *)
LEMMA RetireKeeps ==
  ASSUME TransportInv, NEW i \in 1 .. Len(writes), RetireHolder(i)
  PROVE  /\ TransportInv' /\ UNCHANGED <<sent, overtakes>> /\ link' = NoLink /\ Tell(link.id, Down)
         /\ Len(writes') = Len(writes)
         /\ \A k \in 1 .. Len(writes) :
              writes'[k].dev = writes[k].dev /\ writes'[k].frag = writes[k].frag
<1>0. Radio /\ Tasks /\ Counted /\ Queue /\ Fits(link, told, nextLink)
  BY DEF TransportInv
<1>1. /\ writes' = [writes EXCEPT ![i].at = "again"] /\ NoteCentral(i) /\ link # NoLink
      /\ DropLinkFor(link.device)
      /\ UNCHANGED <<radio, advert, task, signals, subscriber, sent, counts>>
  BY DEF RetireHolder, Other
<1>2. link.device \in Centrals
  BY <1>0, <1>1 DEF Fits
<1>3. Fits(link, told, nextLink)'
  BY <1>1, <1>2, DropForKeeps
<1>4. writes \in Seq(Writing) /\ writes[i] \in Writing
  BY <1>0 DEF Queue
<1> DEFINE w == [writes[i] EXCEPT !.at = "again"]
<1>5. w \in Writing /\ w.dev = writes[i].dev /\ w.frag = writes[i].frag
  BY <1>4 DEF Writing
<1>6. writes' = [writes EXCEPT ![i] = w]
  BY <1>1, <1>4
<1> HIDE DEF w
<1>7. /\ writes' \in Seq(Writing) /\ Len(writes') = Len(writes)
      /\ \A k \in 1 .. Len(writes) : writes'[k] = IF k = i THEN w ELSE writes[k]
  BY <1>4, <1>5, <1>6
<1>8. Queue' /\ Tasks' /\ Counted'
  BY <1>0, <1>1, <1>7 DEF Queue, Tasks, Counted, counts
<1>9. Radio'
  BY <1>0, <1>1, NoteKeeps
<1>10. link' = NoLink /\ Tell(link.id, Down)
  BY <1>1 DEF DropLinkFor
<1> QED
  BY <1>1, <1>3, <1>5, <1>7, <1>8, <1>9, <1>10 DEF TransportInv, counts

(* A writer is refused.                                                    *)
LEMMA RefusedKeeps ==
  ASSUME TransportInv, NEW i \in 1 .. Len(writes), Refused(i)
  PROVE  /\ TransportInv' /\ UNCHANGED <<core, sent>> /\ writes' = Without(i)
         /\ link.device # writes[i].dev
         /\ overtakes' = 0 => overtakes = 0 /\ ~Late(i)
<1>0. Radio /\ Tasks /\ Counted /\ Queue /\ Fits(link, told, nextLink)
  BY DEF TransportInv
<1>1. /\ writes' = Without(i) /\ NoteCentral(i) /\ Overtake(i) /\ link.device # writes[i].dev
      /\ UNCHANGED <<radio, core, advert, task, signals, subscriber, sent, connects, faults>>
  BY DEF Refused, Other
<1>2. Queue'
  BY <1>0, <1>1, WithoutOne DEF Queue
<1>3. Radio' /\ Tasks'
  BY <1>0, <1>1, NoteKeeps DEF Tasks
<1>4. Counted' /\ (overtakes' = 0 => overtakes = 0 /\ ~Late(i))
  BY <1>0, <1>1, OvertakeKeeps
<1> QED
  BY <1>0, <1>1, <1>2, <1>3, <1>4 DEF TransportInv, core

(* What push answers.                                                      *)
LEMMA PushForm ==
  ASSUME NEW asm \in Assemblers, NEW f \in Frags
  PROVE  LET p == Push(asm, f, MaxMessage) IN
         /\ p.asm \in Assemblers /\ p.msg \in Seq(Byte)
         /\ \/ p.says = "error"
            \/ /\ f.start # asm.open /\ f.more /\ p.says = "more"
               /\ p.asm = [open |-> TRUE, buf |-> asm.buf \o f.body]
            \/ /\ f.start # asm.open /\ ~f.more /\ p.says = "message"
               /\ p.asm = Closed /\ p.msg = asm.buf \o f.body
<1> DEFINE buf == asm.buf \o f.body
           p == Push(asm, f, MaxMessage)
<1>1. buf \in Seq(Byte) /\ f.more \in BOOLEAN
  BY DEF Assemblers, Frags
<1>2. [open |-> TRUE, buf |-> buf] \in Assemblers /\ Closed \in Assemblers /\ <<>> \in Seq(Byte)
  BY <1>1, Forms DEF Assemblers
<1>3. CASE f.start = asm.open \/ Len(buf) > MaxMessage
  <2>1. p = Pushed(Closed, "error", <<>>)
    BY <1>3 DEF Push
  <2> QED
    BY <1>2, <2>1 DEF Pushed
<1>4. CASE ~(f.start = asm.open \/ Len(buf) > MaxMessage) /\ f.more
  <2>1. p = Pushed([open |-> TRUE, buf |-> buf], "more", <<>>)
    BY <1>4 DEF Push
  <2>2. p.asm = [open |-> TRUE, buf |-> buf] /\ p.says = "more" /\ p.msg = <<>>
    BY <2>1 DEF Pushed
  <2>3. f.start # asm.open /\ f.more
    BY <1>4
  <2> HIDE DEF p
  <2>4. /\ p.asm \in Assemblers /\ p.msg \in Seq(Byte) /\ f.start # asm.open /\ f.more
        /\ p.says = "more" /\ p.asm = [open |-> TRUE, buf |-> asm.buf \o f.body]
    BY <1>2, <2>2, <2>3, Zenon
  <2> QED
    BY <2>4, Zenon DEF p
<1>5. CASE ~(f.start = asm.open \/ Len(buf) > MaxMessage) /\ ~f.more
  <2>1. p = Pushed(Closed, "message", buf)
    BY <1>5 DEF Push
  <2>2. p.asm = Closed /\ p.says = "message" /\ p.msg = buf
    <3> HIDE DEF p, buf
    <3> QED
      BY <2>1 DEF Pushed
  <2>3. f.start # asm.open /\ ~f.more
    BY <1>5
  <2> HIDE DEF p
  <2>4. /\ p.asm \in Assemblers /\ p.msg \in Seq(Byte) /\ f.start # asm.open /\ ~f.more
        /\ p.says = "message" /\ p.asm = Closed /\ p.msg = asm.buf \o f.body
    BY <1>1, <1>2, <2>2, <2>3, Zenon
  <2> QED
    BY <2>4, Zenon DEF p
<1> QED
  BY <1>3, <1>4, <1>5

(* write_value, last part: which link the fragment is for, and what becomes  *)
(* of it.                                                                  *)
LEMMA PlacedForm ==
  ASSUME TransportInv, NEW i \in 1 .. Len(writes), Placed(i)
  PROVE  /\ TransportInv' /\ UNCHANGED sent /\ writes' = Without(i)
         /\ overtakes' = 0 => overtakes = 0 /\ ~Late(i)
         /\ writes[i].frag \in Frags
         /\ \E l, log :
              /\ l \in Links
              /\ l.device = writes[i].dev
              /\ \/ l = link /\ log = told
                 \/ l.asm = Closed /\ log = Append(told, <<Said("up", <<>>)>>)
              /\ LET p == Push(l.asm, writes[i].frag, MaxMessage) IN
                 \/ link' = NoLink /\ told' = [log EXCEPT ![l.id] = Append(@, Down)]
                 \/ p.says = "more" /\ link' = [l EXCEPT !.asm = p.asm] /\ told' = log
                 \/ /\ p.says = "message" /\ link' = [l EXCEPT !.asm = p.asm]
                    /\ told' = [log EXCEPT ![l.id] = Append(@, Said("recv", p.msg))]
<1> DEFINE l == IF link = NoLink THEN Raised(writes[i].dev) ELSE link
           log == IF link = NoLink THEN Append(told, <<Said("up", <<>>)>>) ELSE told
           p == Push(l.asm, writes[i].frag, MaxMessage)
           next == IF link = NoLink THEN nextLink + 1 ELSE nextLink
<1>0. Radio /\ Tasks /\ Counted /\ Queue /\ Fits(link, told, nextLink)
  BY DEF TransportInv
<1>1. /\ writes' = Without(i) /\ NoteCentral(i) /\ Overtake(i) /\ ~Other(i)
      /\ UNCHANGED <<radio, advert, task, signals, subscriber, sent, connects, faults>>
  BY DEF Placed
<1>2. /\ nextLink' = next
      /\ link' = IF p.says = "error" THEN NoLink ELSE [l EXCEPT !.asm = p.asm]
      /\ told' = CASE p.says = "error" -> [log EXCEPT ![l.id] = Append(@, Down)]
                   [] p.says = "message" -> [log EXCEPT ![l.id] = Append(@, Said("recv", p.msg))]
                   [] OTHER -> log
  BY DEF Placed
<1>3. writes[i].dev \in Centrals /\ writes[i].frag \in Frags
  <2>1. writes[i] \in Writing
    BY <1>0 DEF Queue
  <2> QED
    BY <2>1 DEF Writing
<1>4. /\ Fits(l, log, next) /\ l.id # 0 /\ l.device = writes[i].dev
      /\ \/ l = link /\ log = told
         \/ l.asm = Closed /\ log = Append(told, <<Said("up", <<>>)>>)
  <2>1. CASE link = NoLink
    <3>1. Fits(NoLink, told, nextLink) /\ nextLink \in Nat \ {0}
      BY <1>0, <2>1 DEF Fits
    <3>2. Fits(Raised(writes[i].dev), log, nextLink + 1)
      BY <1>3, <2>1, <3>1, FitsUp DEF Raised
    <3>3. l.id = nextLink /\ l.device = writes[i].dev /\ l.asm = Closed
      BY <2>1 DEF Raised
    <3> QED
      BY <2>1, <3>1, <3>2, <3>3
  <2>2. CASE link # NoLink
    <3>1. link.id # 0 /\ link.device = writes[i].dev
      BY <1>0, <1>1, <2>2 DEF Other, Fits
    <3> QED
      BY <1>0, <2>2, <3>1
  <2> QED
    BY <2>1, <2>2
<1>5. l \in Links /\ l.asm \in Assemblers
  <2> HIDE DEF l, log, next
  <2>1. l \in Links
    BY <1>4 DEF Fits
  <2> QED
    BY <2>1 DEF Links
<1> HIDE DEF l, log, next
<1>6. /\ p.asm \in Assemblers /\ p.msg \in Seq(Byte)
      /\ p.says = "error" \/ p.says = "more" \/ p.says = "message"
  BY <1>3, <1>5, PushForm
<1> HIDE DEF p
<1>7. \/ link' = NoLink /\ told' = [log EXCEPT ![l.id] = Append(@, Down)]
      \/ p.says = "more" /\ link' = [l EXCEPT !.asm = p.asm] /\ told' = log
      \/ /\ p.says = "message" /\ link' = [l EXCEPT !.asm = p.asm]
         /\ told' = [log EXCEPT ![l.id] = Append(@, Said("recv", p.msg))]
  BY <1>2, <1>6
<1>8. Fits(link, told, nextLink)'
  <2>1. Fits(NoLink, [log EXCEPT ![l.id] = Append(@, Down)], next)
    BY <1>4, FitsDown
  <2>2. /\ Fits([l EXCEPT !.asm = p.asm], [log EXCEPT ![l.id] = Append(@, Said("recv", p.msg))], next)
        /\ Fits([l EXCEPT !.asm = p.asm], log, next)
    BY <1>4, <1>6, FitsRecv
  <2>3. Fits(link', told', next)
    BY <1>7, <2>1, <2>2
  <2> QED
    BY <1>2, <2>3
<1>9. Queue'
  BY <1>0, <1>1, WithoutOne DEF Queue
<1>10. Radio' /\ Tasks'
  BY <1>0, <1>1, NoteKeeps DEF Tasks
<1>11. Counted' /\ (overtakes' = 0 => overtakes = 0 /\ ~Late(i))
  BY <1>0, <1>1, OvertakeKeeps
<1>12. TransportInv'
  BY <1>8, <1>9, <1>10, <1>11 DEF TransportInv
<1> QED
  BY <1>1, <1>3, <1>4, <1>5, <1>7, <1>11, <1>12 DEF p

-----------------------------------------------------------------------------
(* The theorems about the record. *)

(* The invariant holds in every state.                                      *)
LEMMA TransportHolds == Spec => []TransportInv
<1>1. TransportInv /\ UNCHANGED vars => TransportInv'
  BY DEF TransportInv, vars, radio, core, advert, counts, Radio, Tasks, Counted, Queue
<1>2. TransportInv /\ Next => TransportInv'
  BY AroundKeeps, RetiringKeeps, WriteForm, RetireKeeps, RefusedKeeps, PlacedForm
     DEF Next, WriteStep, Runner
<1>3. TransportInv /\ [Next]_vars => TransportInv'
  BY <1>1, <1>2
<1> QED
  BY InitTransport, <1>3, PTL DEF Spec

(* What the transport keeps is what its fields can hold, for every number of *)
(* phones and every bound.                                                  *)
THEOREM TransportTypes == Spec => []TypeOK
BY TransportHolds, TypesHold, PTL

(* The core is told of every link as it lives: up once, what arrived, down    *)
(* once, and it counts a link as up exactly while the transport holds it.    *)
(* Whichever task retires the link, and whenever.                          *)
THEOREM LinksAgree == Spec => []CoreAgrees
<1>1. TransportInv => CoreAgrees
  BY FitsAgrees DEF TransportInv
<1> QED
  BY TransportHolds, <1>1, PTL

-----------------------------------------------------------------------------
(* Whole messages. *)

(* Why AllWhole holds while no fragment overtakes another.  The              *)
(* reassembler holds the beginning of one message, and the next fragment     *)
(* under way from the device that holds the link is that message's next, or  *)
(* a beginning, which push refuses.  For that the fragments of one device    *)
(* must follow each other in the queue, and a fragment that is not a last    *)
(* one must say which it is (CutInjective).                                *)

First(k) == \A x \in 1 .. k - 1 : writes[x].dev # writes[k].dev
Adjacent(i, k) ==
  /\ i < k /\ writes[i].dev = writes[k].dev
  /\ \A x \in i + 1 .. k - 1 : writes[x].dev # writes[k].dev
Follows(f, g) ==
  \E m \in 1 .. sent : \E j \in 1 .. Count(m) - 1 : f = Cut(m)[j] /\ g = Cut(m)[j + 1]

Cuts ==
  \A i \in 1 .. Len(writes) :
    \E m \in 1 .. sent : \E j \in 1 .. Count(m) : writes[i].frag = Cut(m)[j]
Chained ==
  \A i, k \in 1 .. Len(writes) :
    Adjacent(i, k) => writes[k].frag.start \/ Follows(writes[i].frag, writes[k].frag)
\* The reassembler holds j fragments of message m.
Holds(m, j) ==
  /\ link.asm.buf = Prefix(m, j)
  /\ \A k \in 1 .. Len(writes) :
       writes[k].dev = link.device /\ First(k) =>
         writes[k].frag.start \/ writes[k].frag = Cut(m)[j + 1]
Assembled ==
  /\ ~link.asm.open => link.asm.buf = <<>>
  /\ link.asm.open => \E m \in 1 .. sent : \E j \in 1 .. Count(m) - 1 : Holds(m, j)

OrderInv == overtakes = 0 => Cuts /\ Chained /\ Assembled /\ AllWhole

WholeIn(log) ==
  \A n \in 1 .. Len(log) : \A k \in 1 .. Len(log[n]) :
    log[n][k].is = "recv" => \E m \in 1 .. sent : log[n][k].msg = Message(m)

(* AllWhole, of a record.                                                  *)
LEMMA WholeIsWholeIn ==
  ASSUME told \in Seq(Seq(Tellings))
  PROVE  AllWhole <=> WholeIn(told)
<1>1. DOMAIN told = 1 .. Len(told) /\ \A n \in 1 .. Len(told) : DOMAIN told[n] = 1 .. Len(told[n])
  OBVIOUS
<1> QED
  BY <1>1 DEF AllWhole, WholeIn

(* The same, after a step.                                                 *)
LEMMA RecordIsWhole ==
  ASSUME told' \in Seq(Seq(Tellings)), WholeIn(told'), sent \in Nat, sent' \in Nat, sent <= sent'
  PROVE  AllWhole'
<1> SUFFICES ASSUME NEW n \in DOMAIN told', NEW k \in DOMAIN told'[n], told'[n][k].is = "recv"
             PROVE  \E m \in 1 .. sent' : told'[n][k].msg = Message(m)
  BY DEF AllWhole, Message
<1>1. n \in 1 .. Len(told') /\ told'[n] \in Seq(Tellings)
  OBVIOUS
<1>2. k \in 1 .. Len(told'[n])
  BY <1>1
<1>3. PICK m \in 1 .. sent : told'[n][k].msg = Message(m)
  BY <1>1, <1>2 DEF WholeIn
<1>4. m \in 1 .. sent'
  OBVIOUS
<1> QED
  BY <1>3, <1>4

(* A record grows by something else than a message, or by a message sent.   *)
LEMMA WholeGrows ==
  ASSUME NEW log \in Seq(Seq(Tellings)), WholeIn(log), NEW n, NEW x \in Tellings,
         x.is = "recv" => \E m \in 1 .. sent : x.msg = Message(m)
  PROVE  WholeIn([log EXCEPT ![n] = Append(@, x)])
<1> DEFINE more == [log EXCEPT ![n] = Append(@, x)]
<1>1. CASE n \notin 1 .. Len(log)
  <2>1. more = log
    BY <1>1
  <2> QED
    BY <2>1
<1>2. CASE n \in 1 .. Len(log)
  <2> DEFINE u == log[n]
             v == Append(u, x)
  <2>1. u \in Seq(Tellings)
    BY <1>2
  <2>2. /\ v \in Seq(Tellings) /\ Len(v) = Len(u) + 1 /\ v[Len(u) + 1] = x /\ Len(u) \in Nat
        /\ \A k \in 1 .. Len(u) : v[k] = u[k]
    BY <2>1
  <2>3. more = [log EXCEPT ![n] = v]
    OBVIOUS
  <2> HIDE DEF v, u, more
  <2>4. /\ Len([log EXCEPT ![n] = v]) = Len(log)
        /\ \A i \in 1 .. Len(log) : [log EXCEPT ![n] = v][i] = IF i = n THEN v ELSE log[i]
    BY <1>2, <2>2, ExceptSeq, SMTT(30)
  <2>5. Len(more) = Len(log) /\ \A i \in 1 .. Len(log) : more[i] = IF i = n THEN v ELSE log[i]
    BY <2>3, <2>4, Zenon
  <2>6. ASSUME NEW k \in 1 .. Len(v), v[k].is = "recv"
        PROVE  \E m \in 1 .. sent : v[k].msg = Message(m)
    <3>1. CASE k = Len(u) + 1
      BY <2>2, <2>6, <3>1
    <3>2. CASE k # Len(u) + 1
      <4>1. k \in 1 .. Len(u) /\ v[k] = u[k]
        BY <2>2, <3>2
      <4> QED
        BY <1>2, <2>6, <4>1 DEF WholeIn, u
    <3> QED
      BY <3>1, <3>2
  <2>7. WholeIn(more)
    <3> SUFFICES ASSUME NEW i \in 1 .. Len(log), NEW k \in 1 .. Len(more[i]), more[i][k].is = "recv"
                 PROVE  \E m \in 1 .. sent : more[i][k].msg = Message(m)
      BY <2>5 DEF WholeIn
    <3>1. CASE i = n
      <4>1. more[i] = v
        BY <2>5, <3>1
      <4> QED
        BY <2>6, <4>1
    <3>2. CASE i # n
      <4>1. more[i] = log[i]
        BY <2>5, <3>2
      <4> QED
        BY <4>1 DEF WholeIn
    <3> QED
      BY <3>1, <3>2
  <2> QED
    BY <2>7 DEF more
<1> QED
  BY <1>1, <1>2

(* A step that leaves the order of the fragments and what was sent alone,    *)
(* and at most retires the link, keeps the invariant.                       *)
LEMMA QuietKeeps ==
  ASSUME TransportInv, OrderInv, TransportInv', UNCHANGED <<sent, overtakes>>,
         Len(writes') = Len(writes),
         \A k \in 1 .. Len(writes) :
           writes'[k].dev = writes[k].dev /\ writes'[k].frag = writes[k].frag,
         UNCHANGED link \/ link' = NoLink,
         UNCHANGED told \/ \E n : Tell(n, Down)
  PROVE  OrderInv'
<1> SUFFICES ASSUME overtakes' = 0 PROVE Cuts' /\ Chained' /\ Assembled' /\ AllWhole'
  BY DEF OrderInv
<1>0. Cuts /\ Chained /\ Assembled /\ AllWhole
  BY DEF OrderInv
<1>1. Cuts'
  BY <1>0 DEF Cuts, Count, Cut
<1>2. Len(writes) \in Nat
  BY DEF TransportInv, Queue
<1>3. \A i, k \in 1 .. Len(writes) : Adjacent(i, k)' <=> Adjacent(i, k)
  <2> SUFFICES ASSUME NEW i \in 1 .. Len(writes), NEW k \in 1 .. Len(writes)
               PROVE  Adjacent(i, k)' <=> Adjacent(i, k)
    OBVIOUS
  <2>1. \A x \in i + 1 .. k - 1 : x \in 1 .. Len(writes)
    BY <1>2
  <2> QED
    BY <2>1 DEF Adjacent
<1>4. \A k \in 1 .. Len(writes) : First(k)' <=> First(k)
  <2> SUFFICES ASSUME NEW k \in 1 .. Len(writes) PROVE First(k)' <=> First(k)
    OBVIOUS
  <2>1. \A x \in 1 .. k - 1 : x \in 1 .. Len(writes)
    BY <1>2
  <2> QED
    BY <2>1 DEF First
<1>5. Chained'
  BY <1>0, <1>3, SMTT(30) DEF Chained, Follows, Count, Cut
<1>6. Assembled'
  <2>1. CASE link' = NoLink
    BY <2>1, Forms DEF Assembled
  <2>2. CASE UNCHANGED link
    <3>1. ASSUME NEW m, NEW j, Holds(m, j) PROVE Holds(m, j)'
      BY <1>4, <2>2, <3>1 DEF Holds, Cut, Prefix
    <3>2. CASE link.asm.open
      <4>1. PICK m \in 1 .. sent : \E j \in 1 .. Count(m) - 1 : Holds(m, j)
        BY <1>0, <3>2 DEF Assembled
      <4>2. PICK j \in 1 .. Count(m) - 1 : Holds(m, j)
        BY <4>1
      <4>3. Holds(m, j)'
        BY <3>1, <4>2
      <4> QED
        BY <2>2, <3>2, <4>3 DEF Assembled, Count
    <3>3. CASE ~link.asm.open
      BY <1>0, <2>2, <3>3 DEF Assembled
    <3> QED
      BY <3>2, <3>3
  <2> QED
    BY <2>1, <2>2
<1>7. AllWhole'
  <2>1. told \in Seq(Seq(Tellings)) /\ told' \in Seq(Seq(Tellings))
    BY DEF TransportInv, Fits
  <2>2. WholeIn(told)
    BY <1>0, <2>1, WholeIsWholeIn
  <2>3. WholeIn(told')
    <3>1. CASE UNCHANGED told
      BY <2>2, <3>1
    <3>2. ASSUME NEW n, Tell(n, Down) PROVE WholeIn(told')
      <4>1. WholeIn([told EXCEPT ![n] = Append(@, Down)])
        BY <2>1, <2>2, Forms, WholeGrows
      <4> QED
        BY <3>2, <4>1 DEF Tell
    <3> QED
      BY <3>1, <3>2
  <2> QED
    <3>1. sent \in Nat
      BY DEF TransportInv, Queue
    <3> QED
      BY <2>1, <2>3, <3>1, RecordIsWhole
<1> QED
  BY <1>1, <1>5, <1>6, <1>7

\* Where the k-th task stood before the i-th was taken out.
Was(i, k) == IF k < i THEN k ELSE k + 1

(* Taking out a task keeps the order of the others.                         *)
LEMMA WasOrdered ==
  ASSUME Queue, NEW i \in 1 .. Len(writes), writes' = Without(i)
  PROVE  /\ Len(writes') = Len(writes) - 1 /\ Len(writes) \in Nat
         /\ \A k \in 1 .. Len(writes') : /\ Was(i, k) \in 1 .. Len(writes) /\ Was(i, k) # i
                                         /\ writes'[k] = writes[Was(i, k)]
         /\ \A k, y \in 1 .. Len(writes') : y < k <=> Was(i, y) < Was(i, k)
         /\ \A x \in 1 .. Len(writes) : x # i => \E y \in 1 .. Len(writes') : Was(i, y) = x
<1>1. /\ Len(writes') = Len(writes) - 1 /\ Len(writes) \in Nat
      /\ \A k \in 1 .. Len(writes') : writes'[k] = writes[Was(i, k)]
  <2>1. /\ Len(Without(i)) = Len(writes) - 1
        /\ \A k \in 1 .. Len(writes) - 1 : Without(i)[k] = writes[IF k < i THEN k ELSE k + 1]
    BY WithoutOne
  <2>2. Len(writes) \in Nat
    BY DEF Queue
  <2> QED
    BY <2>1, <2>2 DEF Was
<1>2. \A k \in 1 .. Len(writes') : Was(i, k) \in 1 .. Len(writes) /\ Was(i, k) # i
  BY <1>1 DEF Was
<1>3. \A k, y \in 1 .. Len(writes') : y < k <=> Was(i, y) < Was(i, k)
  BY <1>1 DEF Was
<1>4. ASSUME NEW x \in 1 .. Len(writes), x # i PROVE \E y \in 1 .. Len(writes') : Was(i, y) = x
  <2>1. CASE x < i
    <3>1. x \in 1 .. Len(writes') /\ Was(i, x) = x
      BY <1>1, <2>1 DEF Was
    <3> QED
      BY <3>1
  <2>2. CASE ~(x < i)
    <3>1. x - 1 \in 1 .. Len(writes') /\ Was(i, x - 1) = x
      BY <1>1, <1>4, <2>2 DEF Was
    <3> QED
      BY <3>1
  <2> QED
    BY <2>1, <2>2
<1> QED
  BY <1>1, <1>2, <1>3, <1>4

(* A place between two others.                                             *)
LEMMA Between ==
  ASSUME NEW n \in Nat, NEW h \in 1 .. n, NEW k \in 1 .. n, NEW x \in h + 1 .. k - 1
  PROVE  x \in 1 .. n /\ h < x /\ x < k
  OBVIOUS

(* Taking out the first task of a device leaves the fragments of every       *)
(* device in order.                                                        *)
LEMMA RemovalKeeps ==
  ASSUME Queue, NEW i \in 1 .. Len(writes), writes' = Without(i), First(i),
         UNCHANGED sent, Cuts, Chained
  PROVE  Cuts' /\ Chained'
<1>1. /\ Len(writes') = Len(writes) - 1 /\ Len(writes) \in Nat
      /\ \A k \in 1 .. Len(writes') : /\ Was(i, k) \in 1 .. Len(writes) /\ Was(i, k) # i
                                      /\ writes'[k] = writes[Was(i, k)]
      /\ \A k, y \in 1 .. Len(writes') : y < k <=> Was(i, y) < Was(i, k)
      /\ \A x \in 1 .. Len(writes) : x # i => \E y \in 1 .. Len(writes') : Was(i, y) = x
  BY WasOrdered
<1>2. Cuts'
  <2> SUFFICES ASSUME NEW k \in 1 .. Len(writes')
               PROVE  \E m \in 1 .. sent : \E j \in 1 .. Count(m) : writes'[k].frag = Cut(m)[j]
    BY DEF Cuts, Cut, Count
  <2>1. Was(i, k) \in 1 .. Len(writes) /\ writes'[k] = writes[Was(i, k)]
    BY <1>1
  <2> QED
    BY <2>1 DEF Cuts
<1>3. Chained'
  <2> SUFFICES ASSUME NEW h \in 1 .. Len(writes'), NEW k \in 1 .. Len(writes'), Adjacent(h, k)'
               PROVE  writes'[k].frag.start \/ Follows(writes'[h].frag, writes'[k].frag)
    BY DEF Chained, Follows, Cut, Count
  <2> DEFINE H == Was(i, h)
             K == Was(i, k)
  <2>1. /\ H \in 1 .. Len(writes) /\ K \in 1 .. Len(writes) /\ H # i /\ K # i
        /\ writes'[h] = writes[H] /\ writes'[k] = writes[K]
    BY <1>1
  <2>2. H < K /\ writes[H].dev = writes[K].dev
    BY <1>1, <2>1 DEF Adjacent
  <2>3. ASSUME NEW x \in H + 1 .. K - 1, writes[x].dev = writes[K].dev PROVE FALSE
    <3>1. x \in 1 .. Len(writes) /\ H < x /\ x < K
      <4> HIDE DEF H, K
      <4> QED
        BY <1>1, <2>1, Between
    <3>2. CASE x = i
      <4>1. H \in 1 .. i - 1
        BY <2>1, <3>1, <3>2
      <4> QED
        BY <2>2, <2>3, <3>2, <4>1 DEF First
    <3>3. CASE x # i
      <4>1. PICK y \in 1 .. Len(writes') : Was(i, y) = x
        BY <1>1, <3>1, <3>3
      <4>2. h < y /\ y < k /\ writes'[y] = writes[x]
        BY <1>1, <3>1, <4>1
      <4>3. y \in h + 1 .. k - 1
        BY <4>2
      <4> QED
        BY <2>1, <2>3, <4>2, <4>3 DEF Adjacent
    <3> QED
      BY <3>2, <3>3
  <2> HIDE DEF H, K
  <2>4. Adjacent(H, K)
    BY <2>2, <2>3 DEF Adjacent
  <2> QED
    BY <2>1, <2>4 DEF Chained
<1> QED
  BY <1>2, <1>3

(* The first task of device c after one was taken out: the first before,     *)
(* unless the one taken out was c's first, which it then followed.          *)
LEMMA FirstAfter ==
  ASSUME Queue, NEW i \in 1 .. Len(writes), writes' = Without(i), First(i),
         NEW k \in 1 .. Len(writes'), First(k)'
  PROVE  \E K \in 1 .. Len(writes) :
           /\ writes'[k] = writes[K]
           /\ IF writes[K].dev = writes[i].dev THEN Adjacent(i, K) ELSE First(K)
<1>1. /\ Len(writes') = Len(writes) - 1 /\ Len(writes) \in Nat
      /\ \A h \in 1 .. Len(writes') : /\ Was(i, h) \in 1 .. Len(writes) /\ Was(i, h) # i
                                      /\ writes'[h] = writes[Was(i, h)]
      /\ \A h, y \in 1 .. Len(writes') : y < h <=> Was(i, y) < Was(i, h)
      /\ \A x \in 1 .. Len(writes) : x # i => \E y \in 1 .. Len(writes') : Was(i, y) = x
  BY WasOrdered
<1> DEFINE K == Was(i, k)
<1>2. K \in 1 .. Len(writes) /\ K # i /\ writes'[k] = writes[K]
  BY <1>1
<1>3. ASSUME NEW x \in 1 .. K - 1, x # i PROVE writes[x].dev # writes[K].dev
  <2>0. x \in 1 .. Len(writes) /\ x < K
    BY <1>1, <1>2
  <2>1. PICK y \in 1 .. Len(writes') : Was(i, y) = x
    BY <1>1, <1>3, <2>0
  <2>2. y < k /\ writes'[y] = writes[x]
    BY <1>1, <2>0, <2>1
  <2>3. y \in 1 .. k - 1
    BY <2>2
  <2> QED
    BY <1>2, <2>2, <2>3 DEF First
<1> HIDE DEF K
<1>4. CASE writes[K].dev = writes[i].dev
  <2>1. ~(K < i)
    <3> SUFFICES ASSUME K < i PROVE FALSE
      OBVIOUS
    <3>1. K \in 1 .. i - 1
      BY <1>2
    <3> QED
      BY <1>4, <3>1 DEF First
  <2>2. i < K
    BY <1>2, <2>1
  <2>3. \A x \in i + 1 .. K - 1 : x \in 1 .. K - 1 /\ x # i
    BY <1>2
  <2>4. Adjacent(i, K)
    BY <1>3, <1>4, <2>2, <2>3 DEF Adjacent
  <2> QED
    BY <1>2, <1>4, <2>4
<1>5. CASE writes[K].dev # writes[i].dev
  <2>1. First(K)
    BY <1>3, <1>5 DEF First
  <2> QED
    BY <1>2, <1>5, <2>1
<1> QED
  BY <1>4, <1>5

(* A refused fragment.                                                     *)
LEMMA RefusedOrder ==
  ASSUME TransportInv, OrderInv, NEW i \in 1 .. Len(writes), Refused(i)
  PROVE  OrderInv'
<1> SUFFICES ASSUME overtakes' = 0 PROVE Cuts' /\ Chained' /\ Assembled' /\ AllWhole'
  BY DEF OrderInv
<1>0. /\ TransportInv' /\ UNCHANGED <<link, told, sent>> /\ writes' = Without(i)
      /\ link.device # writes[i].dev /\ overtakes = 0 /\ ~Late(i)
  BY RefusedKeeps DEF core
<1>1. Cuts /\ Chained /\ Assembled /\ AllWhole /\ Queue
  BY <1>0 DEF OrderInv, TransportInv
<1>2. First(i)
  BY <1>0 DEF Late, First
<1>3. Cuts' /\ Chained'
  BY <1>0, <1>1, <1>2, RemovalKeeps
<1>4. AllWhole'
  BY <1>0, <1>1 DEF AllWhole, Message
<1>5. Assembled'
  <2>1. CASE ~link.asm.open
    BY <1>0, <1>1, <2>1 DEF Assembled
  <2>2. CASE link.asm.open
    <3>1. PICK m \in 1 .. sent : \E j \in 1 .. Count(m) - 1 : Holds(m, j)
      BY <1>1, <2>2 DEF Assembled
    <3>2. PICK j \in 1 .. Count(m) - 1 : Holds(m, j)
      BY <3>1
    <3>3. ASSUME NEW k \in 1 .. Len(writes'), writes'[k].dev = link.device, First(k)'
          PROVE  writes'[k].frag.start \/ writes'[k].frag = Cut(m)[j + 1]
      <4>1. PICK K \in 1 .. Len(writes) :
              /\ writes'[k] = writes[K]
              /\ IF writes[K].dev = writes[i].dev THEN Adjacent(i, K) ELSE First(K)
        BY <1>0, <1>1, <1>2, <3>3, FirstAfter
      <4>2. writes[K].dev = link.device /\ First(K)
        BY <1>0, <3>3, <4>1
      <4> QED
        BY <3>2, <4>1, <4>2 DEF Holds
    <3>4. Holds(m, j)'
      BY <1>0, <3>2, <3>3 DEF Holds, Cut, Prefix
    <3> QED
      BY <1>0, <2>2, <3>4 DEF Assembled, Count
  <2> QED
    BY <2>1, <2>2
<1> QED
  BY <1>3, <1>4, <1>5

(* A phone writes: the fragments of one message follow each other, and the   *)
(* first of them is a beginning.                                           *)
LEMMA WriteOrder ==
  ASSUME TransportInv, OrderInv, NEW c \in Centrals, NEW q \in 1 .. MaxInFlight, Write(c, q)
  PROVE  OrderInv'
<1> SUFFICES ASSUME overtakes' = 0 PROVE Cuts' /\ Chained' /\ Assembled' /\ AllWhole'
  BY DEF OrderInv
<1> DEFINE n == Len(writes)
           s == sent + 1
<1>1. /\ TransportInv' /\ UNCHANGED <<link, told, overtakes>>
      /\ sent' = s /\ s \in 1 .. Len(Lengths) /\ q <= Count(s)
      /\ Len(writes') = n + q
      /\ \A x \in 1 .. n : writes'[x] = writes[x]
      /\ \A j \in 1 .. q : writes'[n + j] = [at |-> "called", dev |-> c, frag |-> Cut(s)[j]]
  BY WriteForm DEF core
<1>2. Cuts /\ Chained /\ Assembled /\ AllWhole /\ n \in Nat /\ sent \in Nat /\ q \in Nat
      /\ told \in Seq(Seq(Tellings))
  BY <1>1, BoundsAreNat, SMTT(30) DEF OrderInv, TransportInv, Queue, Fits
<1>3. Count(s) \in Nat /\ s \in 1 .. sent' /\ \A m \in 1 .. sent : m \in 1 .. sent'
  BY <1>1, <1>2, CutForm, SMTT(30)
<1> HIDE DEF n, s
<1>4. \A x \in 1 .. n + q : x \in 1 .. n \/ \E j \in 1 .. q : x = n + j
  <2> SUFFICES ASSUME NEW x \in 1 .. n + q, x \notin 1 .. n PROVE \E j \in 1 .. q : x = n + j
    OBVIOUS
  <2>1. x - n \in 1 .. q /\ x = n + (x - n)
    BY <1>2
  <2> QED
    BY <2>1
<1>5. \A j \in 1 .. q : /\ writes'[n + j].dev = c /\ writes'[n + j].frag = Cut(s)[j]
                        /\ j \in 1 .. Count(s)
  <2> SUFFICES ASSUME NEW j \in 1 .. q
               PROVE  /\ writes'[n + j].dev = c /\ writes'[n + j].frag = Cut(s)[j]
                      /\ j \in 1 .. Count(s)
    OBVIOUS
  <2>1. j \in 1 .. Count(s)
    BY <1>1, <1>2, <1>3
  <2>2. writes'[n + j] = [at |-> "called", dev |-> c, frag |-> Cut(s)[j]]
    BY <1>1
  <2> QED
    BY <2>1, <2>2
<1>6. writes'[n + 1].frag.start
  <2>1. 1 \in 1 .. q /\ 1 \in 1 .. Count(s)
    BY <1>1, <1>2, <1>3
  <2>2. Cut(s)[1].start = (1 = 1)
    BY <1>1, <2>1, CutForm
  <2> QED
    BY <1>5, <2>1, <2>2
<1>7. Cuts'
  <2> SUFFICES ASSUME NEW x \in 1 .. n + q
               PROVE  \E m \in 1 .. sent' : \E j \in 1 .. Count(m) : writes'[x].frag = Cut(m)[j]
    BY <1>1 DEF Cuts, Cut, Count
  <2>1. CASE x \in 1 .. n
    BY <1>1, <1>2, <1>3, <2>1 DEF Cuts, n
  <2>2. CASE \E j \in 1 .. q : x = n + j
    BY <1>3, <1>5, <2>2
  <2> QED
    BY <1>4, <2>1, <2>2
<1>8. Chained'
  <2> SUFFICES ASSUME NEW h \in 1 .. n + q, NEW k \in 1 .. n + q, Adjacent(h, k)'
               PROVE  writes'[k].frag.start \/ Follows(writes[h].frag, writes[k].frag)'
    BY <1>1 DEF Chained
  <2>0. h < k /\ h \in Nat /\ k \in Nat
    BY <1>2 DEF Adjacent
  <2>1. CASE k \in 1 .. n
    <3>1. h \in 1 .. n
      BY <1>2, <2>0, <2>1
    <3>2. \A x \in h + 1 .. k - 1 : x \in 1 .. n
      BY <1>2, <2>1, <3>1
    <3>3. Adjacent(h, k)
      BY <1>1, <2>1, <3>1, <3>2 DEF Adjacent
    <3>4. writes[k].frag.start \/ Follows(writes[h].frag, writes[k].frag)
      BY <1>2, <2>1, <3>1, <3>3 DEF Chained, n
    <3> QED
      <4>1. writes'[k] = writes[k] /\ writes'[h] = writes[h]
        BY <1>1, <2>1, <3>1
      <4>2. CASE writes[k].frag.start
        BY <4>1, <4>2
      <4>3. CASE Follows(writes[h].frag, writes[k].frag)
        <5>1. PICK m \in 1 .. sent : \E j \in 1 .. Count(m) - 1 :
                writes[h].frag = Cut(m)[j] /\ writes[k].frag = Cut(m)[j + 1]
          BY <4>3 DEF Follows
        <5>2. m \in 1 .. sent'
          BY <1>3
        <5> QED
          BY <4>1, <5>1, <5>2 DEF Follows, Cut, Count
      <4> QED
        BY <3>4, <4>2, <4>3
  <2>2. CASE k = n + 1
    BY <1>6, <2>2
  <2>3. CASE k # n + 1 /\ k \notin 1 .. n
    <3>1. PICK j \in 1 .. q : k = n + j
      BY <1>4, <2>3
    <3>2. j - 1 \in 1 .. q /\ j - 1 \in 1 .. Count(s) - 1 /\ k - 1 = n + (j - 1)
      BY <1>1, <1>2, <1>3, <2>3, <3>1
    <3>3. h = k - 1
      <4> SUFFICES ASSUME h # k - 1 PROVE FALSE
        OBVIOUS
      <4>1. k - 1 \in h + 1 .. k - 1
        BY <2>0
      <4>2. writes'[k - 1].dev # writes'[k].dev
        BY <4>1 DEF Adjacent
      <4> QED
        BY <1>5, <3>1, <3>2, <4>2
    <3> DEFINE i == j - 1
    <3>4. writes'[h].frag = Cut(s)[i] /\ writes'[k].frag = Cut(s)[i + 1] /\ i \in 1 .. Count(s) - 1
      <4>1. i + 1 = j
        BY <1>2
      <4> QED
        BY <1>5, <3>1, <3>2, <3>3, <4>1
    <3> HIDE DEF i
    <3>5. \E m \in 1 .. sent' : \E y \in 1 .. Count(m) - 1 :
            writes'[h].frag = Cut(m)[y] /\ writes'[k].frag = Cut(m)[y + 1]
      BY <1>3, <3>4
    <3> QED
      BY <3>5 DEF Follows, Cut, Count
  <2> QED
    BY <2>1, <2>2, <2>3
<1>9. Assembled'
  <2>1. CASE ~link.asm.open
    BY <1>1, <1>2, <2>1 DEF Assembled
  <2>2. CASE link.asm.open
    <3>1. PICK m \in 1 .. sent : \E j \in 1 .. Count(m) - 1 : Holds(m, j)
      BY <1>2, <2>2 DEF Assembled
    <3>2. PICK j \in 1 .. Count(m) - 1 : Holds(m, j)
      BY <3>1
    <3>3. ASSUME NEW k \in 1 .. n + q, writes'[k].dev = link.device, First(k)'
          PROVE  writes'[k].frag.start \/ writes'[k].frag = Cut(m)[j + 1]
      <4>1. CASE k \in 1 .. n
        <5>1. \A x \in 1 .. k - 1 : x \in 1 .. n
          BY <1>2, <4>1
        <5>2. First(k)
          BY <1>1, <3>3, <4>1, <5>1 DEF First
        <5> QED
          BY <1>1, <3>2, <3>3, <4>1, <5>2 DEF Holds, n
      <4>2. CASE k = n + 1
        BY <1>6, <4>2
      <4>3. CASE k # n + 1 /\ k \notin 1 .. n
        <5>1. PICK y \in 1 .. q : k = n + y
          BY <1>4, <4>3
        <5>2. n + 1 \in 1 .. k - 1 /\ 1 \in 1 .. q
          BY <1>2, <4>3, <5>1
        <5>3. writes'[n + 1].dev = writes'[k].dev
          BY <1>5, <5>1, <5>2
        <5> QED
          BY <3>3, <5>2, <5>3 DEF First
      <4> QED
        BY <4>1, <4>2, <4>3
    <3>4. Holds(m, j)'
      BY <1>1, <3>2, <3>3 DEF Holds, Cut, Prefix
    <3> QED
      BY <1>1, <1>3, <2>2, <3>4 DEF Assembled, Count
  <2> QED
    BY <2>1, <2>2
<1>10. AllWhole'
  <2>1. WholeIn(told')
    BY <1>1, <1>2, WholeIsWholeIn
  <2>2. sent' \in Nat /\ sent <= sent'
    BY <1>1, <1>2, SMTT(30) DEF s
  <2> QED
    BY <1>1, <1>2, <2>1, <2>2, RecordIsWhole
<1> QED
  BY <1>7, <1>8, <1>9, <1>10

(* A new link's record holds no message yet.                                *)
LEMMA WholeStarts ==
  ASSUME NEW log \in Seq(Seq(Tellings)), WholeIn(log)
  PROVE  WholeIn(Append(log, <<Said("up", <<>>)>>))
<1> DEFINE u == <<Said("up", <<>>)>>
           more == Append(log, u)
           n == Len(log)
<1>1. u \in Seq(Tellings) /\ Len(u) = 1 /\ u[1].is = "up"
  BY Forms DEF Said
<1> HIDE DEF u
<1>2. /\ Len(more) = n + 1 /\ n \in Nat /\ more[n + 1] = u
      /\ \A i \in 1 .. n : more[i] = log[i]
  BY <1>1
<1> HIDE DEF more, n
<1> SUFFICES ASSUME NEW i \in 1 .. n + 1, NEW k \in 1 .. Len(more[i]), more[i][k].is = "recv"
             PROVE  \E m \in 1 .. sent : more[i][k].msg = Message(m)
  BY <1>2 DEF WholeIn, more, u
<1>3. CASE i = n + 1
  <2>1. k = 1 /\ more[i] = u
    BY <1>1, <1>2, <1>3
  <2> QED
    BY <1>1, <2>1
<1>4. CASE i # n + 1
  <2>1. i \in 1 .. n /\ more[i] = log[i]
    BY <1>2, <1>4
  <2> QED
    BY <2>1 DEF WholeIn, n
<1> QED
  BY <1>3, <1>4

(* What push takes is the fragment the reassembler waits for.               *)
LEMMA NextFragment ==
  ASSUME TransportInv, Cuts, Assembled, NEW i \in 1 .. Len(writes), First(i),
         NEW l \in Links, l.device = writes[i].dev, l = link \/ l.asm = Closed,
         writes[i].frag \in Frags, writes[i].frag.start # l.asm.open
  PROVE  \E m \in 1 .. sent : \E j \in 1 .. Count(m) :
           /\ writes[i].frag = Cut(m)[j] /\ l.asm.buf = Prefix(m, j - 1)
           /\ m \in 1 .. Len(Lengths)
<1> DEFINE f == writes[i].frag
<1>1. f.start \in BOOLEAN /\ l.asm.open \in BOOLEAN
  BY DEF Frags, Links, Assemblers
<1>2. sent \in Nat /\ \A m \in 1 .. sent : m \in 1 .. Len(Lengths)
  BY BoundsAreNat DEF TransportInv, Queue
<1>3. CASE l.asm.open
  <2>1. l = link /\ ~f.start
    BY <1>1, <1>3, Forms
  <2>2. PICK m \in 1 .. sent : \E j \in 1 .. Count(m) - 1 : Holds(m, j)
    BY <1>3, <2>1 DEF Assembled
  <2>3. PICK j \in 1 .. Count(m) - 1 : Holds(m, j)
    BY <2>2
  <2>4. f = Cut(m)[j + 1] /\ link.asm.buf = Prefix(m, j)
    BY <2>1, <2>3 DEF Holds
  <2>5. j + 1 \in 1 .. Count(m) /\ (j + 1) - 1 = j
    <3>1. Count(m) \in Nat
      BY <1>2, CutForm
    <3> QED
      BY <3>1
  <2> DEFINE y == j + 1
  <2>6. y \in 1 .. Count(m) /\ f = Cut(m)[y] /\ l.asm.buf = Prefix(m, y - 1)
    BY <2>1, <2>4, <2>5
  <2> HIDE DEF y
  <2> QED
    BY <1>2, <2>6
<1>4. CASE ~l.asm.open
  <2>1. f.start
    BY <1>1, <1>4
  <2>2. l.asm.buf = <<>>
    BY <1>4, Forms DEF Assembled
  <2>3. PICK m \in 1 .. sent : \E j \in 1 .. Count(m) : f = Cut(m)[j]
    BY DEF Cuts
  <2>4. PICK j \in 1 .. Count(m) : f = Cut(m)[j]
    BY <2>3
  <2>5. j = 1
    BY <1>2, <2>1, <2>4, CutForm
  <2>6. Prefix(m, 1 - 1) = <<>>
    <3>1. (1 - 1) * Payload(FragmentSize) = 0
      BY PiecesFit, BoundsAreNat
    <3>2. SubSeq(Message(m), 1, 0) = <<>>
      BY SubSeqEmpty
    <3> QED
      BY <3>1, <3>2 DEF Prefix
  <2> QED
    BY <1>2, <2>2, <2>4, <2>5, <2>6
<1> QED
  BY <1>3, <1>4

(* A fragment is placed.                                                   *)
LEMMA PlacedOrder ==
  ASSUME TransportInv, OrderInv, NEW i \in 1 .. Len(writes), Placed(i)
  PROVE  OrderInv'
<1> SUFFICES ASSUME overtakes' = 0 PROVE Cuts' /\ Chained' /\ Assembled' /\ AllWhole'
  BY DEF OrderInv
<1> DEFINE f == writes[i].frag
           c == writes[i].dev
<1>1. /\ TransportInv' /\ UNCHANGED sent /\ writes' = Without(i) /\ overtakes = 0 /\ ~Late(i)
      /\ f \in Frags
  BY PlacedForm
<1>2. PICK l, log :
        /\ l \in Links
        /\ l.device = c
        /\ \/ l = link /\ log = told
           \/ l.asm = Closed /\ log = Append(told, <<Said("up", <<>>)>>)
        /\ LET p == Push(l.asm, f, MaxMessage) IN
           \/ link' = NoLink /\ told' = [log EXCEPT ![l.id] = Append(@, Down)]
           \/ p.says = "more" /\ link' = [l EXCEPT !.asm = p.asm] /\ told' = log
           \/ /\ p.says = "message" /\ link' = [l EXCEPT !.asm = p.asm]
              /\ told' = [log EXCEPT ![l.id] = Append(@, Said("recv", p.msg))]
  BY PlacedForm
<1>3. Cuts /\ Chained /\ Assembled /\ AllWhole /\ Queue /\ sent \in Nat
      /\ told \in Seq(Seq(Tellings)) /\ told' \in Seq(Seq(Tellings))
  BY <1>1 DEF OrderInv, TransportInv, Fits, Queue
<1>4. First(i)
  BY <1>1 DEF Late, First
<1>5. Cuts' /\ Chained'
  BY <1>1, <1>3, <1>4, RemovalKeeps
<1>6. log \in Seq(Seq(Tellings)) /\ WholeIn(log)
  <2>1. WholeIn(told)
    BY <1>3, WholeIsWholeIn
  <2>2. CASE log = told
    BY <1>3, <2>1, <2>2
  <2>3. CASE log = Append(told, <<Said("up", <<>>)>>)
    <3>1. <<Said("up", <<>>)>> \in Seq(Tellings)
      BY Forms
    <3>2. log \in Seq(Seq(Tellings))
      BY <1>3, <2>3, <3>1
    <3> QED
      BY <1>3, <2>1, <2>3, <3>2, WholeStarts
  <2> QED
    BY <1>2, <2>2, <2>3
<1> DEFINE p == Push(l.asm, f, MaxMessage)
<1>7. l.asm \in Assemblers
  BY <1>2 DEF Links
<1>8. /\ p.msg \in Seq(Byte)
      /\ \/ p.says = "error"
         \/ /\ f.start # l.asm.open /\ f.more /\ p.says = "more"
            /\ p.asm = [open |-> TRUE, buf |-> l.asm.buf \o f.body]
         \/ /\ f.start # l.asm.open /\ ~f.more /\ p.says = "message"
            /\ p.asm = Closed /\ p.msg = l.asm.buf \o f.body
  BY <1>1, <1>7, PushForm
<1>9. ASSUME f.start # l.asm.open
      PROVE  \E m \in 1 .. sent : \E j \in 1 .. Count(m) :
               f = Cut(m)[j] /\ l.asm.buf = Prefix(m, j - 1) /\ m \in 1 .. Len(Lengths)
  BY <1>1, <1>2, <1>3, <1>4, <1>9, NextFragment
<1> HIDE DEF p
<1>10. CASE link' = NoLink /\ told' = [log EXCEPT ![l.id] = Append(@, Down)]
  <2>1. WholeIn(told')
    BY <1>6, <1>10, Forms, WholeGrows
  <2>2. AllWhole'
    BY <1>1, <1>3, <2>1, RecordIsWhole
  <2>3. Assembled'
    BY <1>10, Forms DEF Assembled
  <2> QED
    BY <1>5, <2>2, <2>3
<1>11. CASE p.says = "more" /\ link' = [l EXCEPT !.asm = p.asm] /\ told' = log
  <2>1. f.start # l.asm.open /\ f.more /\ p.asm = [open |-> TRUE, buf |-> l.asm.buf \o f.body]
    BY <1>8, <1>11
  <2>2. PICK m \in 1 .. sent : \E j \in 1 .. Count(m) :
          f = Cut(m)[j] /\ l.asm.buf = Prefix(m, j - 1) /\ m \in 1 .. Len(Lengths)
    BY <1>9, <2>1
  <2>3. PICK j \in 1 .. Count(m) :
          f = Cut(m)[j] /\ l.asm.buf = Prefix(m, j - 1) /\ m \in 1 .. Len(Lengths)
    BY <2>2
  <2>4. j \in 1 .. Count(m) - 1 /\ Count(m) \in Nat
    <3>1. Count(m) \in Nat /\ f.more = (j < Count(m))
      <4>1. Count(m) \in Nat /\ Cut(m)[j].more = (j < Count(m))
        BY <2>3, LastOfCut
      <4> QED
        BY <2>3, <4>1
    <3>2. j < Count(m)
      BY <2>1, <3>1
    <3> QED
      BY <3>1, <3>2
  <2>5. l.asm.buf \o f.body = Prefix(m, j)
    <3>1. Prefix(m, j - 1) \o Cut(m)[j].body = IF j = Count(m) THEN Message(m) ELSE Prefix(m, j)
      BY <2>3, CutGrows
    <3>2. j # Count(m)
      BY <2>4
    <3> QED
      BY <2>3, <3>1, <3>2
  <2>6. link'.asm.open /\ link'.asm.buf = Prefix(m, j) /\ link'.device = c
    BY <1>2, <1>11, <2>1, <2>5 DEF Links
  <2>7. ASSUME NEW k \in 1 .. Len(writes'), writes'[k].dev = c, First(k)'
        PROVE  writes'[k].frag.start \/ writes'[k].frag = Cut(m)[j + 1]
    <3>1. PICK K \in 1 .. Len(writes) :
            /\ writes'[k] = writes[K]
            /\ IF writes[K].dev = writes[i].dev THEN Adjacent(i, K) ELSE First(K)
      BY <1>1, <1>3, <1>4, <2>7, FirstAfter
    <3>2. Adjacent(i, K)
      BY <2>7, <3>1
    <3>3. writes[K].frag.start \/ Follows(f, writes[K].frag)
      BY <1>3, <3>2 DEF Chained
    <3>4. CASE Follows(f, writes[K].frag)
      <4>1. PICK m2 \in 1 .. sent : \E j2 \in 1 .. Count(m2) - 1 :
              f = Cut(m2)[j2] /\ writes[K].frag = Cut(m2)[j2 + 1]
        BY <3>4 DEF Follows
      <4>2. PICK j2 \in 1 .. Count(m2) - 1 : f = Cut(m2)[j2] /\ writes[K].frag = Cut(m2)[j2 + 1]
        BY <4>1
      <4>3. m2 \in 1 .. Len(Lengths)
        BY <1>3, BoundsAreNat DEF Queue
      <4>4. j2 \in 1 .. Count(m2)
        BY <4>3, CutForm, SMTT(30)
      <4>5. m = m2 /\ j = j2
        BY <2>1, <2>3, <4>2, <4>3, <4>4, CutInjective
      <4> QED
        BY <3>1, <4>2, <4>5
    <3> QED
      BY <3>1, <3>3, <3>4
  <2>8. Holds(m, j)'
    BY <2>6, <2>7 DEF Holds, Cut, Prefix
  <2>9. Assembled'
    BY <1>1, <2>4, <2>6, <2>8 DEF Assembled, Count
  <2>10. AllWhole'
    BY <1>1, <1>3, <1>6, <1>11, RecordIsWhole
  <2> QED
    BY <1>5, <2>9, <2>10
<1>12. CASE /\ p.says = "message" /\ link' = [l EXCEPT !.asm = p.asm]
            /\ told' = [log EXCEPT ![l.id] = Append(@, Said("recv", p.msg))]
  <2>1. /\ f.start # l.asm.open /\ ~f.more /\ p.asm = Closed /\ p.msg = l.asm.buf \o f.body
    BY <1>8, <1>12
  <2>2. PICK m \in 1 .. sent : \E j \in 1 .. Count(m) :
          f = Cut(m)[j] /\ l.asm.buf = Prefix(m, j - 1) /\ m \in 1 .. Len(Lengths)
    BY <1>9, <2>1
  <2>3. PICK j \in 1 .. Count(m) :
          f = Cut(m)[j] /\ l.asm.buf = Prefix(m, j - 1) /\ m \in 1 .. Len(Lengths)
    BY <2>2
  <2>4. j = Count(m)
    <3>1. Count(m) \in Nat /\ f.more = (j < Count(m))
      <4>1. Count(m) \in Nat /\ Cut(m)[j].more = (j < Count(m))
        BY <2>3, LastOfCut
      <4> QED
        BY <2>3, <4>1
    <3>2. ~(j < Count(m))
      BY <2>1, <3>1
    <3> QED
      BY <3>1, <3>2
  <2>5. p.msg = Message(m)
    BY <2>1, <2>3, <2>4, CutGrows
  <2>6. WholeIn(told')
    <3> DEFINE x == Said("recv", p.msg)
    <3>1. x \in Tellings /\ x.msg = Message(m)
      BY <1>8, <2>5, Forms
    <3>2. told' = [log EXCEPT ![l.id] = Append(@, x)]
      BY <1>12
    <3> HIDE DEF x
    <3>3. WholeIn([log EXCEPT ![l.id] = Append(@, x)])
      BY <1>6, <3>1, WholeGrows
    <3> QED
      BY <3>2, <3>3
  <2>7. AllWhole'
    BY <1>1, <1>3, <2>6, RecordIsWhole
  <2>8. link'.asm = Closed
    BY <1>2, <1>12, <2>1 DEF Links
  <2>9. Assembled'
    BY <2>8, Forms DEF Assembled
  <2> QED
    BY <1>5, <2>7, <2>9
<1> QED
  BY <1>2, <1>10, <1>11, <1>12 DEF p

(* While no fragment has overtaken another of its device, whatever reaches   *)
(* the core is a message a phone sent, whole: for every length of message,   *)
(* every size of fragment and every limit, whichever fragments are lost with *)
(* the phone, refused, or dropped with a link.                              *)
THEOREM MessagesAreWhole == Spec => []WholeMessages
<1>1. Init => OrderInv
  BY DEF Init, OrderInv, Cuts, Chained, Assembled, AllWhole, NoLink, Closed
<1>2. ASSUME TransportInv, OrderInv, TransportInv', UNCHANGED <<writes, sent, overtakes>>,
             UNCHANGED link \/ link' = NoLink, UNCHANGED told \/ \E n : Tell(n, Down)
      PROVE  OrderInv'
  BY <1>2, QuietKeeps
<1>3. TransportInv /\ OrderInv /\ TransportInv' /\ UNCHANGED vars => OrderInv'
  BY <1>2 DEF vars, core, counts
<1>4. ASSUME TransportInv, OrderInv, Next PROVE OrderInv'
  <2>1. CASE \/ \E c \in Centrals : Connect(c) \/ Depart(c) \/ ReadValue(c)
             \/ Restart \/ (\E w \in Watchers : Release(w)) \/ Advertise(TRUE) \/ Advertise(FALSE)
             \/ \E w \in Watchers, c \in Centrals : Signal(w, c)
             \/ Supervise \/ Decide \/ Forget \/ CoolDown
             \/ \E r \in Runners : Check(r) \/ Registered(r) \/ RegisterFailed(r)
    <3>1. TransportInv' /\ UNCHANGED <<core, writes, sent, overtakes>>
      BY <1>4, <2>1, AroundKeeps
    <3> QED
      BY <1>2, <1>4, <3>1 DEF core
  <2>2. CASE StartNotify \/ (\E n \in 1 .. nextLink - 1 : CommandDrop(n)) \/ \E r \in Runners : Drop(r)
    BY <1>2, <1>4, <2>2, RetiringKeeps
  <2>3. ASSUME NEW i \in 1 .. Len(writes), RetireHolder(i) PROVE OrderInv'
    BY <1>4, <2>3, RetireKeeps, QuietKeeps
  <2> QED
    BY <1>4, <2>1, <2>2, <2>3, WriteOrder, RefusedOrder, PlacedOrder DEF Next, WriteStep, Runner
<1>5. TransportInv /\ TransportInv' /\ OrderInv /\ [Next]_vars => OrderInv'
  BY <1>3, <1>4
<1>6. OrderInv => WholeMessages
  BY DEF OrderInv, WholeMessages
<1> QED
  BY TransportHolds, <1>1, <1>5, <1>6, PTL DEF Spec
=============================================================================
