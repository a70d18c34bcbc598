---------------------------- MODULE ShareProofs -----------------------------
(***************************************************************************)
(* Proofs about Share for every set of transfers, any number of accepts and *)
(* of names, and whatever files are there before.                          *)
(***************************************************************************)
EXTENDS Share, TLAPS

USE ShareAssumption, QuittersAssumption

-----------------------------------------------------------------------------
(* What is on its way. *)

Has(s, x) == \E i \in 1 .. Len(s) : s[i] = x
Once(s, x) == \A i, j \in 1 .. Len(s) : s[i] = x /\ s[j] = x => i = j

(* One more at the end of a queue.                                         *)
LEMMA AppendHas ==
  ASSUME NEW T, NEW s \in Seq(T), NEW y \in T
  PROVE  /\ Append(s, y) \in Seq(T) /\ Append(s, y) # <<>>
         /\ \A x : Has(Append(s, y), x) <=> Has(s, x) \/ x = y
         /\ \A x : Once(s, x) /\ (x # y \/ ~Has(s, x)) => Once(Append(s, y), x)
<1>1. /\ Len(Append(s, y)) = Len(s) + 1 /\ Len(s) \in Nat
      /\ \A i \in 1 .. Len(s) : Append(s, y)[i] = s[i]
      /\ Append(s, y)[Len(s) + 1] = y
      /\ Append(s, y) \in Seq(T) /\ Append(s, y) # <<>>
  OBVIOUS
<1>2. \A i \in 1 .. Len(s) + 1 : i \in 1 .. Len(s) \/ i = Len(s) + 1
  BY <1>1
<1> QED
  BY <1>1, <1>2 DEF Has, Once

(* The first of a queue is taken.                                          *)
LEMMA TailHas ==
  ASSUME NEW T, NEW s \in Seq(T), s # <<>>
  PROVE  /\ Tail(s) \in Seq(T) /\ Head(s) \in T /\ Has(s, Head(s))
         /\ \A x : Has(Tail(s), x) => Has(s, x)
         /\ \A x : Once(s, x) => Once(Tail(s), x)
         /\ Once(s, Head(s)) => ~Has(Tail(s), Head(s))
<1>1. /\ Len(Tail(s)) = Len(s) - 1 /\ Len(s) \in Nat /\ Len(s) >= 1
      /\ \A i \in 1 .. Len(s) - 1 : Tail(s)[i] = s[i + 1]
      /\ Head(s) = s[1] /\ Tail(s) \in Seq(T) /\ Head(s) \in T
  OBVIOUS
<1>2. Has(s, Head(s))
  BY <1>1 DEF Has
<1>3. ASSUME NEW x, Has(Tail(s), x) PROVE Has(s, x)
  <2>1. PICK i \in 1 .. Len(s) - 1 : Tail(s)[i] = x
    BY <1>1, <1>3 DEF Has
  <2> QED
    BY <1>1, <2>1, i + 1 \in 1 .. Len(s) DEF Has
<1>4. ASSUME NEW x, Once(s, x) PROVE Once(Tail(s), x)
  <2> SUFFICES ASSUME NEW i \in 1 .. Len(s) - 1, NEW j \in 1 .. Len(s) - 1,
                      Tail(s)[i] = x, Tail(s)[j] = x
               PROVE  i = j
    BY <1>1 DEF Once
  <2>1. i + 1 \in 1 .. Len(s) /\ j + 1 \in 1 .. Len(s) /\ s[i + 1] = x /\ s[j + 1] = x
    BY <1>1
  <2>2. i + 1 = j + 1
    BY <1>4, <2>1 DEF Once
  <2> QED
    BY <2>2
<1>5. ASSUME Once(s, Head(s)), Has(Tail(s), Head(s)) PROVE FALSE
  <2>1. PICK i \in 1 .. Len(s) - 1 : Tail(s)[i] = Head(s)
    BY <1>1, <1>5 DEF Has
  <2>2. i + 1 \in 1 .. Len(s) /\ 1 \in 1 .. Len(s) /\ s[i + 1] = Head(s) /\ s[1] = Head(s)
    BY <1>1, <2>1
  <2>3. i + 1 = 1
    BY <1>5, <2>2 DEF Once
  <2> QED
    BY <2>3
<1> QED
  BY <1>1, <1>2, <1>3, <1>4, <1>5

LEMMA EmptyHas == \A x : ~Has(<<>>, x) /\ Once(<<>>, x)
  BY DEF Has, Once

Offered(t) == Note("offer", t, 0, TRUE)
Address(t, k) == Note("accept", t, k, TRUE)
Ended(t, ok) == Note("finished", t, 0, ok)

Pressed(t) == Note("accept", t, 0, TRUE)
Ready(t, k) == Note("listening", t, k, TRUE)
Began(t) == Note("started", t, 0, TRUE)

-----------------------------------------------------------------------------
(* Types.  A message is only on its way to an end with a session, and a     *)
(* task knows the name and the connection it reads.                        *)

\* A name without ".part": TempBeside of it is a name of the directory too.
Plain == {p \in Paths : p[2] = 0}

GoodEntry(i) == i = NoEntry \/ i.dest \in Plain
GoodTask(r) ==
  /\ r.at \in {"waiting", "reading"} => r.via \in Tasks
  /\ r.at \in {"reading", "placed"} => r.dest \in Plain

Shape ==
  /\ TypeOK
  /\ \A e \in Ends : chan[e] # <<>> => up[e]
  /\ \A t \in Transfers : GoodEntry(incoming[t])
  /\ \A t \in Transfers, k \in Tasks : GoodTask(recv[t][k])

(* The temporary of a name is one of the directory.                        *)
LEMMA TempInPaths == \A p \in Plain : TempBeside(p) \in Paths /\ TempBeside(p) # p
  BY DEF Plain, Paths, TempBeside

LEMMA TasksPositive == 0 \notin Tasks /\ Tasks \subseteq Nat
  BY DEF Tasks

(* Notes are of their types.                                               *)
LEMMA NotesTyped ==
  ASSUME NEW t \in Transfers, NEW ok \in BOOLEAN
  PROVE  /\ Offered(t) \in Message /\ Ended(t, ok) \in Message
         /\ Note("reject", t, 0, ok) \in Message /\ Note("reject", t, 0, ok) \in Event
         /\ Ended(t, ok) \in Event /\ Pressed(t) \in Event /\ Began(t) \in Event
         /\ \A k \in Tasks : Address(t, k) \in Message /\ Ready(t, k) \in Event
  BY DEF Offered, Ended, Address, Pressed, Began, Ready, Note, Notes, Message, Event

(* Notes of two kinds, or of two transfers, are two.                       *)
LEMMA NotesDiffer ==
  /\ \A t, u, a : Offered(u) # Ended(t, a) /\ Offered(u) # Note("reject", t, 0, a)
  /\ \A t, u, k : Offered(u) # Address(t, k)
  /\ \A t, u, j, a : Address(u, j) # Ended(t, a) /\ Address(u, j) # Note("reject", t, 0, a)
  /\ \A t, u, a, b : Ended(u, b) # Note("reject", t, 0, a)
  /\ \A t, u, j, a : Ready(u, j) # Ended(t, a) /\ Ready(u, j) # Note("reject", t, 0, a)
  /\ \A t, u, j : Ready(u, j) # Pressed(t) /\ Ready(u, j) # Began(t)
  /\ \A t, u, a : Pressed(u) # Ended(t, a) /\ Pressed(u) # Note("reject", t, 0, a)
  /\ \A t, u : Pressed(u) # Began(t)
  /\ \A t, u, a : Began(u) # Ended(t, a) /\ Began(u) # Note("reject", t, 0, a)
  /\ \A t, u : Offered(u) = Offered(t) => u = t
  /\ \A t, u, j, k : Address(u, j) = Address(t, k) => u = t /\ j = k
  /\ \A t, u, j, k : Ready(u, j) = Ready(t, k) => u = t /\ j = k
  /\ \A t, u, a, b : Ended(u, b) = Ended(t, a) => u = t /\ b = a
  /\ \A t, u, a, b : Note("reject", u, 0, b) = Note("reject", t, 0, a) => u = t /\ b = a
  /\ \A t, u : Pressed(u) = Pressed(t) => u = t
  /\ \A t, u : Began(u) = Began(t) => u = t
<1>1. \A w, x, c :
        /\ Offered(w).ty = "offer" /\ Offered(w).t = w
        /\ Address(w, x).ty = "accept" /\ Address(w, x).t = w /\ Address(w, x).k = x
        /\ Ended(w, c).ty = "finished" /\ Ended(w, c).t = w /\ Ended(w, c).ok = c
        /\ Note("reject", w, 0, c).ty = "reject" /\ Note("reject", w, 0, c).t = w
        /\ Note("reject", w, 0, c).ok = c
        /\ Ready(w, x).ty = "listening" /\ Ready(w, x).t = w /\ Ready(w, x).k = x
        /\ Pressed(w).ty = "accept" /\ Pressed(w).t = w
        /\ Began(w).ty = "started" /\ Began(w).t = w
  BY DEF Note, Offered, Address, Ended, Ready, Pressed, Began
<1> QED
  BY <1>1

(* What sending does to the queues.                                        *)
LEMMA SendChan ==
  ASSUME Shape, NEW e \in Ends, NEW m \in Message, Send(e, m) \/ UNCHANGED chan
  PROVE  /\ chan' \in [Ends -> Seq(Message)]
         /\ \A d \in Ends : chan'[d] # <<>> => up[d]
         /\ \A d \in Ends : \A x : Has(chan'[d], x) => Has(chan[d], x) \/ (x = m /\ d # e)
         /\ \A d \in Ends : \A x :
              Once(chan[d], x) /\ (x # m \/ d = e \/ ~Has(chan[d], x)) => Once(chan'[d], x)
<1>1. chan \in [Ends -> Seq(Message)] /\ up \in [Ends -> BOOLEAN]
      /\ Other(e) \in Ends /\ Other(e) # e
  BY DEF Shape, TypeOK, Other, Ends, S, R
<1>2. \A d \in Ends : d = e \/ d = Other(e)
  BY DEF Other, Ends, S, R
<1>3. CASE chan' = chan
  BY <1>1, <1>3 DEF Shape
<1>4. CASE up[e] /\ up[Other(e)] /\ Send(e, m)
  <2>1. chan' = [chan EXCEPT ![Other(e)] = Append(@, m)]
    BY <1>4 DEF Send
  <2>2. chan'[e] = chan[e] /\ chan'[Other(e)] = Append(chan[Other(e)], m)
    BY <1>1, <2>1
  <2>3. chan[Other(e)] \in Seq(Message)
    BY <1>1
  <2>4. chan' \in [Ends -> Seq(Message)]
    BY <1>1, <2>1, <2>3, AppendHas
  <2>5. /\ \A x : Has(chan'[Other(e)], x) <=> Has(chan[Other(e)], x) \/ x = m
        /\ \A x : Once(chan[Other(e)], x) /\ (x # m \/ ~Has(chan[Other(e)], x)) =>
                    Once(chan'[Other(e)], x)
    BY <2>2, <2>3, AppendHas
  <2>6. \A d \in Ends : chan'[d] # <<>> => up[d]
    BY <1>2, <1>4
  <2>7. \A d \in Ends : \A x : Has(chan'[d], x) => Has(chan[d], x) \/ (x = m /\ d # e)
    BY <1>1, <1>2, <2>2, <2>5
  <2>8. \A d \in Ends : \A x :
          Once(chan[d], x) /\ (x # m \/ d = e \/ ~Has(chan[d], x)) => Once(chan'[d], x)
    BY <1>1, <1>2, <2>2, <2>5
  <2> QED
    BY <2>4, <2>6, <2>7, <2>8
<1> QED
  BY <1>3, <1>4 DEF Send

(* What taking a message does.                                             *)
LEMMA TakeChan ==
  ASSUME Shape, NEW e \in Ends, NEW m, TakeMessage(e, m)
  PROVE  /\ chan' \in [Ends -> Seq(Message)] /\ m \in Message
         /\ up[e] /\ \A d \in Ends : chan'[d] # <<>> => up[d]
         /\ Has(chan[e], m)
         /\ \A d \in Ends : \A x : Has(chan'[d], x) => Has(chan[d], x)
         /\ \A d \in Ends : \A x : Once(chan[d], x) => Once(chan'[d], x)
         /\ Once(chan[e], m) => ~Has(chan'[e], m)
<1>1. chan \in [Ends -> Seq(Message)]
  BY DEF Shape, TypeOK
<1>2. chan[e] \in Seq(Message) /\ chan[e] # <<>> /\ Head(chan[e]) = m
  BY <1>1 DEF TakeMessage
<1>3. chan' = [chan EXCEPT ![e] = Tail(chan[e])]
  BY DEF TakeMessage
<1>4. chan'[e] = Tail(chan[e]) /\ \A d \in Ends : d # e => chan'[d] = chan[d]
  BY <1>1, <1>3
<1>5. Tail(chan[e]) \in Seq(Message) /\ m \in Message
  BY <1>2, TailHas
<1>6. chan' \in [Ends -> Seq(Message)]
  BY <1>1, <1>3, <1>5
<1>7. up[e] /\ \A d \in Ends : chan'[d] # <<>> => up[d]
  BY <1>2, <1>4 DEF Shape
<1> QED
  BY <1>2, <1>4, <1>5, <1>6, <1>7, TailHas

(* The same of the events of the host.                                     *)
LEMMA TakeEvents ==
  ASSUME Shape, NEW e \in Ends, NEW ev, TakeEvent(e, ev)
  PROVE  /\ events' \in [Ends -> Seq(Event)] /\ ev \in Event
         /\ Has(events[e], ev)
         /\ \A d \in Ends : \A x : Has(events'[d], x) => Has(events[d], x)
         /\ \A d \in Ends : \A x : Once(events[d], x) => Once(events'[d], x)
         /\ Once(events[e], ev) => ~Has(events'[e], ev)
<1>1. events \in [Ends -> Seq(Event)]
  BY DEF Shape, TypeOK
<1>2. events[e] \in Seq(Event) /\ events[e] # <<>> /\ Head(events[e]) = ev
  BY <1>1 DEF TakeEvent
<1>3. events' = [events EXCEPT ![e] = Tail(events[e])]
  BY DEF TakeEvent
<1>4. events'[e] = Tail(events[e]) /\ \A d \in Ends : d # e => events'[d] = events[d]
  BY <1>1, <1>3
<1>5. Tail(events[e]) \in Seq(Event) /\ ev \in Event
  BY <1>2, TailHas
<1>6. events' \in [Ends -> Seq(Event)]
  BY <1>1, <1>3, <1>5
<1> QED
  BY <1>2, <1>4, <1>5, <1>6, TailHas

LEMMA PostEvents ==
  ASSUME Shape, NEW e \in Ends, NEW ev \in Event, Post(e, ev)
  PROVE  /\ events' \in [Ends -> Seq(Event)]
         /\ \A d \in Ends : \A x : Has(events'[d], x) <=> Has(events[d], x) \/ (x = ev /\ d = e)
         /\ \A d \in Ends : \A x :
              Once(events[d], x) /\ (x # ev \/ d # e \/ ~Has(events[d], x)) => Once(events'[d], x)
<1>1. events \in [Ends -> Seq(Event)]
  BY DEF Shape, TypeOK
<1>2. events' = [events EXCEPT ![e] = Append(events[e], ev)]
  BY DEF Post
<1>3. events'[e] = Append(events[e], ev) /\ \A d \in Ends : d # e => events'[d] = events[d]
  BY <1>1, <1>2
<1>4. events[e] \in Seq(Event)
  BY <1>1
<1>5. events' \in [Ends -> Seq(Event)]
  BY <1>1, <1>2, <1>4, AppendHas
<1>6. /\ \A x : Has(events'[e], x) <=> Has(events[e], x) \/ x = ev
      /\ \A x : Once(events[e], x) /\ (x # ev \/ ~Has(events[e], x)) => Once(events'[e], x)
  BY <1>3, <1>4, AppendHas
<1>7. \A d \in Ends : \A x : Has(events'[d], x) <=> Has(events[d], x) \/ (x = ev /\ d = e)
  BY <1>3, <1>6
<1>8. \A d \in Ends : \A x :
        Once(events[d], x) /\ (x # ev \/ d # e \/ ~Has(events[d], x)) => Once(events'[d], x)
  BY <1>3, <1>6
<1> QED
  BY <1>5, <1>7, <1>8

LEMMA EndsAre == S \in Ends /\ R \in Ends /\ S # R /\ \A e \in Ends : e = S \/ e = R
  BY DEF Ends, S, R

LEMMA InitShape == Init => Shape
<1> SUFFICES ASSUME Init PROVE Shape
  OBVIOUS
<1>1. Task("none", 0, NoPath) \in RecvTask /\ GoodTask(Task("none", 0, NoPath))
  BY DEF Task, RecvTask, GoodTask
<1>2. NoEntry \in Entry /\ GoodEntry(NoEntry)
  BY DEF NoEntry, Entry, GoodEntry
<1>3. disk \in [Paths -> Contents]
  BY DEF Init, Contents, NoFile, KeptFile
<1>4. 0 \in 0 .. MaxAccepts
  OBVIOUS
<1>5. /\ recv \in [Transfers -> [Tasks -> RecvTask]]
      /\ \A t \in Transfers, k \in Tasks : GoodTask(recv[t][k])
      /\ incoming \in [Transfers -> Entry]
      /\ \A t \in Transfers : GoodEntry(incoming[t])
  BY <1>1, <1>2 DEF Init
<1>6. /\ chan \in [Ends -> Seq(Message)] /\ events \in [Ends -> Seq(Event)]
      /\ \A e \in Ends : chan[e] = <<>>
      /\ told \in [Ends -> [Transfers -> Seq(BOOLEAN)]]
  BY DEF Init
<1>7. pressed \in [Transfers -> 0 .. MaxAccepts]
  BY <1>4 DEF Init
<1> QED
  BY <1>3, <1>5, <1>6, <1>7, EndsAre DEF Init, Shape, TypeOK

(* One receiving task changes.                                             *)
LEMMA OneTask ==
  ASSUME Shape, NEW t \in Transfers, NEW k \in Tasks, NEW r \in RecvTask, GoodTask(r),
         recv' = [recv EXCEPT ![t][k] = r]
  PROVE  /\ recv' \in [Transfers -> [Tasks -> RecvTask]]
         /\ \A u \in Transfers, j \in Tasks : GoodTask(recv'[u][j])
         /\ recv'[t][k] = r
         /\ \A u \in Transfers, j \in Tasks : (u # t \/ j # k) => recv'[u][j] = recv[u][j]
<1>1. recv \in [Transfers -> [Tasks -> RecvTask]]
  BY DEF Shape, TypeOK
<1>2. recv' = [recv EXCEPT ![t] = [recv[t] EXCEPT ![k] = r]]
  OBVIOUS
<1>3. recv[t] \in [Tasks -> RecvTask]
  BY <1>1
<1>4. [recv[t] EXCEPT ![k] = r] \in [Tasks -> RecvTask]
  BY <1>3
<1>5. recv' \in [Transfers -> [Tasks -> RecvTask]]
  BY <1>1, <1>2, <1>4
<1>6. /\ recv'[t][k] = r
      /\ \A u \in Transfers, j \in Tasks : (u # t \/ j # k) => recv'[u][j] = recv[u][j]
  BY <1>1, <1>2, <1>3
<1> QED
  BY <1>5, <1>6 DEF Shape

(* The tasks a step leaves behind.                                         *)
LEMMA TaskShapes ==
  /\ Over \in RecvTask /\ GoodTask(Over)
  /\ \A at \in {"spawned", "bound", "started"} :
       Task(at, 0, NoPath) \in RecvTask /\ GoodTask(Task(at, 0, NoPath))
  /\ \A v \in Tasks : Task("waiting", v, NoPath) \in RecvTask /\ GoodTask(Task("waiting", v, NoPath))
  /\ \A v \in Tasks, p \in Plain : Task("reading", v, p) \in RecvTask /\ GoodTask(Task("reading", v, p))
  /\ \A p \in Plain : Task("placed", 0, p) \in RecvTask /\ GoodTask(Task("placed", 0, p))
  BY DEF Over, Task, RecvTask, GoodTask, Plain

(* A host that forgets a transfer.                                         *)
LEMMA ForgetFiles ==
  ASSUME Shape, NEW e \in Ends, NEW t \in Transfers, Forget(e, t)
  PROVE  /\ outgoing' \subseteq Transfers /\ offers' \subseteq Transfers
         /\ incoming' \in [Transfers -> Entry]
         /\ \A u \in Transfers : GoodEntry(incoming'[u])
         /\ e = S => incoming' = incoming
<1>1. NoEntry \in Entry /\ GoodEntry(NoEntry)
  BY DEF NoEntry, Entry, GoodEntry
<1>2. incoming \in [Transfers -> Entry] /\ outgoing \subseteq Transfers /\ offers \subseteq Transfers
  BY DEF Shape, TypeOK
<1>3. \A u \in Transfers : GoodEntry(incoming[u])
  BY DEF Shape
<1>4. CASE e = S
  BY <1>2, <1>3, <1>4 DEF Forget
<1>5. CASE e # S
  <2>1. incoming' = [incoming EXCEPT ![t] = NoEntry] /\ UNCHANGED outgoing /\ offers' = offers \ {t}
    BY <1>5 DEF Forget
  <2>2. \A u \in Transfers : incoming'[u] = NoEntry \/ incoming'[u] = incoming[u]
    BY <1>2, <2>1
  <2>3. incoming' \in [Transfers -> Entry]
    BY <1>1, <1>2, <2>1
  <2> QED
    BY <1>1, <1>2, <1>3, <1>5, <2>1, <2>2, <2>3
<1> QED
  BY <1>4, <1>5

(* A sender that hangs up never unsends what it sent.                      *)
LEMMA HangupConn ==
  ASSUME Shape, NEW t \in Transfers, NEW k \in Tasks, Hangup(t, k)
  PROVE  /\ conn' \in [Transfers -> [Tasks -> {"none", "open", "sent", "cut"}]]
         /\ \A u \in Transfers, j \in Tasks :
              /\ conn[u][j] = "sent" => conn'[u][j] = "sent"
              /\ u # t \/ j # k => conn'[u][j] = conn[u][j]
<1>0. PICK how \in {"cut", "sent"} :
        conn' = [conn EXCEPT ![t][k] = IF @ = "open" THEN how ELSE @]
  BY DEF Hangup
<1> DEFINE C == {"none", "open", "sent", "cut"}
           v == IF conn[t][k] = "open" THEN how ELSE conn[t][k]
<1>1. conn \in [Transfers -> [Tasks -> C]]
  BY DEF Shape, TypeOK
<1>2. conn' = [conn EXCEPT ![t] = [conn[t] EXCEPT ![k] = v]]
  BY <1>0
<1>3. conn[t] \in [Tasks -> C] /\ conn[t][k] \in C
  BY <1>1
<1>4. v \in C /\ (conn[t][k] = "sent" => v = "sent")
  BY <1>3
<1> HIDE DEF v
<1>5. [conn[t] EXCEPT ![k] = v] \in [Tasks -> C]
  BY <1>3, <1>4
<1>6. conn' \in [Transfers -> [Tasks -> C]]
  BY <1>1, <1>2, <1>5
<1>7. conn'[t][k] = v
      /\ \A u \in Transfers, j \in Tasks : (u # t \/ j # k) => conn'[u][j] = conn[u][j]
  BY <1>1, <1>2, <1>3
<1> QED
  BY <1>4, <1>6, <1>7

(* A cancelled transfer: at most the task the runtime holds is ended.       *)
LEMMA BulkCancelShape ==
  ASSUME Shape, NEW e \in Ends, NEW t \in Transfers, BulkCancel(e, t)
  PROVE  /\ running' \in [Ends -> [Transfers -> Tasks \cup {0}]]
         /\ outgoing' \subseteq Transfers /\ offers' \subseteq Transfers
         /\ incoming' \in [Transfers -> Entry]
         /\ \A u \in Transfers : GoodEntry(incoming'[u])
         /\ recv' \in [Transfers -> [Tasks -> RecvTask]]
         /\ \A u \in Transfers, j \in Tasks : GoodTask(recv'[u][j])
         /\ send' \in [Transfers -> [Tasks -> {"none", "spawned", "sending", "over"}]]
         /\ conn' \in [Transfers -> [Tasks -> {"none", "open", "sent", "cut"}]]
         /\ disk' \in [Paths -> Contents]
         /\ \A u \in Transfers, j \in Tasks :
              /\ conn[u][j] = "sent" => conn'[u][j] = "sent"
              /\ conn'[u][j] = "sent" => conn[u][j] = "sent" \/ send'[u][j] = "over"
              /\ recv'[u][j] = IF e = R /\ u = t /\ j = running[e][t] THEN Over ELSE recv[u][j]
              /\ send'[u][j] = IF e = S /\ u = t /\ j = running[e][t] THEN "over" ELSE send[u][j]
         /\ \A d \in Ends, u \in Transfers :
              running'[d][u] = IF d = e /\ u = t THEN 0 ELSE running[d][u]
<1> DEFINE k == running[e][t]
<1>1. /\ running \in [Ends -> [Transfers -> Tasks \cup {0}]]
      /\ recv \in [Transfers -> [Tasks -> RecvTask]]
      /\ send \in [Transfers -> [Tasks -> {"none", "spawned", "sending", "over"}]]
      /\ conn \in [Transfers -> [Tasks -> {"none", "open", "sent", "cut"}]]
      /\ disk \in [Paths -> Contents] /\ k \in Tasks \cup {0}
  BY DEF Shape, TypeOK
<1>2. /\ running' = [running EXCEPT ![e][t] = 0] /\ Forget(e, t)
      /\ recv' = IF e = R /\ k # 0 THEN [recv EXCEPT ![t][k] = Over] ELSE recv
      /\ send' = IF e = S /\ k # 0 THEN [send EXCEPT ![t][k] = "over"] ELSE send
      /\ IF e = S /\ k # 0 THEN Hangup(t, k) ELSE UNCHANGED conn
      /\ disk' = disk
  BY DEF BulkCancel
<1> HIDE DEF k
<1>3. /\ running' \in [Ends -> [Transfers -> Tasks \cup {0}]]
      /\ \A d \in Ends, u \in Transfers : running'[d][u] = IF d = e /\ u = t THEN 0 ELSE running[d][u]
  BY <1>1, <1>2
<1>4. /\ recv' \in [Transfers -> [Tasks -> RecvTask]]
      /\ \A u \in Transfers, j \in Tasks : GoodTask(recv'[u][j])
      /\ \A u \in Transfers, j \in Tasks :
           recv'[u][j] = IF e = R /\ u = t /\ j = k THEN Over ELSE recv[u][j]
  <2>1. CASE e = R /\ k # 0
    BY <1>1, <1>2, <2>1, OneTask, TaskShapes
  <2>2. CASE ~(e = R /\ k # 0)
    BY <1>1, <1>2, <2>2, TasksPositive DEF Shape
  <2> QED
    BY <2>1, <2>2
<1>5. /\ send' \in [Transfers -> [Tasks -> {"none", "spawned", "sending", "over"}]]
      /\ \A u \in Transfers, j \in Tasks :
           send'[u][j] = IF e = S /\ u = t /\ j = k THEN "over" ELSE send[u][j]
  BY <1>1, <1>2, TasksPositive
<1>6. /\ conn' \in [Transfers -> [Tasks -> {"none", "open", "sent", "cut"}]]
      /\ \A u \in Transfers, j \in Tasks :
           /\ conn[u][j] = "sent" => conn'[u][j] = "sent"
           /\ conn'[u][j] = "sent" => conn[u][j] = "sent" \/ send'[u][j] = "over"
  BY <1>1, <1>2, <1>5, HangupConn
<1> QED
  BY <1>1, <1>2, <1>3, <1>4, <1>5, <1>6, ForgetFiles DEF k

(* A host is told of one more ending of one transfer.                      *)
LEMMA TellTold ==
  ASSUME Shape, NEW e \in Ends, NEW t \in Transfers, NEW ok \in BOOLEAN, Tell(e, t, ok)
  PROVE  /\ told' \in [Ends -> [Transfers -> Seq(BOOLEAN)]]
         /\ told'[e][t] = Append(told[e][t], ok)
         /\ \A d \in Ends, u \in Transfers : (d # e \/ u # t) => told'[d][u] = told[d][u]
<1>1. told \in [Ends -> [Transfers -> Seq(BOOLEAN)]]
  BY DEF Shape, TypeOK
<1>2. told[e] \in [Transfers -> Seq(BOOLEAN)] /\ told[e][t] \in Seq(BOOLEAN)
  BY <1>1
<1>3. Append(told[e][t], ok) \in Seq(BOOLEAN)
  BY <1>2
<1>4. told' = [told EXCEPT ![e] = [told[e] EXCEPT ![t] = Append(told[e][t], ok)]]
  BY DEF Tell
<1>5. [told[e] EXCEPT ![t] = Append(told[e][t], ok)] \in [Transfers -> Seq(BOOLEAN)]
  BY <1>2, <1>3
<1> QED
  BY <1>1, <1>2, <1>4, <1>5

(* Entries are taken away from one table.                                  *)
LEMMA DropEntry ==
  ASSUME Shape, NEW e \in Ends, NEW t \in Transfers,
         entry' = entry \/ entry' = [entry EXCEPT ![e] = @ \ {t}]
  PROVE  /\ entry' \in [Ends -> SUBSET Transfers]
         /\ \A d \in Ends : entry'[d] \subseteq entry[d]
         /\ entry'[R] # {} => up[R]
<1>1. entry \in [Ends -> SUBSET Transfers] /\ (entry[R] # {} => up[R]) /\ R \in Ends
  BY EndsAre DEF Shape, TypeOK
<1>2. CASE entry' = entry
  BY <1>1, <1>2
<1>3. CASE entry' = [entry EXCEPT ![e] = @ \ {t}]
  BY <1>1, <1>3
<1> QED
  BY <1>2, <1>3

(* on_bulk_finished: an entry there still is ends with one report.          *)
LEMMA OnBulkFinishedShape ==
  ASSUME Shape, NEW e \in Ends, NEW t \in Transfers, NEW ok \in BOOLEAN,
         OnBulkFinished(e, t, ok)
  PROVE  /\ chan' \in [Ends -> Seq(Message)]
         /\ \A d \in Ends : chan'[d] # <<>> => up[d]
         /\ entry' \in [Ends -> SUBSET Transfers] /\ \A d \in Ends : entry'[d] \subseteq entry[d]
         /\ entry'[R] # {} => up[R]
         /\ owner' \in [Ends -> SUBSET Transfers]
         /\ wait' \subseteq Transfers
         /\ told' \in [Ends -> [Transfers -> Seq(BOOLEAN)]]
         /\ t \notin entry[e] => told' = told /\ entry' = entry
         /\ t \in entry[e] => \/ told' = told /\ entry' = entry
                              \/ /\ told'[e][t] = Append(told[e][t], ok) /\ t \notin entry'[e]
                                 /\ \A d \in Ends, u \in Transfers :
                                      (d # e \/ u # t) => told'[d][u] = told[d][u]
<1>1. /\ entry \in [Ends -> SUBSET Transfers] /\ owner \in [Ends -> SUBSET Transfers]
      /\ wait \subseteq Transfers /\ chan \in [Ends -> Seq(Message)]
      /\ told \in [Ends -> [Transfers -> Seq(BOOLEAN)]]
  BY DEF Shape, TypeOK
<1>2. owner' \in [Ends -> SUBSET Transfers] /\ wait' \subseteq Transfers
  BY <1>1 DEF OnBulkFinished
<1>3. CASE t \in owner[e] /\ t \in entry[e]
  <2>1. /\ Send(e, Ended(t, ok)) /\ Tell(e, t, ok)
        /\ entry' = [entry EXCEPT ![e] = entry[e] \ {t}]
    BY <1>3 DEF OnBulkFinished, Ended
  <2>3. entry' \in [Ends -> SUBSET Transfers] /\ (\A d \in Ends : entry'[d] \subseteq entry[d])
        /\ t \notin entry'[e] /\ (entry'[R] # {} => up[R])
    BY <1>1, <2>1, DropEntry
  <2>2. Ended(t, ok) \in Message
    BY NotesTyped
  <2>4. chan' \in [Ends -> Seq(Message)] /\ \A d \in Ends : chan'[d] # <<>> => up[d]
    <3> HIDE DEF Ended
    <3> QED
      BY <2>1, <2>2, SendChan
  <2>5. /\ told' \in [Ends -> [Transfers -> Seq(BOOLEAN)]]
        /\ told'[e][t] = Append(told[e][t], ok)
        /\ \A d \in Ends, u \in Transfers : (d # e \/ u # t) => told'[d][u] = told[d][u]
    BY <2>1, TellTold
  <2> QED
    BY <1>2, <1>3, <2>3, <2>4, <2>5
<1>4. CASE ~(t \in owner[e] /\ t \in entry[e])
  BY <1>1, <1>2, <1>4 DEF OnBulkFinished, Shape, TypeOK
<1> QED
  BY <1>3, <1>4

-----------------------------------------------------------------------------
LEMMA SessionShape ==
  ASSUME Shape, Connect \/ \E e \in Ends : Disconnect(e)
  PROVE  Shape'
<1>1. CASE Connect
  <2>1. /\ chan' \in [Ends -> Seq(Message)] /\ (\A e \in Ends : chan'[e] = <<>>)
        /\ up' \in [Ends -> BOOLEAN] /\ up'[R]
    BY <1>1, EndsAre DEF Connect
  <2> QED
    BY <1>1, <2>1 DEF Shape, TypeOK, Connect, files, tasks, people
<1>2. ASSUME NEW e \in Ends, Disconnect(e) PROVE Shape'
  <2>1. /\ chan \in [Ends -> Seq(Message)] /\ entry \in [Ends -> SUBSET Transfers]
        /\ up \in [Ends -> BOOLEAN]
    BY DEF Shape, TypeOK
  <2>2. /\ chan' \in [Ends -> Seq(Message)] /\ entry' \in [Ends -> SUBSET Transfers]
        /\ up' \in [Ends -> BOOLEAN]
        /\ chan'[e] = <<>> /\ entry'[e] = {}
        /\ \A d \in Ends : d # e => chan'[d] = chan[d] /\ entry'[d] = entry[d] /\ up'[d] = up[d]
    BY <1>2, <2>1 DEF Disconnect
  <2> QED
    BY <1>2, <2>2, EndsAre DEF Shape, TypeOK, Disconnect, files, tasks, people
<1> QED
  BY <1>1, <1>2

LEMMA PeopleShape ==
  ASSUME Shape, NEW t \in Transfers, People(t)
  PROVE  Shape'
<1>0. /\ chan \in [Ends -> Seq(Message)] /\ entry \in [Ends -> SUBSET Transfers]
      /\ up \in [Ends -> BOOLEAN] /\ made \subseteq Transfers /\ outgoing \subseteq Transfers
      /\ quit \in [Ends -> SUBSET Transfers] /\ pressed \in [Transfers -> 0 .. MaxAccepts]
  BY DEF Shape, TypeOK
<1>1. CASE Offer(t)
  <2>1. made' \subseteq Transfers /\ outgoing' \subseteq Transfers
    BY <1>0, <1>1 DEF Offer
  <2>2. CASE entry' = [entry EXCEPT ![S] = @ \cup {t}] /\ Send(S, Offered(t)) /\ UNCHANGED told
    <3>1. entry' \in [Ends -> SUBSET Transfers] /\ entry'[R] = entry[R]
      BY <1>0, <2>2, EndsAre
    <3>2. chan' \in [Ends -> Seq(Message)] /\ \A d \in Ends : chan'[d] # <<>> => up[d]
      BY <2>2, SendChan, EndsAre, NotesTyped
    <3> QED
      BY <1>1, <2>1, <2>2, <3>1, <3>2 DEF Shape, TypeOK, Offer, tasks
  <2>3. CASE Tell(S, t, FALSE) /\ UNCHANGED <<entry, chan>>
    <3>1. told' \in [Ends -> [Transfers -> Seq(BOOLEAN)]]
      BY <2>3, TellTold, EndsAre
    <3> QED
      BY <1>1, <2>1, <2>3, <3>1 DEF Shape, TypeOK, Offer, tasks
  <2> QED
    BY <1>1, <2>2, <2>3 DEF Offer, Offered
<1>2. CASE PressAccept(t)
  <2>1. pressed[t] + 1 \in 0 .. MaxAccepts
    BY <1>0, <1>2 DEF PressAccept
  <2>2. pressed' \in [Transfers -> 0 .. MaxAccepts]
    BY <1>0, <1>2, <2>1 DEF PressAccept
  <2>3. events' \in [Ends -> Seq(Event)]
    BY <1>2, PostEvents, NotesTyped, EndsAre DEF PressAccept, Pressed
  <2> QED
    BY <1>2, <2>2, <2>3 DEF Shape, TypeOK, PressAccept, core, files, tasks
<1>3. CASE PressReject(t)
  <2>1. events' \in [Ends -> Seq(Event)]
    BY <1>3, PostEvents, NotesTyped, EndsAre DEF PressReject
  <2>2. Forget(R, t)
    BY <1>3 DEF PressReject
  <2> QED
    BY <1>3, <2>1, <2>2, ForgetFiles, EndsAre
       DEF Shape, TypeOK, PressReject, core, tasks, people
<1>4. ASSUME NEW e \in Ends, Cancel(e, t) PROVE Shape'
  <2>1. quit' \in [Ends -> SUBSET Transfers]
    BY <1>0, <1>4 DEF Cancel
  <2>2. entry' \in [Ends -> SUBSET Transfers] /\ (entry'[R] # {} => up[R])
    BY <1>4, DropEntry DEF Cancel
  <2>3. chan' \in [Ends -> Seq(Message)] /\ \A d \in Ends : chan'[d] # <<>> => up[d]
    <3>1. (\E w \in Transfers : Send(e, Ended(w, FALSE))) \/ UNCHANGED chan
      BY <1>4 DEF Cancel, Ended
    <3> QED
      BY <1>0, <3>1, SendChan, NotesTyped DEF Shape
  <2>4. BulkCancel(e, t) /\ UNCHANGED <<up, owner, wait, told, events, made, pressed>>
    BY <1>4 DEF Cancel
  <2> QED
    BY <2>1, <2>2, <2>3, <2>4, BulkCancelShape DEF Shape, TypeOK
<1> QED
  BY <1>1, <1>2, <1>3, <1>4 DEF People

LEMMA CoreShape ==
  ASSUME Shape, NEW t \in Transfers, Core(t)
  PROVE  Shape'
<1>0. /\ chan \in [Ends -> Seq(Message)] /\ entry \in [Ends -> SUBSET Transfers]
      /\ up \in [Ends -> BOOLEAN] /\ owner \in [Ends -> SUBSET Transfers]
      /\ running \in [Ends -> [Transfers -> Tasks \cup {0}]]
      /\ send \in [Transfers -> [Tasks -> {"none", "spawned", "sending", "over"}]]
      /\ wait \subseteq Transfers /\ offers \subseteq Transfers
  BY DEF Shape, TypeOK
<1>1. CASE OnAccept(t)
  <2>1. events' \in [Ends -> Seq(Event)]
    BY <1>1, TakeEvents, EndsAre DEF OnAccept
  <2>2. CASE UNCHANGED <<owner, wait, running, files, tasks>>
    BY <1>1, <2>1, <2>2 DEF Shape, TypeOK, OnAccept, files, tasks, people
  <2>3. ASSUME NEW k \in Tasks, recv' = [recv EXCEPT ![t][k] = Task("spawned", 0, NoPath)],
               running' = [running EXCEPT ![R][t] = k],
               owner' = [owner EXCEPT ![R] = @ \cup {t}], wait' = wait \cup {t},
               UNCHANGED <<files, send, conn, disk>>
        PROVE  Shape'
    <3>1. owner' \in [Ends -> SUBSET Transfers] /\ wait' \subseteq Transfers
      BY <1>0, <2>3
    <3>2. running' \in [Ends -> [Transfers -> Tasks \cup {0}]]
      BY <1>0, <2>3, EndsAre
    <3>3. /\ recv' \in [Transfers -> [Tasks -> RecvTask]]
          /\ \A u \in Transfers, j \in Tasks : GoodTask(recv'[u][j])
      BY <2>3, OneTask, TaskShapes
    <3> QED
      BY <1>1, <2>1, <2>3, <3>1, <3>2, <3>3 DEF Shape, TypeOK, OnAccept, files, people
  <2>4. CASE BulkCancel(R, t) /\ owner' = [owner EXCEPT ![R] = @ \ {t}] /\ UNCHANGED wait
    <3>1. owner' \in [Ends -> SUBSET Transfers]
      BY <1>0, <2>4
    <3> QED
      BY <1>1, <2>1, <2>4, <3>1, BulkCancelShape, EndsAre DEF Shape, TypeOK, OnAccept, people
  <2> QED
    BY <1>1, <2>2, <2>3, <2>4 DEF OnAccept
<1>2. CASE OnReject(t)
  <2>1. events' \in [Ends -> Seq(Event)]
    BY <1>2, TakeEvents, EndsAre DEF OnReject
  <2>2. entry' \in [Ends -> SUBSET Transfers] /\ (entry'[R] # {} => up[R])
    BY <1>2, DropEntry, EndsAre DEF OnReject
  <2>3. Send(R, Note("reject", t, 0, FALSE)) \/ UNCHANGED chan
    BY <1>2 DEF OnReject
  <2>4. chan' \in [Ends -> Seq(Message)] /\ \A d \in Ends : chan'[d] # <<>> => up[d]
    BY <1>0, <2>3, SendChan, NotesTyped, EndsAre DEF Shape
  <2> QED
    BY <1>2, <2>1, <2>2, <2>4, EndsAre DEF Shape, TypeOK, OnReject, files, tasks, people
<1>3. CASE OnOffer(t)
  <2>1. chan' \in [Ends -> Seq(Message)] /\ up[R] /\ \A d \in Ends : chan'[d] # <<>> => up[d]
    BY <1>3, TakeChan, EndsAre DEF OnOffer
  <2>2. entry' \in [Ends -> SUBSET Transfers] /\ offers' \subseteq Transfers
    BY <1>0, <1>3 DEF OnOffer
  <2> QED
    BY <1>3, <2>1, <2>2 DEF Shape, TypeOK, OnOffer, tasks, people
<1>4. CASE OnStarted(t)
  <2>1. events' \in [Ends -> Seq(Event)] /\ wait' \subseteq Transfers
    BY <1>0, <1>4, TakeEvents, EndsAre DEF OnStarted
  <2> QED
    BY <1>4, <2>1 DEF Shape, TypeOK, OnStarted, files, tasks, people
<1>5. CASE GiveUp(t)
  <2>1. BulkCancel(R, t) /\ OnBulkFinished(R, t, FALSE) /\ UNCHANGED <<up, events, people>>
    BY <1>5 DEF GiveUp
  <2> QED
    BY <2>1, BulkCancelShape, OnBulkFinishedShape, EndsAre DEF Shape, TypeOK, people
<1>6. ASSUME NEW e \in Ends, NEW ok \in BOOLEAN, OnFinished(e, t, ok) PROVE Shape'
  <2>1. OnBulkFinished(e, t, ok) /\ events' \in [Ends -> Seq(Event)]
        /\ UNCHANGED <<up, files, tasks, people>>
    BY <1>6, TakeEvents DEF OnFinished
  <2>2. running' \in [Ends -> [Transfers -> Tasks \cup {0}]]
    BY <1>0, <1>6 DEF OnFinished
  <2> QED
    BY <2>1, <2>2, OnBulkFinishedShape, SMTT(30) DEF Shape, TypeOK, files, tasks, people
<1>7. ASSUME NEW e \in Ends, NEW ok \in BOOLEAN, NEW ty, OnEnding(e, Note(ty, t, 0, ok))
      PROVE  Shape'
  <2> DEFINE m == Note(ty, t, 0, ok)
  <2>0. m.t = t /\ m.ok = ok
    BY DEF Note
  <2>1. chan' \in [Ends -> Seq(Message)] /\ \A d \in Ends : chan'[d] # <<>> => up[d]
    BY <1>7, TakeChan DEF OnEnding
  <2>2. entry' \in [Ends -> SUBSET Transfers] /\ (entry'[R] # {} => up[R])
    <3>1. entry' = entry \/ entry' = [entry EXCEPT ![e] = @ \ {t}]
      BY <1>7, <2>0 DEF OnEnding
    <3> QED
      BY <3>1, DropEntry
  <2>3. Tell(e, t, ok) \/ UNCHANGED told
    BY <1>7, <2>0 DEF OnEnding
  <2>4. told' \in [Ends -> [Transfers -> Seq(BOOLEAN)]]
    BY <2>3, TellTold DEF Shape, TypeOK
  <2> QED
    BY <1>7, <2>1, <2>2, <2>4, EndsAre DEF Shape, TypeOK, OnEnding, files, tasks, people
<1>8. ASSUME NEW k \in Tasks, OnAccepted(t, k) PROVE Shape'
  <2>1. chan' \in [Ends -> Seq(Message)] /\ \A d \in Ends : chan'[d] # <<>> => up[d]
    BY <1>8, TakeChan, EndsAre DEF OnAccepted
  <2>2. CASE UNCHANGED <<owner, running, files, tasks>>
    BY <1>8, <2>1, <2>2 DEF Shape, TypeOK, OnAccepted, files, tasks, people
  <2>3. CASE /\ owner' = [owner EXCEPT ![S] = @ \cup {t}]
             /\ send' = [send EXCEPT ![t][k] = "spawned"]
             /\ running' = [running EXCEPT ![S][t] = k]
             /\ UNCHANGED <<files, recv, conn, disk>>
    <3>1. owner' \in [Ends -> SUBSET Transfers]
      BY <1>0, <2>3
    <3>2. running' \in [Ends -> [Transfers -> Tasks \cup {0}]]
      BY <1>0, <2>3, EndsAre
    <3>3. send' \in [Transfers -> [Tasks -> {"none", "spawned", "sending", "over"}]]
      BY <1>0, <2>3
    <3> QED
      BY <1>8, <2>1, <2>3, <3>1, <3>2, <3>3 DEF Shape, TypeOK, OnAccepted, files, people
  <2>4. CASE BulkCancel(S, t) /\ owner' = [owner EXCEPT ![S] = @ \ {t}]
    <3>1. owner' \in [Ends -> SUBSET Transfers]
      BY <1>0, <2>4
    <3> QED
      BY <1>8, <2>1, <2>4, <3>1, BulkCancelShape, EndsAre DEF Shape, TypeOK, OnAccepted, people
  <2> QED
    BY <1>8, <2>2, <2>3, <2>4 DEF OnAccepted
<1>9. ASSUME NEW k \in Tasks, OnListening(t, k) PROVE Shape'
  <2>1. events' \in [Ends -> Seq(Event)]
    BY <1>9, TakeEvents, EndsAre DEF OnListening
  <2>2. Send(R, Address(t, k)) \/ UNCHANGED chan
    BY <1>9 DEF OnListening, Address
  <2>3. chan' \in [Ends -> Seq(Message)] /\ \A d \in Ends : chan'[d] # <<>> => up[d]
    BY <1>0, <2>2, SendChan, NotesTyped, EndsAre DEF Shape
  <2> QED
    BY <1>9, <2>1, <2>3 DEF Shape, TypeOK, OnListening, files, tasks, people
<1> QED
  BY <1>1, <1>2, <1>3, <1>4, <1>5, <1>6, <1>7, <1>8, <1>9 DEF Core

(* A receiving task that ends.                                             *)
LEMMA EndTaskShape ==
  ASSUME Shape, NEW t \in Transfers, NEW k \in Tasks, NEW ok \in BOOLEAN, EndTask(t, k, ok)
  PROVE  /\ recv' \in [Transfers -> [Tasks -> RecvTask]]
         /\ \A u \in Transfers, j \in Tasks : GoodTask(recv'[u][j])
         /\ recv'[t][k] = Over
         /\ \A u \in Transfers, j \in Tasks : (u # t \/ j # k) => recv'[u][j] = recv[u][j]
         /\ events' \in [Ends -> Seq(Event)]
         /\ \A d \in Ends : \A x : Has(events'[d], x) <=> Has(events[d], x) \/ (x = Ended(t, ok) /\ d = R)
         /\ \A d \in Ends : \A x : Once(events[d], x) /\ x # Ended(t, ok) => Once(events'[d], x)
<1>1. recv' = [recv EXCEPT ![t][k] = Over] /\ Post(R, Ended(t, ok))
  BY DEF EndTask, Ended
<1>2. Ended(t, ok) \in Event /\ R \in Ends
  BY NotesTyped, EndsAre
<1>3. /\ events' \in [Ends -> Seq(Event)]
      /\ \A d \in Ends : \A x : Has(events'[d], x) <=> Has(events[d], x) \/ (x = Ended(t, ok) /\ d = R)
      /\ \A d \in Ends : \A x : Once(events[d], x) /\ x # Ended(t, ok) => Once(events'[d], x)
  <2> HIDE DEF Ended
  <2> QED
    BY <1>1, <1>2, PostEvents
<1>4. /\ recv' \in [Transfers -> [Tasks -> RecvTask]]
      /\ \A u \in Transfers, j \in Tasks : GoodTask(recv'[u][j])
      /\ recv'[t][k] = Over
      /\ \A u \in Transfers, j \in Tasks : (u # t \/ j # k) => recv'[u][j] = recv[u][j]
  <2>1. Over \in RecvTask /\ GoodTask(Over) /\ recv' = [recv EXCEPT ![t][k] = Over]
    BY <1>1, TaskShapes
  <2> QED
    BY <2>1, OneTask, ZenonT(60)
<1> QED
  BY <1>3, <1>4

LEMMA FilesTyped ==
  /\ NoFile \in Contents
  /\ \A t \in Transfers, w \in {"reserved", "partial", "whole"} : File(t, w) \in Contents
  BY DEF NoFile, Contents, File

LEMMA ReceivingShape ==
  ASSUME Shape, NEW t \in Transfers, NEW k \in Tasks, Receiving(t, k)
  PROVE  Shape'
<1> DEFINE i == incoming[t]
           r == recv[t][k]
           EntryTyped(n) == /\ n \in [Transfers -> Entry]
                            /\ \A u \in Transfers : GoodEntry(n[u])
<1>0. /\ incoming \in [Transfers -> Entry] /\ i \in Entry /\ GoodEntry(i)
      /\ \A u \in Transfers : GoodEntry(incoming[u])
      /\ disk \in [Paths -> Contents]
      /\ r \in RecvTask /\ GoodTask(r)
      /\ r.via \in Tasks \cup {0}
  BY DEF Shape, TypeOK, RecvTask
<1>e. ASSUME NEW n \in Entry, GoodEntry(n), incoming' = [incoming EXCEPT ![t] = n]
      PROVE  EntryTyped(incoming')
  <2>1. \A u \in Transfers : incoming'[u] = n \/ incoming'[u] = incoming[u]
    BY <1>0, <1>e
  <2>2. incoming' \in [Transfers -> Entry]
    BY <1>0, <1>e
  <2> QED
    BY <1>0, <1>e, <2>1, <2>2
<1>1. CASE Listen(t, k)
  <2>1. PICK p \in FreePath :
          /\ Reserve(t, p)
          /\ incoming' = [incoming EXCEPT ![t] = [dest |-> p, listening |-> k, connected |-> 0]]
    BY <1>1 DEF Listen
  <2>2. p \in Plain
    BY DEF FreePath, Plain
  <2>3. p \in Paths
    BY <2>2 DEF Plain
  <2>4. disk' \in [Paths -> Contents]
    BY <1>0, <2>1, <2>3, FilesTyped DEF Reserve
  <2>5. /\ [dest |-> p, listening |-> k, connected |-> 0] \in Entry
        /\ GoodEntry([dest |-> p, listening |-> k, connected |-> 0])
    BY <2>2, <2>3 DEF Entry, GoodEntry
  <2>6. EntryTyped(incoming')
    BY <2>1, <2>5, <1>e
  <2>7. recv' = [recv EXCEPT ![t][k] = Task("bound", 0, NoPath)] /\ Post(R, Ready(t, k))
    BY <1>1 DEF Listen, Ready
  <2>8. events' \in [Ends -> Seq(Event)]
    BY <2>7, PostEvents, NotesTyped, EndsAre
  <2>9. /\ recv' \in [Transfers -> [Tasks -> RecvTask]]
        /\ \A u \in Transfers, j \in Tasks : GoodTask(recv'[u][j])
    BY <2>7, OneTask, TaskShapes
  <2> QED
    BY <1>1, <2>4, <2>6, <2>8, <2>9 DEF Listen, Shape, TypeOK, core, people
<1>2. CASE ListenFails(t, k)
  <2>1. UNCHANGED disk \/ \E p \in FreePath : Reserve(t, p)
    BY <1>2 DEF ListenFails
  <2>2. disk' \in [Paths -> Contents]
    BY <1>0, <2>1, FilesTyped DEF Reserve, FreePath
  <2>3. EndTask(t, k, FALSE) /\ UNCHANGED <<core, running, files, send, conn, people>>
    BY <1>2 DEF ListenFails
  <2> QED
    BY <2>2, <2>3, EndTaskShape DEF Shape, TypeOK, core, files, people
<1>3. CASE TakeListener(t, k)
  <2>0. UNCHANGED <<core, running, outgoing, offers, send, conn, disk, people>>
    BY <1>3 DEF TakeListener
  <2>1. CASE i.listening # 0
    <3>1. /\ recv' = [recv EXCEPT ![t][k] = Task("waiting", i.listening, NoPath)]
          /\ incoming' = [incoming EXCEPT ![t] = [i EXCEPT !.listening = 0]]
          /\ UNCHANGED events
      BY <1>3, <2>1 DEF TakeListener
    <3>2. i.listening \in Tasks
      BY <1>0, <2>1 DEF Entry
    <3>3. [i EXCEPT !.listening = 0] \in Entry
      BY <1>0 DEF Entry
    <3>4. GoodEntry([i EXCEPT !.listening = 0])
      BY <1>0, <2>1 DEF Entry, GoodEntry, NoEntry
    <3>5. EntryTyped(incoming')
      BY <3>1, <3>3, <3>4, <1>e
    <3>6. /\ recv' \in [Transfers -> [Tasks -> RecvTask]]
          /\ \A u \in Transfers, j \in Tasks : GoodTask(recv'[u][j])
      BY <3>1, <3>2, OneTask, TaskShapes
    <3> QED
      BY <2>0, <3>1, <3>5, <3>6 DEF Shape, TypeOK, core, people
  <2>2. CASE EndTask(t, k, FALSE) /\ UNCHANGED incoming
    BY <2>0, <2>2, EndTaskShape DEF Shape, TypeOK, core, people
  <2> QED
    BY <1>3, <2>1, <2>2 DEF TakeListener
<1>4. CASE Accept(t, k)
  <2>0. UNCHANGED <<core, running, outgoing, offers, send, conn, disk, people>>
        /\ r.via \in Tasks
    BY <1>0, <1>4 DEF Accept, GoodTask
  <2>1. CASE i # NoEntry
    <3>1. /\ recv' = [recv EXCEPT ![t][k] = Task("started", 0, NoPath)]
          /\ incoming' = [incoming EXCEPT ![t] = [i EXCEPT !.connected = r.via]]
          /\ Post(R, Began(t))
      BY <1>4, <2>1 DEF Accept, Began
    <3>3. [i EXCEPT !.connected = r.via] \in Entry
      BY <1>0, <2>0 DEF Entry
    <3>4. GoodEntry([i EXCEPT !.connected = r.via])
      BY <1>0, <2>1 DEF Entry, GoodEntry, NoEntry
    <3>5. EntryTyped(incoming')
      BY <3>1, <3>3, <3>4, <1>e
    <3>6. /\ recv' \in [Transfers -> [Tasks -> RecvTask]]
          /\ \A u \in Transfers, j \in Tasks : GoodTask(recv'[u][j])
      BY <3>1, OneTask, TaskShapes
    <3>7. events' \in [Ends -> Seq(Event)]
      BY <3>1, PostEvents, NotesTyped, EndsAre
    <3> QED
      BY <2>0, <3>5, <3>6, <3>7 DEF Shape, TypeOK, core, people
  <2>2. CASE EndTask(t, k, FALSE) /\ UNCHANGED incoming
    BY <2>0, <2>2, EndTaskShape DEF Shape, TypeOK, core, people
  <2> QED
    BY <1>4, <2>1, <2>2 DEF Accept
<1>5. CASE AcceptFails(t, k)
  <2>1. EndTask(t, k, FALSE) /\ UNCHANGED <<core, running, files, send, conn, disk, people>>
    BY <1>5 DEF AcceptFails
  <2> QED
    BY <2>1, EndTaskShape DEF Shape, TypeOK, core, files, people
<1>6. CASE Read(t, k)
  <2>0. UNCHANGED <<core, running, outgoing, offers, send, conn, people>>
    BY <1>6 DEF Read
  <2>1. CASE i.connected # 0
    <3>1. /\ recv' = [recv EXCEPT ![t][k] = Task("reading", i.connected, i.dest)]
          /\ incoming' = [incoming EXCEPT ![t] = [i EXCEPT !.connected = 0]]
          /\ disk' = [disk EXCEPT ![TempBeside(i.dest)] = File(t, "partial")]
          /\ UNCHANGED events
      BY <1>6, <2>1 DEF Read
    <3>2. i.connected \in Tasks /\ i.dest \in Plain
      BY <1>0, <2>1 DEF Entry, GoodEntry, NoEntry
    <3>3. [i EXCEPT !.connected = 0] \in Entry
      BY <1>0 DEF Entry
    <3>4. GoodEntry([i EXCEPT !.connected = 0])
      BY <1>0, <3>2 DEF Entry, GoodEntry
    <3>5. EntryTyped(incoming')
      BY <3>1, <3>3, <3>4, <1>e
    <3>6. /\ recv' \in [Transfers -> [Tasks -> RecvTask]]
          /\ \A u \in Transfers, j \in Tasks : GoodTask(recv'[u][j])
      BY <3>1, <3>2, OneTask, TaskShapes
    <3>7. disk' \in [Paths -> Contents]
      BY <1>0, <3>1, FilesTyped
    <3> QED
      BY <2>0, <3>1, <3>5, <3>6, <3>7 DEF Shape, TypeOK, core, people
  <2>2. CASE EndTask(t, k, FALSE) /\ UNCHANGED <<incoming, disk>>
    BY <2>0, <2>2, EndTaskShape DEF Shape, TypeOK, core, people
  <2> QED
    BY <1>6, <2>1, <2>2 DEF Read
<1>7. CASE Place(t, k)
  <2> DEFINE dest == r.dest
             tmp == TempBeside(dest)
  <2>0. PICK c \in {disk[tmp], File(t, "whole")} : disk' = [disk EXCEPT ![tmp] = NoFile, ![dest] = c]
    BY <1>7 DEF Place
  <2>1. /\ disk' = [disk EXCEPT ![tmp] = NoFile, ![dest] = c]
        /\ recv' = [recv EXCEPT ![t][k] = Task("placed", 0, dest)]
        /\ UNCHANGED <<core, running, events, files, send, conn, people>>
        /\ r.at = "reading"
    BY <1>7, <2>0 DEF Place
  <2>2. dest \in Plain /\ tmp \in Paths /\ dest \in Paths
    BY <1>0, <2>1, TempInPaths DEF GoodTask, Plain
  <2>3. c \in Contents
    BY <1>0, <2>2, FilesTyped
  <2> HIDE DEF tmp, dest
  <2>4. disk' \in [Paths -> Contents]
    BY <1>0, <2>1, <2>2, <2>3, FilesTyped
  <2>5. /\ recv' \in [Transfers -> [Tasks -> RecvTask]]
        /\ \A u \in Transfers, j \in Tasks : GoodTask(recv'[u][j])
    BY <2>1, <2>2, OneTask, TaskShapes
  <2> QED
    BY <2>1, <2>4, <2>5 DEF Shape, TypeOK, core, files, people
<1>8. CASE Placed(t, k)
  <2>1. Forget(R, t) /\ EndTask(t, k, TRUE) /\ UNCHANGED <<core, running, send, conn, disk, people>>
    BY <1>8 DEF Placed
  <2> QED
    BY <2>1, EndTaskShape, ForgetFiles, EndsAre DEF Shape, TypeOK, core, people
<1>9. CASE ReadFails(t, k)
  <2> DEFINE rest == [disk EXCEPT ![TempBeside(r.dest)] = NoFile]
  <2>1. /\ Forget(R, t) /\ EndTask(t, k, FALSE) /\ UNCHANGED <<core, running, send, conn, people>>
        /\ disk' = IF rest[r.dest].is = "reserved" THEN [rest EXCEPT ![r.dest] = NoFile] ELSE rest
    BY <1>9 DEF ReadFails, Unreserve
  <2>2. rest \in [Paths -> Contents]
    BY <1>0, FilesTyped
  <2> HIDE DEF rest
  <2>3. disk' \in [Paths -> Contents]
    BY <2>1, <2>2, FilesTyped
  <2> QED
    BY <2>1, <2>3, EndTaskShape, ForgetFiles, EndsAre DEF Shape, TypeOK, core, people
<1>10. CASE CreateFails(t, k)
  <2>1. /\ Forget(R, t) /\ EndTask(t, k, FALSE) /\ UNCHANGED <<core, running, send, conn, people>>
        /\ disk' = disk \/ disk' = [disk EXCEPT ![i.dest] = NoFile]
    BY <1>10 DEF CreateFails, Unreserve
  <2>2. disk' \in [Paths -> Contents]
    BY <1>0, <2>1, FilesTyped
  <2> QED
    BY <2>1, <2>2, EndTaskShape, ForgetFiles, EndsAre DEF Shape, TypeOK, core, people
<1> QED
  BY <1>1, <1>2, <1>3, <1>4, <1>5, <1>6, <1>7, <1>8, <1>9, <1>10 DEF Receiving

LEMMA SendingShape ==
  ASSUME Shape, NEW t \in Transfers, NEW k \in Tasks, Sending(t, k)
  PROVE  Shape'
<1> DEFINE Sends == [Transfers -> [Tasks -> {"none", "spawned", "sending", "over"}]]
           Conns == [Transfers -> [Tasks -> {"none", "open", "sent", "cut"}]]
<1>0. send \in Sends /\ conn \in Conns
  BY DEF Shape, TypeOK
<1>1. CASE Dial(t, k)
  <2>1. send' \in Sends /\ conn' \in Conns
    BY <1>0, <1>1 DEF Dial
  <2> QED
    BY <1>1, <2>1 DEF Dial, Shape, TypeOK, core, files, people
<1>2. CASE SendDone(t, k)
  <2>1. send' \in Sends /\ conn' \in Conns
    BY <1>0, <1>2 DEF SendDone
  <2>2. Forget(S, t) /\ Post(S, Ended(t, TRUE)) /\ UNCHANGED <<core, running, recv, disk, people>>
    BY <1>2 DEF SendDone, Ended
  <2>3. events' \in [Ends -> Seq(Event)]
    BY <2>2, PostEvents, NotesTyped, EndsAre
  <2> QED
    BY <2>1, <2>2, <2>3, ForgetFiles, EndsAre DEF Shape, TypeOK, core, people
<1>3. CASE SendFails(t, k)
  <2>1. send' \in Sends
    BY <1>0, <1>3 DEF SendFails
  <2>2. /\ Hangup(t, k) /\ Post(S, Ended(t, FALSE)) /\ UNCHANGED <<core, running, recv, disk, people>>
        /\ Forget(S, t) \/ UNCHANGED files
    BY <1>3 DEF SendFails, Ended
  <2>3. events' \in [Ends -> Seq(Event)]
    BY <2>2, PostEvents, NotesTyped, EndsAre
  <2>4. conn' \in Conns
    BY <2>2, HangupConn
  <2>5. CASE Forget(S, t)
    BY <2>1, <2>2, <2>3, <2>4, <2>5, ForgetFiles, EndsAre DEF Shape, TypeOK, core, people
  <2>6. CASE UNCHANGED files
    BY <2>1, <2>2, <2>3, <2>4, <2>6 DEF Shape, TypeOK, core, people, files
  <2> QED
    BY <2>2, <2>5, <2>6
<1> QED
  BY <1>1, <1>2, <1>3 DEF Sending

LEMMA StepShape == Shape /\ [Next]_vars => Shape'
<1>1. ASSUME Shape, Next PROVE Shape'
  BY <1>1, SessionShape, PeopleShape, CoreShape, ReceivingShape, SendingShape DEF Next
<1>2. ASSUME Shape, UNCHANGED vars PROVE Shape'
  BY <1>2 DEF Shape, TypeOK, vars, core, files, tasks, people
<1> QED
  BY <1>1, <1>2

(* Tables hold what their fields can hold, whatever is accepted, cancelled, *)
(* lost or reported late.                                                  *)
THEOREM Typing == Spec => []TypeOK
<1>1. Shape => TypeOK
  BY DEF Shape
<1> QED
  BY <1>1, InitShape, StepShape, PTL DEF Spec

-----------------------------------------------------------------------------
(* Why the properties hold.  EndsOnce needs that an offer arrives before    *)
(* anything ended and only once; SuccessIsReal that whatever announces a    *)
(* success, on its way or at rest, comes after the last byte, and that a    *)
(* listener's address is dialled once, or a second dial would unsend it;    *)
(* ListenerIsTimed that what stops the clock comes from the one task there. *)

\* Transfer t has ended at most once, and while it is listed, not yet.
EndsAt(t) ==
  /\ \A e \in Ends : Len(told[e][t]) <= 1
  /\ \A e \in Ends : t \in entry[e] => told[e][t] = <<>>
  /\ t \notin made => ~Has(chan[R], Offered(t)) /\ \A e \in Ends : t \notin entry[e] /\ told[e][t] = <<>>
  /\ Has(chan[R], Offered(t)) => t \notin entry[R] /\ told[R][t] = <<>>
  /\ Once(chan[R], Offered(t))

EndsInv == \A t \in Transfers : EndsAt(t)

\* The address of the k-th listener for t is still on its way.
Underway(t, k) == Has(events[R], Ready(t, k)) \/ Has(chan[S], Address(t, k))

\* It travels once, before anybody has dialled; who has sent has ended.
DialledOnce(t, k) ==
  /\ Once(events[R], Ready(t, k)) /\ Once(chan[S], Address(t, k))
  /\ ~(Has(events[R], Ready(t, k)) /\ Has(chan[S], Address(t, k)))
  /\ Underway(t, k) => send[t][k] = "none" /\ recv[t][k].at \notin {"none", "spawned"}
  /\ recv[t][k].at \in {"none", "spawned"} => send[t][k] = "none"
  /\ running[S][t] = k => send[t][k] # "none"
  /\ conn[t][k] = "sent" => send[t][k] = "over"

DialInv == \A t \in Transfers, k \in Tasks : DialledOnce(t, k)

Success(t) == Ended(t, TRUE)
Welcome(t) == Note("reject", t, 0, TRUE)

\* What says that t went across says it after the last byte; no refusal does.
SuccessAt(t) ==
  /\ \A e \in Ends : Has(chan[e], Success(t)) => WasSent(t)
  /\ \A e \in Ends : Has(events[e], Success(t)) => WasSent(t)
  /\ \A e \in Ends : told[e][t] = <<TRUE>> => WasSent(t)
  /\ ~Has(chan[S], Welcome(t))
  /\ \A k \in Tasks : recv[t][k].at = "placed" => WasSent(t)

DiskInv == \A p \in Paths : disk[p].is = "whole" => WasSent(disk[p].of)

SuccessInv == DiskInv /\ \A t \in Transfers : SuccessAt(t)

\* A report that stops the clock of t is on its way.
Stopping(t) == Has(events[R], Began(t)) \/ \E ok \in BOOLEAN : Has(events[R], Ended(t, ok))

\* The clock of t, accepted once at most, runs while its task is unconnected.
TimedAt(t) ==
  /\ pressed[t] = 0 => ~Has(events[R], Pressed(t)) /\ \A k \in Tasks : recv[t][k].at = "none"
  /\ Has(events[R], Pressed(t)) => \A k \in Tasks : recv[t][k].at = "none"
  /\ Once(events[R], Pressed(t))
  /\ \A j, k \in Tasks : recv[t][j].at # "none" /\ recv[t][k].at # "none" => j = k
  /\ Stopping(t) => \E k \in Tasks : recv[t][k].at # "none" /\ ~Unconnected(t, k)
  /\ \A k \in Tasks : Unconnected(t, k) => t \in wait /\ running[R][t] = k

\* The task the runtime holds for t is one that was started.
HeldAt(t) == \A k \in Tasks : running[R][t] = k => recv[t][k].at # "none"

TimedInv == \A t \in Transfers : HeldAt(t) /\ (pressed[t] <= 1 => TimedAt(t))

-----------------------------------------------------------------------------
(* Each end hears of one ending. *)

LEMMA InitEnds == Init => EndsInv
<1> SUFFICES ASSUME Init, NEW t \in Transfers PROVE EndsAt(t)
  BY DEF EndsInv
<1>1. chan[R] = <<>> /\ \A e \in Ends : t \notin entry[e] /\ told[e][t] = <<>>
  BY EndsAre DEF Init
<1> QED
  BY <1>1, EmptyHas DEF EndsAt

(* A step that offers nothing: an ending, if it is one, is of an entry.     *)
LEMMA EndsStep ==
  ASSUME Shape, NEW u \in Transfers, EndsAt(u), made \subseteq made',
         \A e \in Ends : u \in entry'[e] => u \in entry[e],
         \A e \in Ends :
           \/ told'[e][u] = told[e][u]
           \/ /\ u \in entry[e] /\ u \notin entry'[e]
              /\ \E ok \in BOOLEAN : told'[e][u] = Append(told[e][u], ok),
         Has(chan'[R], Offered(u)) => Has(chan[R], Offered(u)),
         Once(chan[R], Offered(u)) => Once(chan'[R], Offered(u))
  PROVE  EndsAt(u)'
<1>1. ASSUME NEW e \in Ends PROVE Len(told'[e][u]) <= 1
  <2>1. CASE told'[e][u] = told[e][u]
    BY <2>1 DEF EndsAt
  <2>2. ASSUME NEW ok \in BOOLEAN, u \in entry[e], told'[e][u] = Append(told[e][u], ok)
        PROVE  Len(told'[e][u]) <= 1
    <3>1. told'[e][u] = Append(<<>>, ok)
      BY <2>2 DEF EndsAt
    <3> QED
      BY <3>1
  <2> QED
    BY <2>1, <2>2
<1>2. \A e \in Ends : u \in entry'[e] => told'[e][u] = <<>>
  BY DEF EndsAt
<1>3. u \notin made' => ~Has(chan'[R], Offered(u))
                        /\ \A e \in Ends : u \notin entry'[e] /\ told'[e][u] = <<>>
  BY DEF EndsAt
<1>4. Has(chan'[R], Offered(u)) => u \notin entry'[R] /\ told'[R][u] = <<>>
  BY EndsAre DEF EndsAt
<1>5. Once(chan'[R], Offered(u))
  BY DEF EndsAt
<1> QED
  BY <1>1, <1>2, <1>3, <1>4, <1>5 DEF EndsAt

(* Steps that touch neither the tables nor what was told.                   *)
LEMMA EndsSame ==
  ASSUME EndsInv, UNCHANGED <<made, entry, told, chan>>
  PROVE  EndsInv'
  BY DEF EndsInv, EndsAt

LEMMA EndsKept ==
  ASSUME Shape, EndsInv, Next
  PROVE  EndsInv'
<1> USE EndsAre
<1>0. ASSUME NEW u \in Transfers PROVE EndsAt(u) /\ Offered(u) \in Message
  BY NotesTyped DEF EndsInv
<1>t. /\ entry \in [Ends -> SUBSET Transfers] /\ made \subseteq Transfers
      /\ told \in [Ends -> [Transfers -> Seq(BOOLEAN)]] /\ chan \in [Ends -> Seq(Message)]
  BY DEF Shape, TypeOK
\* Sending m, or nothing, sends no offer of u.
<1>c. ASSUME NEW u \in Transfers, NEW e \in Ends, NEW m \in Message, Send(e, m) \/ UNCHANGED chan,
             Offered(u) # m
      PROVE  /\ Has(chan'[R], Offered(u)) => Has(chan[R], Offered(u))
             /\ Once(chan[R], Offered(u)) => Once(chan'[R], Offered(u))
  <2>1. /\ \A d \in Ends : \A x : Has(chan'[d], x) => Has(chan[d], x) \/ (x = m /\ d # e)
        /\ \A d \in Ends : \A x :
             Once(chan[d], x) /\ (x # m \/ d = e \/ ~Has(chan[d], x)) => Once(chan'[d], x)
    BY <1>c, SendChan
  <2> QED
    BY <1>c, <2>1
<1>1. CASE Connect
  <2> SUFFICES ASSUME NEW u \in Transfers PROVE EndsAt(u)'
    BY DEF EndsInv
  <2>1. chan'[R] = <<>> /\ UNCHANGED <<entry, told, made>>
    BY <1>1 DEF Connect, people
  <2> QED
    BY <1>0, <2>1, EndsStep, EmptyHas
<1>2. ASSUME NEW d \in Ends, Disconnect(d) PROVE EndsInv'
  <2> SUFFICES ASSUME NEW u \in Transfers PROVE EndsAt(u)'
    BY DEF EndsInv
  <2>1. /\ chan'[R] = <<>> \/ chan'[R] = chan[R]
        /\ UNCHANGED <<told, made>>
        /\ \A e \in Ends : u \in entry'[e] => u \in entry[e]
    BY <1>2, <1>t DEF Disconnect, people
  <2> QED
    BY <1>0, <2>1, EndsStep, EmptyHas
<1>3. ASSUME NEW t \in Transfers, Offer(t) PROVE EndsInv'
  <2> SUFFICES ASSUME NEW u \in Transfers PROVE EndsAt(u)'
    BY DEF EndsInv
  <2>1. t \notin made /\ made' = made \cup {t}
    BY <1>3 DEF Offer
  <2>2. EndsAt(t) /\ EndsAt(u)
    BY <1>0
  <2>3. CASE entry' = [entry EXCEPT ![S] = @ \cup {t}] /\ Send(S, Offered(t)) /\ UNCHANGED told
    <3>1. /\ \A x : Has(chan'[R], x) => Has(chan[R], x) \/ x = Offered(t)
          /\ \A x : Once(chan[R], x) /\ (x # Offered(t) \/ ~Has(chan[R], x)) => Once(chan'[R], x)
      BY <1>0, <2>3, SendChan
    <3>2. u # t => Offered(u) # Offered(t)
      BY NotesDiffer
    <3>3. \A e \in Ends : entry'[e] = IF e = S THEN entry[S] \cup {t} ELSE entry[e]
      BY <1>t, <2>3
    <3>4. CASE u # t
      BY <2>1, <2>2, <2>3, <3>1, <3>2, <3>3, <3>4, EndsStep
    <3>5. CASE u = t
      BY <2>1, <2>2, <2>3, <3>1, <3>3, <3>5 DEF EndsAt
    <3> QED
      BY <3>4, <3>5
  <2>4. CASE Tell(S, t, FALSE) /\ UNCHANGED <<entry, chan>>
    <3>1. /\ told'[S][t] = Append(told[S][t], FALSE)
          /\ \A d \in Ends, w \in Transfers : (d # S \/ w # t) => told'[d][w] = told[d][w]
      BY <2>4, TellTold
    <3>2. CASE u # t
      BY <2>1, <2>2, <2>4, <3>1, <3>2, EndsStep
    <3>3. CASE u = t
      <4>0. told[S][t] = <<>> /\ told[R][t] = <<>>
        BY <2>1, <2>2 DEF EndsAt
      <4>1. told'[S][t] = Append(<<>>, FALSE) /\ told'[R][t] = <<>>
        BY <3>1, <4>0
      <4>2. Len(told'[S][t]) <= 1 /\ Len(told'[R][t]) <= 1
        BY <4>1
      <4> QED
        BY <2>1, <2>2, <2>4, <3>3, <4>1, <4>2 DEF EndsAt
    <3> QED
      BY <3>2, <3>3
  <2> QED
    BY <1>3, <2>3, <2>4 DEF Offer, Offered
<1>4. ASSUME NEW t \in Transfers, OnOffer(t) PROVE EndsInv'
  <2> SUFFICES ASSUME NEW u \in Transfers PROVE EndsAt(u)'
    BY DEF EndsInv
  <2>1. TakeMessage(R, Offered(t)) /\ UNCHANGED <<told, made>>
        /\ entry' = [entry EXCEPT ![R] = @ \cup {t}]
    BY <1>4 DEF OnOffer, Offered, people
  <2>2. /\ Has(chan[R], Offered(t))
        /\ \A x : Has(chan'[R], x) => Has(chan[R], x)
        /\ \A x : Once(chan[R], x) => Once(chan'[R], x)
        /\ Once(chan[R], Offered(t)) => ~Has(chan'[R], Offered(t))
    BY <2>1, TakeChan
  <2>3. \A e \in Ends : entry'[e] = IF e = R THEN entry[R] \cup {t} ELSE entry[e]
    BY <1>t, <2>1
  <2>4. EndsAt(t) /\ EndsAt(u)
    BY <1>0
  <2>5. CASE u # t
    BY <2>1, <2>2, <2>3, <2>4, <2>5, EndsStep
  <2>6. CASE u = t
    BY <2>1, <2>2, <2>3, <2>4, <2>6 DEF EndsAt
  <2> QED
    BY <2>5, <2>6
<1>5. ASSUME NEW t \in Transfers, NEW e \in Ends, Cancel(e, t) PROVE EndsInv'
  <2> SUFFICES ASSUME NEW u \in Transfers PROVE EndsAt(u)'
    BY DEF EndsInv
  <2>0. PICK w \in Transfers : Send(e, Ended(w, FALSE)) \/ UNCHANGED chan
    BY <1>5 DEF Cancel, Ended
  <2> DEFINE m == Ended(w, FALSE)
  <2>1. /\ Send(e, m) \/ UNCHANGED chan
        /\ UNCHANGED <<told, made>> /\ entry' = [entry EXCEPT ![e] = @ \ {t}]
    BY <1>5, <2>0 DEF Cancel
  <2>2. \A d \in Ends : entry'[d] \subseteq entry[d]
    BY <2>1, DropEntry
  <2>3. Offered(u) # m /\ m \in Message
    BY NotesTyped, NotesDiffer
  <2> HIDE DEF m
  <2>4. /\ Has(chan'[R], Offered(u)) => Has(chan[R], Offered(u))
        /\ Once(chan[R], Offered(u)) => Once(chan'[R], Offered(u))
    BY <1>c, <2>1, <2>3
  <2> QED
    BY <1>0, <2>1, <2>2, <2>4, EndsStep
<1>6. ASSUME NEW t \in Transfers, OnReject(t) PROVE EndsInv'
  <2> SUFFICES ASSUME NEW u \in Transfers PROVE EndsAt(u)'
    BY DEF EndsInv
  <2> DEFINE m == Note("reject", t, 0, FALSE)
  <2>1. /\ Send(R, m) \/ UNCHANGED chan
        /\ UNCHANGED <<told, made>> /\ (entry' = entry \/ entry' = [entry EXCEPT ![R] = @ \ {t}])
    BY <1>6 DEF OnReject, people
  <2>2. \A d \in Ends : entry'[d] \subseteq entry[d]
    BY <2>1, DropEntry
  <2>3. Offered(u) # m /\ m \in Message
    BY NotesTyped, NotesDiffer
  <2> HIDE DEF m
  <2>4. /\ Has(chan'[R], Offered(u)) => Has(chan[R], Offered(u))
        /\ Once(chan[R], Offered(u)) => Once(chan'[R], Offered(u))
    BY <2>1, <2>3, SendChan
  <2> QED
    BY <1>0, <2>1, <2>2, <2>4, EndsStep
<1>7. ASSUME NEW t \in Transfers, NEW e \in Ends, NEW ok \in BOOLEAN, NEW ty,
             OnEnding(e, Note(ty, t, 0, ok))
      PROVE  EndsInv'
  <2> SUFFICES ASSUME NEW u \in Transfers PROVE EndsAt(u)'
    BY DEF EndsInv
  <2> DEFINE m == Note(ty, t, 0, ok)
  <2>0. m.t = t /\ m.ok = ok
    BY DEF Note
  <2>1. /\ \A x : Has(chan'[R], x) => Has(chan[R], x)
        /\ \A x : Once(chan[R], x) => Once(chan'[R], x)
    BY <1>7, TakeChan DEF OnEnding
  <2>2. UNCHANGED made
    BY <1>7 DEF OnEnding, people
  <2>3. CASE t \in entry[e] /\ entry' = [entry EXCEPT ![e] = @ \ {t}] /\ Tell(e, t, ok)
    <3>1. \A d \in Ends : u \in entry'[d] => u \in entry[d]
      BY <2>3, DropEntry
    <3>2. t \notin entry'[e]
      BY <1>t, <2>3
    <3>3. /\ told'[e][t] = Append(told[e][t], ok)
          /\ \A d \in Ends, w \in Transfers : (d # e \/ w # t) => told'[d][w] = told[d][w]
      BY <2>3, TellTold
    <3> QED
      BY <1>0, <2>1, <2>2, <2>3, <3>1, <3>2, <3>3, EndsStep
  <2>4. CASE UNCHANGED <<entry, told>>
    BY <1>0, <2>1, <2>2, <2>4, EndsStep
  <2> QED
    BY <1>7, <2>0, <2>3, <2>4 DEF OnEnding
<1>8. ASSUME NEW t \in Transfers, NEW k \in Tasks, OnAccepted(t, k) PROVE EndsInv'
  <2> SUFFICES ASSUME NEW u \in Transfers PROVE EndsAt(u)'
    BY DEF EndsInv
  <2>1. /\ \A x : Has(chan'[R], x) => Has(chan[R], x)
        /\ \A x : Once(chan[R], x) => Once(chan'[R], x)
    BY <1>8, TakeChan DEF OnAccepted
  <2>2. UNCHANGED <<made, entry, told>>
    BY <1>8 DEF OnAccepted, people
  <2> QED
    BY <1>0, <2>1, <2>2, EndsStep
<1>9. ASSUME NEW t \in Transfers, NEW k \in Tasks, OnListening(t, k) PROVE EndsInv'
  <2> SUFFICES ASSUME NEW u \in Transfers PROVE EndsAt(u)'
    BY DEF EndsInv
  <2>1. (Send(R, Address(t, k)) \/ UNCHANGED chan) /\ UNCHANGED <<made, entry, told>>
    BY <1>9 DEF OnListening, Address, people
  <2>2. Offered(u) # Address(t, k) /\ Address(t, k) \in Message
    BY NotesTyped, NotesDiffer
  <2>3. /\ Has(chan'[R], Offered(u)) => Has(chan[R], Offered(u))
        /\ Once(chan[R], Offered(u)) => Once(chan'[R], Offered(u))
    BY <2>1, <2>2, SendChan
  <2> QED
    BY <1>0, <2>1, <2>3, EndsStep
<1>10. ASSUME NEW t \in Transfers, NEW e \in Ends, NEW ok \in BOOLEAN, OnBulkFinished(e, t, ok),
              UNCHANGED made
       PROVE  EndsInv'
  <2> SUFFICES ASSUME NEW u \in Transfers PROVE EndsAt(u)'
    BY DEF EndsInv
  <2>2. /\ Has(chan'[R], Offered(u)) => Has(chan[R], Offered(u))
        /\ Once(chan[R], Offered(u)) => Once(chan'[R], Offered(u))
    <3> DEFINE m == Ended(t, ok)
    <3>1. Send(e, m) \/ UNCHANGED chan
      BY <1>10 DEF OnBulkFinished, Ended
    <3>2. Offered(u) # m /\ m \in Message
      BY NotesTyped, NotesDiffer
    <3> HIDE DEF m
    <3> QED
      BY <1>c, <3>1, <3>2
  <2>4. \A d \in Ends : u \in entry'[d] => u \in entry[d]
    BY <1>10, OnBulkFinishedShape
  <2>3. \A d \in Ends :
           \/ told'[d][u] = told[d][u]
           \/ /\ u \in entry[d] /\ u \notin entry'[d]
              /\ \E b \in BOOLEAN : told'[d][u] = Append(told[d][u], b)
    <3>1. \/ told' = told
          \/ /\ t \in entry[e] /\ t \notin entry'[e] /\ told'[e][t] = Append(told[e][t], ok)
             /\ \A d \in Ends, w \in Transfers : (d # e \/ w # t) => told'[d][w] = told[d][w]
      BY <1>10, OnBulkFinishedShape
    <3> QED
      BY <3>1
  <2> QED
    BY <1>0, <1>10, <2>2, <2>3, <2>4, EndsStep
<1>11. ASSUME NEW t \in Transfers, GiveUp(t) PROVE EndsInv'
  BY <1>10, <1>11 DEF GiveUp, people
<1>12. ASSUME NEW t \in Transfers, NEW e \in Ends, NEW ok \in BOOLEAN, OnFinished(e, t, ok)
       PROVE  EndsInv'
  BY <1>10, <1>12 DEF OnFinished, people
<1>13. ASSUME NEW t \in Transfers, PressAccept(t) \/ PressReject(t) \/ OnAccept(t) \/ OnStarted(t)
       PROVE  EndsInv'
  BY <1>13, EndsSame DEF PressAccept, PressReject, OnAccept, OnStarted, core, people
<1>14. ASSUME NEW t \in Transfers, NEW k \in Tasks, Receiving(t, k) PROVE EndsInv'
  BY <1>14, EndsSame DEF Receiving, Listen, ListenFails, TakeListener, Accept, AcceptFails, Read,
     CreateFails, Place, Placed, ReadFails, core, people
<1>15. ASSUME NEW t \in Transfers, NEW k \in Tasks, Sending(t, k) PROVE EndsInv'
  BY <1>15, EndsSame DEF Sending, Dial, SendDone, SendFails, core, people
<1> QED
  BY <1>1, <1>2, <1>3, <1>4, <1>5, <1>6, <1>7, <1>8, <1>9, <1>11, <1>12, <1>13, <1>14, <1>15
     DEF Next, People, Core

-----------------------------------------------------------------------------
(* What the tasks do, as the rest of the system sees it. *)

\* What a receiving task reports when it goes from r to q.
Reports(t, k, r, q, ev) ==
  \/ ev = Ready(t, k) /\ r.at = "spawned" /\ q.at = "bound"
  \/ ev = Began(t) /\ q.at = "started"
  \/ ev = Ended(t, FALSE) /\ q.at = "over"
  \/ ev = Ended(t, TRUE) /\ r.at = "placed" /\ q.at = "over"

(* A receiving task only ever moves on, and says so to its own core.        *)
LEMMA ReceivingMoves ==
  ASSUME Shape, NEW t \in Transfers, NEW k \in Tasks, Receiving(t, k)
  PROVE  /\ UNCHANGED <<core, running, send, conn, people>>
         /\ \A u \in Transfers, j \in Tasks : (u # t \/ j # k) => recv'[u][j] = recv[u][j]
         /\ recv[t][k].at \in {"spawned", "bound", "waiting", "started", "reading", "placed"}
         /\ recv'[t][k].at \in {"bound", "waiting", "started", "reading", "placed", "over"}
         /\ recv'[t][k].at \in {"bound", "waiting"} => recv[t][k].at \in {"spawned", "bound"}
         /\ recv'[t][k].at = "placed" => WasSent(t)
         /\ \/ UNCHANGED events /\ recv[t][k].at # "spawned"
            \/ \E ev \in Event : Post(R, ev) /\ Reports(t, k, recv[t][k], recv'[t][k], ev)
<1> DEFINE r == recv[t][k]
<1>n. /\ Ready(t, k) \in Event /\ Began(t) \in Event
      /\ \A ok \in BOOLEAN : Ended(t, ok) \in Event
  BY NotesTyped
<1>o. Over.at = "over" /\ \A a, v, d : Task(a, v, d).at = a
  BY DEF Over, Task
<1>e. ASSUME NEW ok \in BOOLEAN, EndTask(t, k, ok), ok => r.at = "placed"
      PROVE  /\ recv'[t][k].at = "over"
             /\ \A u \in Transfers, j \in Tasks : (u # t \/ j # k) => recv'[u][j] = recv[u][j]
             /\ \E ev \in Event : Post(R, ev) /\ Reports(t, k, r, recv'[t][k], ev)
  <2>1. recv'[t][k] = Over
        /\ \A u \in Transfers, j \in Tasks : (u # t \/ j # k) => recv'[u][j] = recv[u][j]
    BY <1>e, EndTaskShape
  <2>2. Post(R, Ended(t, ok)) /\ Ended(t, ok) \in Event
    BY <1>e, <1>n DEF EndTask, Ended
  <2>3. Reports(t, k, r, recv'[t][k], Ended(t, ok))
    BY <1>e, <1>o, <2>1 DEF Reports
  <2> QED
    BY <1>o, <2>1, <2>2, <2>3
<1>m. ASSUME NEW q, recv' = [recv EXCEPT ![t][k] = q]
      PROVE  /\ recv'[t][k] = q
             /\ \A u \in Transfers, j \in Tasks : (u # t \/ j # k) => recv'[u][j] = recv[u][j]
  <2>1. recv \in [Transfers -> [Tasks -> RecvTask]]
    BY DEF Shape, TypeOK
  <2> QED
    BY <1>m, <2>1
<1>g. GoodTask(r)
  BY DEF Shape
<1>1. CASE Listen(t, k)
  <2>1. /\ recv' = [recv EXCEPT ![t][k] = Task("bound", 0, NoPath)] /\ Post(R, Ready(t, k))
        /\ r.at = "spawned" /\ UNCHANGED <<core, running, send, conn, people>>
    BY <1>1 DEF Listen, Ready
  <2>2. recv'[t][k] = Task("bound", 0, NoPath)
        /\ \A u \in Transfers, j \in Tasks : (u # t \/ j # k) => recv'[u][j] = recv[u][j]
    BY <2>1, <1>m
  <2>3. recv'[t][k].at = "bound"
    BY <2>2, <1>o
  <2>4. Reports(t, k, r, recv'[t][k], Ready(t, k))
    BY <2>1, <2>3 DEF Reports
  <2> QED
    BY <1>n, <2>1, <2>2, <2>3, <2>4
<1>2. CASE ListenFails(t, k)
  BY <1>2, <1>e DEF ListenFails
<1>3. CASE TakeListener(t, k)
  <2>1. CASE incoming[t].listening # 0
    <3>1. recv' = [recv EXCEPT ![t][k] = Task("waiting", incoming[t].listening, NoPath)]
          /\ UNCHANGED events
      BY <1>3, <2>1 DEF TakeListener
    <3>2. recv'[t][k] = Task("waiting", incoming[t].listening, NoPath)
          /\ \A u \in Transfers, j \in Tasks : (u # t \/ j # k) => recv'[u][j] = recv[u][j]
      BY <3>1, <1>m
    <3> QED
      BY <1>3, <1>o, <3>1, <3>2 DEF TakeListener
  <2>2. CASE EndTask(t, k, FALSE)
    BY <1>3, <1>e, <2>2 DEF TakeListener
  <2> QED
    BY <1>3, <2>1, <2>2 DEF TakeListener
<1>4. CASE Accept(t, k)
  <2>1. CASE incoming[t] # NoEntry
    <3>1. recv' = [recv EXCEPT ![t][k] = Task("started", 0, NoPath)] /\ Post(R, Began(t))
      BY <1>4, <2>1 DEF Accept, Began
    <3>2. recv'[t][k] = Task("started", 0, NoPath)
          /\ \A u \in Transfers, j \in Tasks : (u # t \/ j # k) => recv'[u][j] = recv[u][j]
      BY <3>1, <1>m
    <3>3. recv'[t][k].at = "started"
      BY <3>2, <1>o
    <3>4. Reports(t, k, r, recv'[t][k], Began(t))
      BY <3>3 DEF Reports
    <3> QED
      BY <1>n, <1>4, <3>4, <3>1, <3>2, <3>3 DEF Accept
  <2>2. CASE EndTask(t, k, FALSE)
    BY <1>4, <1>e, <2>2 DEF Accept
  <2> QED
    BY <1>4, <2>1, <2>2 DEF Accept
<1>5. CASE AcceptFails(t, k)
  BY <1>5, <1>e DEF AcceptFails
<1>6. CASE Read(t, k)
  <2>1. CASE incoming[t].connected # 0
    <3>1. recv' = [recv EXCEPT ![t][k] = Task("reading", incoming[t].connected, incoming[t].dest)]
          /\ UNCHANGED events
      BY <1>6, <2>1 DEF Read
    <3>2. recv'[t][k] = Task("reading", incoming[t].connected, incoming[t].dest)
          /\ \A u \in Transfers, j \in Tasks : (u # t \/ j # k) => recv'[u][j] = recv[u][j]
      BY <3>1, <1>m
    <3> QED
      BY <1>6, <1>o, <3>1, <3>2 DEF Read
  <2>2. CASE EndTask(t, k, FALSE)
    BY <1>6, <1>e, <2>2 DEF Read
  <2> QED
    BY <1>6, <2>1, <2>2 DEF Read
<1>7. CASE Place(t, k)
  <2>1. recv' = [recv EXCEPT ![t][k] = Task("placed", 0, r.dest)] /\ r.at = "reading"
        /\ conn[t][r.via] = "sent" /\ UNCHANGED <<core, running, events, send, conn, people>>
    BY <1>7 DEF Place
  <2>2. r.via \in Tasks
    BY <1>g, <2>1 DEF GoodTask
  <2>3. WasSent(t)
    BY <2>1, <2>2 DEF WasSent
  <2>4. recv'[t][k] = Task("placed", 0, r.dest)
        /\ \A u \in Transfers, j \in Tasks : (u # t \/ j # k) => recv'[u][j] = recv[u][j]
    BY <2>1, <1>m
  <2> QED
    BY <1>o, <2>1, <2>3, <2>4
<1>8. CASE Placed(t, k)
  BY <1>8, <1>e DEF Placed
<1>9. CASE ReadFails(t, k)
  BY <1>9, <1>e DEF ReadFails
<1>10. CASE CreateFails(t, k)
  BY <1>10, <1>e DEF CreateFails
<1> QED
  BY <1>1, <1>2, <1>3, <1>4, <1>5, <1>6, <1>7, <1>8, <1>9, <1>10 DEF Receiving

(* A sending task touches its own connection only.                          *)
LEMMA SendingElsewhere ==
  ASSUME Shape, NEW t \in Transfers, NEW k \in Tasks, Sending(t, k),
         NEW u \in Transfers, NEW j \in Tasks, u # t \/ j # k
  PROVE  send'[u][j] = send[u][j] /\ (conn'[u][j] = "sent" <=> conn[u][j] = "sent")
<1>0. /\ send \in [Transfers -> [Tasks -> {"none", "spawned", "sending", "over"}]]
      /\ conn \in [Transfers -> [Tasks -> {"none", "open", "sent", "cut"}]]
  BY DEF Shape, TypeOK
<1>1. CASE Dial(t, k)
  BY <1>0, <1>1 DEF Dial
<1>2. CASE SendDone(t, k)
  BY <1>0, <1>2 DEF SendDone
<1>3. CASE SendFails(t, k)
  BY <1>0, <1>3, HangupConn DEF SendFails
<1> QED
  BY <1>1, <1>2, <1>3 DEF Sending

(* It reports a success with the end of file.                               *)
LEMMA SendingMoves ==
  ASSUME Shape, NEW t \in Transfers, NEW k \in Tasks, Sending(t, k)
  PROVE  /\ UNCHANGED <<core, running, recv, disk, people>>
         /\ send[t][k] \in {"spawned", "sending"} /\ send'[t][k] \in {"sending", "over"}
         /\ conn'[t][k] = "sent" => send'[t][k] = "over" \/ conn[t][k] = "sent"
         /\ \/ UNCHANGED events
            \/ \E ev \in Event :
                 /\ Post(S, ev)
                 /\ ev = Ended(t, FALSE) \/ (ev = Ended(t, TRUE) /\ conn'[t][k] = "sent")
<1>0. /\ send \in [Transfers -> [Tasks -> {"none", "spawned", "sending", "over"}]]
      /\ conn \in [Transfers -> [Tasks -> {"none", "open", "sent", "cut"}]]
  BY DEF Shape, TypeOK
<1>1. CASE Dial(t, k)
  BY <1>0, <1>1 DEF Dial
<1>2. CASE SendDone(t, k)
  <2>1. Post(S, Ended(t, TRUE)) /\ Ended(t, TRUE) \in Event
    BY <1>2, NotesTyped DEF SendDone, Ended
  <2>2. conn'[t][k] = "sent" /\ send'[t][k] = "over" /\ send[t][k] = "sending"
    BY <1>0, <1>2 DEF SendDone
  <2> QED
    BY <1>0, <1>2, <2>1, <2>2 DEF SendDone
<1>3. CASE SendFails(t, k)
  <2>1. Post(S, Ended(t, FALSE)) /\ Ended(t, FALSE) \in Event /\ Hangup(t, k)
    BY <1>3, NotesTyped DEF SendFails, Ended
  <2>2. send'[t][k] = "over" /\ send[t][k] \in {"spawned", "sending"}
    BY <1>0, <1>3 DEF SendFails
  <2> QED
    BY <1>3, <2>1, <2>2, HangupConn DEF SendFails
<1> QED
  BY <1>1, <1>2, <1>3 DEF Sending

-----------------------------------------------------------------------------
(* An address is dialled once, so that what was sent stays sent. *)

LEMMA InitDial == Init => DialInv
<1> SUFFICES ASSUME Init, NEW t \in Transfers, NEW k \in Tasks PROVE DialledOnce(t, k)
  BY DEF DialInv
<1>1. /\ chan[S] = <<>> /\ events[R] = <<>> /\ send[t][k] = "none" /\ conn[t][k] = "none"
      /\ running[S][t] = 0
  BY EndsAre DEF Init
<1> QED
  BY <1>1, EmptyHas, TasksPositive DEF DialledOnce, Underway

(* A step that hands out no new address and starts no sender for u.         *)
LEMMA DialStep ==
  ASSUME NEW u \in Transfers, NEW j \in Tasks, DialledOnce(u, j),
         Has(events'[R], Ready(u, j)) => Has(events[R], Ready(u, j)),
         Once(events[R], Ready(u, j)) => Once(events'[R], Ready(u, j)),
         Has(chan'[S], Address(u, j)) => Has(chan[S], Address(u, j)),
         Once(chan[S], Address(u, j)) => Once(chan'[S], Address(u, j)),
         send'[u][j] = "none" <=> send[u][j] = "none",
         recv'[u][j].at \in {"none", "spawned"} => recv[u][j].at \in {"none", "spawned"},
         running'[S][u] = j => running[S][u] = j,
         conn'[u][j] = "sent" => send'[u][j] = "over"
  PROVE  DialledOnce(u, j)'
  BY DEF DialledOnce, Underway

(* Cancelling for one end leaves the addresses alone.                       *)
LEMMA DialCancel ==
  ASSUME Shape, NEW e \in Ends, NEW t \in Transfers, BulkCancel(e, t),
         NEW u \in Transfers, NEW j \in Tasks, DialledOnce(u, j)
  PROVE  /\ send'[u][j] = "none" <=> send[u][j] = "none"
         /\ recv'[u][j].at \in {"none", "spawned"} => recv[u][j].at \in {"none", "spawned"}
         /\ running'[S][u] = j => running[S][u] = j
         /\ conn'[u][j] = "sent" => send'[u][j] = "over"
<1>1. /\ conn'[u][j] = "sent" => conn[u][j] = "sent" \/ send'[u][j] = "over"
      /\ recv'[u][j] = IF e = R /\ u = t /\ j = running[e][t] THEN Over ELSE recv[u][j]
      /\ send'[u][j] = IF e = S /\ u = t /\ j = running[e][t] THEN "over" ELSE send[u][j]
      /\ running'[S][u] = IF S = e /\ u = t THEN 0 ELSE running[S][u]
  BY BulkCancelShape, EndsAre
<1>2. Over.at = "over"
  BY DEF Over, Task
<1> QED
  BY <1>1, <1>2, TasksPositive DEF DialledOnce

LEMMA DialKept ==
  ASSUME Shape, DialInv, Next, NEW u \in Transfers, NEW j \in Tasks
  PROVE  DialledOnce(u, j)'
<1> USE EndsAre
<1>0. DialledOnce(u, j)
  BY DEF DialInv
<1>s. conn[u][j] = "sent" => send[u][j] = "over"
  BY <1>0 DEF DialledOnce
<1>t. /\ running \in [Ends -> [Transfers -> Tasks \cup {0}]]
      /\ recv \in [Transfers -> [Tasks -> RecvTask]]
      /\ send \in [Transfers -> [Tasks -> {"none", "spawned", "sending", "over"}]]
  BY DEF Shape, TypeOK
<1>n. Ready(u, j) \in Event /\ Address(u, j) \in Message
  BY NotesTyped
\* Sending m, or nothing, hands out no address; nor does taking an event.
<1>c. ASSUME NEW e \in Ends, NEW m \in Message, Send(e, m) \/ UNCHANGED chan, Address(u, j) # m
      PROVE  /\ Has(chan'[S], Address(u, j)) => Has(chan[S], Address(u, j))
             /\ Once(chan[S], Address(u, j)) => Once(chan'[S], Address(u, j))
  <2>1. /\ \A d \in Ends : \A x : Has(chan'[d], x) => Has(chan[d], x) \/ (x = m /\ d # e)
        /\ \A d \in Ends : \A x :
             Once(chan[d], x) /\ (x # m \/ d = e \/ ~Has(chan[d], x)) => Once(chan'[d], x)
    BY <1>c, SendChan
  <2> QED
    BY <1>c, <2>1
<1>v. ASSUME NEW e \in Ends, NEW ev, TakeEvent(e, ev)
      PROVE  /\ Has(events'[R], Ready(u, j)) => Has(events[R], Ready(u, j))
             /\ Once(events[R], Ready(u, j)) => Once(events'[R], Ready(u, j))
  BY <1>v, TakeEvents
<1>m. ASSUME NEW e \in Ends, NEW m, TakeMessage(e, m)
      PROVE  /\ Has(chan'[S], Address(u, j)) => Has(chan[S], Address(u, j))
             /\ Once(chan[S], Address(u, j)) => Once(chan'[S], Address(u, j))
  BY <1>m, TakeChan
<1>p. ASSUME NEW e \in Ends, NEW ev \in Event, Post(e, ev), Ready(u, j) # ev \/ e = S
      PROVE  /\ Has(events'[R], Ready(u, j)) => Has(events[R], Ready(u, j))
             /\ Once(events[R], Ready(u, j)) => Once(events'[R], Ready(u, j))
  BY <1>p, PostEvents
<1>f. ASSUME NEW e \in Ends, NEW t \in Transfers, NEW ok \in BOOLEAN, OnBulkFinished(e, t, ok)
      PROVE  /\ Has(chan'[S], Address(u, j)) => Has(chan[S], Address(u, j))
             /\ Once(chan[S], Address(u, j)) => Once(chan'[S], Address(u, j))
  <2> DEFINE m == Ended(t, ok)
  <2>1. Send(e, m) \/ UNCHANGED chan
    BY <1>f DEF OnBulkFinished, Ended
  <2>2. m \in Message
    BY NotesTyped
  <2>3. Address(u, j) # m
    BY DEF Address, Ended, Note
  <2> HIDE DEF m
  <2> QED
    BY <1>c, <2>1, <2>2, <2>3
<1>1. CASE Connect
  <2>1. chan'[S] = <<>> /\ UNCHANGED <<events, send, recv, running, conn>>
    BY <1>1 DEF Connect, tasks
  <2> QED
    BY <1>0, <1>s, <2>1, DialStep, EmptyHas
<1>2. ASSUME NEW d \in Ends, Disconnect(d) PROVE DialledOnce(u, j)'
  <2>0. chan \in [Ends -> Seq(Message)]
    BY DEF Shape, TypeOK
  <2>1. (chan'[S] = <<>> \/ chan'[S] = chan[S]) /\ UNCHANGED <<events, send, recv, running, conn>>
    BY <1>2, <2>0 DEF Disconnect, tasks
  <2> QED
    BY <1>0, <1>s, <2>1, DialStep, EmptyHas
<1>3. ASSUME NEW t \in Transfers, Offer(t) PROVE DialledOnce(u, j)'
  <2>1. (Send(S, Offered(t)) \/ UNCHANGED chan) /\ UNCHANGED <<events, send, recv, running, conn>>
    BY <1>3 DEF Offer, Offered, tasks
  <2>2. Offered(t) \in Message /\ Address(u, j) # Offered(t)
    BY NotesTyped, NotesDiffer
  <2> QED
    BY <1>0, <1>s, <1>c, <2>1, <2>2, DialStep
<1>4. ASSUME NEW t \in Transfers, PressAccept(t) \/ PressReject(t) PROVE DialledOnce(u, j)'
  <2>1. PICK ev \in {Pressed(t), Note("reject", t, 0, FALSE)} :
          Post(R, ev) /\ UNCHANGED <<chan, send, recv, running, conn>>
    BY <1>4 DEF PressAccept, PressReject, Pressed, core, tasks
  <2>2. ev \in Event
    BY NotesTyped
  <2>3. Ready(u, j) # ev
    BY DEF Ready, Pressed, Note
  <2> QED
    BY <1>0, <1>s, <1>p, <2>1, <2>2, <2>3, DialStep
<1>5. ASSUME NEW t \in Transfers, NEW e \in Ends, Cancel(e, t) PROVE DialledOnce(u, j)'
  <2>0. PICK w \in Transfers : Send(e, Ended(w, FALSE)) \/ UNCHANGED chan
    BY <1>5 DEF Cancel, Ended
  <2> DEFINE m == Ended(w, FALSE)
  <2>1. (Send(e, m) \/ UNCHANGED chan) /\ BulkCancel(e, t) /\ UNCHANGED events
    BY <1>5, <2>0 DEF Cancel
  <2>2. m \in Message
    BY NotesTyped
  <2>3. Address(u, j) # m
    BY DEF Address, Ended, Note
  <2> HIDE DEF m
  <2> QED
    BY <1>0, <1>c, <2>1, <2>2, <2>3, DialStep, DialCancel
<1>6. ASSUME NEW t \in Transfers, OnAccept(t) PROVE DialledOnce(u, j)'
  <2>1. UNCHANGED chan /\ \E ev : TakeEvent(R, ev)
    BY <1>6 DEF OnAccept
  <2>2. CASE UNCHANGED <<running, tasks>>
    BY <1>0, <1>s, <1>v, <2>1, <2>2, DialStep DEF tasks
  <2>3. ASSUME NEW k \in Tasks, recv[t][k].at = "none",
               recv' = [recv EXCEPT ![t][k] = Task("spawned", 0, NoPath)],
               running' = [running EXCEPT ![R][t] = k], UNCHANGED <<send, conn>>
        PROVE  DialledOnce(u, j)'
    <3>1. recv'[u][j] = recv[u][j] \/ recv[u][j].at = "none"
      BY <1>t, <2>3
    <3>2. running'[S] = running[S]
      BY <1>t, <2>3
    <3> QED
      BY <1>0, <1>s, <1>v, <2>1, <2>3, <3>1, <3>2, DialStep
  <2>4. CASE BulkCancel(R, t)
    BY <1>0, <1>v, <2>1, <2>4, DialStep, DialCancel
  <2> QED
    BY <1>6, <2>2, <2>3, <2>4 DEF OnAccept
<1>7. ASSUME NEW t \in Transfers, OnReject(t) PROVE DialledOnce(u, j)'
  <2> DEFINE m == Note("reject", t, 0, FALSE)
  <2>1. /\ Send(R, m) \/ UNCHANGED chan
        /\ UNCHANGED <<send, recv, running, conn>> /\ TakeEvent(R, m)
    BY <1>7 DEF OnReject, tasks
  <2>2. m \in Message
    BY NotesTyped
  <2>3. Address(u, j) # m
    BY DEF Address, Ended, Note
  <2> HIDE DEF m
  <2> QED
    BY <1>0, <1>s, <1>c, <1>v, <2>1, <2>2, <2>3, DialStep
<1>8. ASSUME NEW t \in Transfers, OnOffer(t) PROVE DialledOnce(u, j)'
  <2>1. TakeMessage(R, Offered(t)) /\ UNCHANGED <<events, send, recv, running, conn>>
    BY <1>8 DEF OnOffer, Offered, tasks
  <2> QED
    BY <1>0, <1>s, <1>m, <2>1, DialStep
<1>9. ASSUME NEW t \in Transfers, OnStarted(t) PROVE DialledOnce(u, j)'
  <2>1. TakeEvent(R, Began(t)) /\ UNCHANGED <<chan, send, recv, running, conn>>
    BY <1>9 DEF OnStarted, Began, tasks
  <2> QED
    BY <1>0, <1>s, <1>v, <2>1, DialStep
<1>10. ASSUME NEW t \in Transfers, GiveUp(t) PROVE DialledOnce(u, j)'
  <2>1. OnBulkFinished(R, t, FALSE) /\ BulkCancel(R, t) /\ UNCHANGED events
    BY <1>10 DEF GiveUp
  <2>2. /\ Has(chan'[S], Address(u, j)) => Has(chan[S], Address(u, j))
        /\ Once(chan[S], Address(u, j)) => Once(chan'[S], Address(u, j))
    BY <1>f, <2>1
  <2> QED
    BY <1>0, <2>1, <2>2, DialStep, DialCancel
<1>11. ASSUME NEW t \in Transfers, NEW e \in Ends, NEW ok \in BOOLEAN, OnFinished(e, t, ok)
       PROVE  DialledOnce(u, j)'
  <2>1. /\ OnBulkFinished(e, t, ok) /\ TakeEvent(e, Ended(t, ok)) /\ UNCHANGED <<send, recv, conn>>
        /\ running' = [running EXCEPT ![e][t] = 0]
    BY <1>11 DEF OnFinished, Ended, tasks
  <2>2. running'[S][u] = running[S][u] \/ running'[S][u] = 0
    BY <1>t, <2>1
  <2> QED
    BY <1>0, <1>s, <1>f, <1>v, <2>1, <2>2, DialStep, TasksPositive
<1>12. ASSUME NEW t \in Transfers, NEW e \in Ends, NEW m, OnEnding(e, m) PROVE DialledOnce(u, j)'
  <2>1. TakeMessage(e, m) /\ UNCHANGED <<events, send, recv, running, conn>>
    BY <1>12 DEF OnEnding, tasks
  <2> QED
    BY <1>0, <1>s, <1>m, <2>1, DialStep
<1>13. ASSUME NEW t \in Transfers, NEW k \in Tasks, OnAccepted(t, k) PROVE DialledOnce(u, j)'
  <2>1. TakeMessage(S, Address(t, k)) /\ UNCHANGED events
    BY <1>13 DEF OnAccepted, Address
  <2>2. CASE UNCHANGED <<running, tasks>>
    BY <1>0, <1>s, <1>m, <2>1, <2>2, DialStep DEF tasks
  <2>3. CASE /\ send' = [send EXCEPT ![t][k] = "spawned"]
             /\ running' = [running EXCEPT ![S][t] = k]
             /\ UNCHANGED <<recv, conn>>
    <3>1. CASE u = t /\ j = k
      <4>1. /\ Has(chan[S], Address(u, j)) /\ ~Has(chan'[S], Address(u, j))
            /\ Once(chan'[S], Address(u, j))
        BY <1>0, <2>1, <3>1, TakeChan DEF DialledOnce
      <4>2. /\ send[u][j] = "none" /\ recv[u][j].at \notin {"none", "spawned"}
            /\ ~Has(events[R], Ready(u, j))
        BY <1>0, <4>1 DEF DialledOnce, Underway
      <4>3. send'[u][j] = "spawned"
        BY <1>t, <2>3, <3>1
      <4> QED
        BY <1>0, <2>1, <2>3, <4>1, <4>2, <4>3 DEF DialledOnce, Underway
    <3>2. CASE u # t \/ j # k
      <4>1. send'[u][j] = send[u][j] /\ (running'[S][u] = j => running[S][u] = j)
        BY <1>t, <2>3, <3>2
      <4> QED
        BY <1>0, <1>s, <1>m, <2>1, <2>3, <4>1, DialStep
    <3> QED
      BY <3>1, <3>2
  <2>4. CASE BulkCancel(S, t)
    BY <1>0, <1>m, <2>1, <2>4, DialStep, DialCancel
  <2> QED
    BY <1>13, <2>2, <2>3, <2>4 DEF OnAccepted
<1>14. ASSUME NEW t \in Transfers, NEW k \in Tasks, OnListening(t, k) PROVE DialledOnce(u, j)'
  <2>1. /\ Send(R, Address(t, k)) \/ UNCHANGED chan
        /\ TakeEvent(R, Ready(t, k)) /\ UNCHANGED <<send, recv, running, conn>>
    BY <1>14 DEF OnListening, Address, Ready, tasks
  <2>2. Address(t, k) \in Message
    BY NotesTyped
  <2>3. CASE u = t /\ j = k
    <3>1. Has(events[R], Ready(u, j)) /\ ~Has(events'[R], Ready(u, j)) /\ Once(events'[R], Ready(u, j))
      BY <1>0, <2>1, <2>3, TakeEvents DEF DialledOnce
    <3>2. ~Has(chan[S], Address(u, j)) /\ send[u][j] = "none" /\ recv[u][j].at \notin {"none", "spawned"}
      BY <1>0, <3>1 DEF DialledOnce, Underway
    <3>3. Once(chan'[S], Address(u, j))
      <4>1. \A d \in Ends : \A x :
              Once(chan[d], x) /\ (x # Address(t, k) \/ d = R \/ ~Has(chan[d], x)) => Once(chan'[d], x)
        BY <2>1, <2>2, SendChan
      <4> QED
        BY <1>0, <3>2, <4>1 DEF DialledOnce
    <3> QED
      BY <1>0, <2>1, <3>1, <3>2, <3>3 DEF DialledOnce, Underway
  <2>4. CASE u # t \/ j # k
    <3>1. Address(u, j) # Address(t, k)
      BY <2>4, NotesDiffer
    <3> QED
      BY <1>0, <1>s, <1>c, <1>v, <2>1, <2>2, <3>1, DialStep
  <2> QED
    BY <2>3, <2>4
<1>15. ASSUME NEW t \in Transfers, NEW k \in Tasks, Receiving(t, k) PROVE DialledOnce(u, j)'
  <2>1. /\ UNCHANGED <<chan, running, send, conn>>
        /\ (u # t \/ j # k) => recv'[u][j] = recv[u][j]
        /\ recv'[t][k].at \notin {"none", "spawned"}
    BY <1>15, ReceivingMoves DEF core
  <2>2. CASE UNCHANGED events
    BY <1>0, <1>s, <2>1, <2>2, DialStep
  <2>3. ASSUME NEW ev \in Event, Post(R, ev), Reports(t, k, recv[t][k], recv'[t][k], ev)
        PROVE  DialledOnce(u, j)'
    <3>1. CASE ev = Ready(u, j)
      <4>1. u = t /\ j = k /\ recv[t][k].at = "spawned"
        <5>1. Ready(u, j) # Began(t) /\ Ready(u, j) # Ended(t, FALSE) /\ Ready(u, j) # Ended(t, TRUE)
          BY DEF Ready, Began, Ended, Note
        <5>2. Ready(u, j) = Ready(t, k) /\ recv[t][k].at = "spawned"
          BY <2>3, <3>1, <5>1 DEF Reports
        <5> QED
          BY <5>2, NotesDiffer
      <4>2. send[u][j] = "none" /\ ~Has(events[R], Ready(u, j)) /\ ~Has(chan[S], Address(u, j))
        BY <1>0, <4>1 DEF DialledOnce, Underway
      <4>3. Once(events'[R], Ready(u, j))
        <5>1. \A d \in Ends : \A x :
                Once(events[d], x) /\ (x # ev \/ d # R \/ ~Has(events[d], x)) => Once(events'[d], x)
          BY <2>3, PostEvents
        <5> QED
          BY <1>0, <4>2, <5>1 DEF DialledOnce
      <4> QED
        BY <1>0, <2>1, <4>1, <4>2, <4>3 DEF DialledOnce, Underway
    <3>2. CASE ev # Ready(u, j)
      BY <1>0, <1>s, <1>p, <2>1, <2>3, <3>2, DialStep
    <3> QED
      BY <3>1, <3>2
  <2> QED
    BY <1>15, <2>2, <2>3, ReceivingMoves
<1>16. ASSUME NEW t \in Transfers, NEW k \in Tasks, Sending(t, k) PROVE DialledOnce(u, j)'
  <2>1. /\ UNCHANGED <<chan, running, recv>>
        /\ (u # t \/ j # k) => send'[u][j] = send[u][j] /\ (conn'[u][j] = "sent" <=> conn[u][j] = "sent")
        /\ send[t][k] \in {"spawned", "sending"} /\ send'[t][k] \in {"sending", "over"}
        /\ conn'[t][k] = "sent" => send'[t][k] = "over" \/ conn[t][k] = "sent"
    <3>1. UNCHANGED <<core, running, recv>>
      BY <1>16, SendingMoves
    <3>2. (u # t \/ j # k) => send'[u][j] = send[u][j] /\ (conn'[u][j] = "sent" <=> conn[u][j] = "sent")
      BY <1>16, SendingElsewhere
    <3>3. /\ send[t][k] \in {"spawned", "sending"} /\ send'[t][k] \in {"sending", "over"}
          /\ conn'[t][k] = "sent" => send'[t][k] = "over" \/ conn[t][k] = "sent"
      BY <1>16, SendingMoves
    <3> QED
      BY <3>1, <3>2, <3>3 DEF core
  <2>2. /\ Has(events'[R], Ready(u, j)) => Has(events[R], Ready(u, j))
        /\ Once(events[R], Ready(u, j)) => Once(events'[R], Ready(u, j))
    <3>1. UNCHANGED events \/ \E ev \in Event : Post(S, ev)
      BY <1>16, SendingMoves
    <3> QED
      BY <3>1, <1>p
  <2>3. conn'[u][j] = "sent" => send'[u][j] = "over"
    BY <1>s, <2>1
  <2> QED
    BY <1>0, <2>1, <2>2, <2>3, DialStep
<1> QED
  BY <1>1, <1>2, <1>3, <1>4, <1>5, <1>6, <1>7, <1>8, <1>9, <1>10, <1>11, <1>12, <1>13, <1>14,
     <1>15, <1>16 DEF Next, People, Core

-----------------------------------------------------------------------------
(* No success without the last byte. *)

LEMMA SuccessNotes ==
  ASSUME NEW t, NEW u, NEW k
  PROVE  /\ Success(u) # Offered(t) /\ Success(u) # Address(t, k) /\ Success(u) # Ended(t, FALSE)
         /\ Success(u) # Note("reject", t, 0, FALSE) /\ Success(u) # Pressed(t)
         /\ Success(u) # Ready(t, k) /\ Success(u) # Began(t)
         /\ Welcome(u) # Offered(t) /\ Welcome(u) # Address(t, k)
         /\ Welcome(u) # Note("reject", t, 0, FALSE)
         /\ \A ok \in BOOLEAN : Welcome(u) # Ended(t, ok)
         /\ \A ok \in BOOLEAN : Success(u) = Ended(t, ok) => u = t /\ ok
  BY DEF Success, Welcome, Offered, Address, Ended, Pressed, Ready, Began, Note

LEMMA InitSuccess == Init => SuccessInv
<1> SUFFICES ASSUME Init PROVE SuccessInv
  OBVIOUS
<1>1. ASSUME NEW t \in Transfers PROVE SuccessAt(t)
  <2>1. \A e \in Ends : chan[e] = <<>> /\ events[e] = <<>> /\ told[e][t] = <<>>
    BY DEF Init
  <2>2. \A k \in Tasks : recv[t][k].at = "none"
    BY DEF Init, Task
  <2>3. \A e \in Ends : told[e][t] # <<TRUE>>
    <3> DEFINE good == <<TRUE>>
    <3>1. <<>> # good
      OBVIOUS
    <3> HIDE DEF good
    <3>2. \A e \in Ends : told[e][t] # good
      BY <2>1, <3>1
    <3> QED
      BY <3>2 DEF good
  <2>4. \A e \in Ends : \A x : ~Has(chan[e], x) /\ ~Has(events[e], x)
    BY <2>1, EmptyHas
  <2> QED
    BY <2>2, <2>3, <2>4, EndsAre DEF SuccessAt
<1>2. \A p \in Paths : disk[p].is # "whole"
  BY DEF Init, KeptFile, NoFile
<1> QED
  BY <1>1, <1>2 DEF SuccessInv, DiskInv

(* What was sent stays sent: nobody dials that address again.               *)
LEMMA SentStays ==
  ASSUME Shape, DialInv, Next, NEW u \in Transfers, WasSent(u)
  PROVE  WasSent(u)'
<1>0. PICK j \in Tasks : conn[u][j] = "sent"
  BY DEF WasSent
<1> SUFFICES conn'[u][j] = "sent"
  BY DEF WasSent
<1>1. ASSUME NEW e \in Ends, NEW t \in Transfers, BulkCancel(e, t) PROVE conn'[u][j] = "sent"
  BY <1>0, <1>1, BulkCancelShape
<1>2. ASSUME NEW t \in Transfers, NEW k \in Tasks, Sending(t, k) PROVE conn'[u][j] = "sent"
  <2>1. send[u][j] = "over"
    BY <1>0 DEF DialInv, DialledOnce
  <2>2. send[t][k] \in {"spawned", "sending"}
    BY <1>2, SendingMoves
  <2>3. u # t \/ j # k
    BY <2>1, <2>2
  <2> QED
    BY <1>0, <1>2, <2>3, SendingElsewhere
<1>3. ASSUME NEW t \in Transfers, NEW k \in Tasks, Receiving(t, k) PROVE conn'[u][j] = "sent"
  BY <1>0, <1>3, ReceivingMoves
<1>4. ASSUME NEW t \in Transfers, People(t) PROVE conn'[u][j] = "sent"
  BY <1>0, <1>1, <1>4 DEF People, Offer, PressAccept, PressReject, Cancel, tasks
<1>5. ASSUME NEW t \in Transfers, Core(t) PROVE conn'[u][j] = "sent"
  <2>1. UNCHANGED conn \/ \E e \in Ends : BulkCancel(e, t)
    BY <1>5, EndsAre DEF Core, OnAccept, OnReject, OnOffer, OnStarted, GiveUp, OnFinished,
       OnEnding, OnAccepted, OnListening, tasks
  <2> QED
    BY <1>0, <1>1, <2>1
<1>6. CASE Connect \/ \E e \in Ends : Disconnect(e)
  BY <1>0, <1>6 DEF Connect, Disconnect, tasks
<1> QED
  BY <1>2, <1>3, <1>4, <1>5, <1>6 DEF Next

(* Every file in place was sent: what Place renames is its own temporary,   *)
(* or was whole before.                                                    *)
LEMMA WholeWasSent ==
  ASSUME Shape, DialInv, Next, DiskInv
  PROVE  DiskInv'
<1>t. disk \in [Paths -> Contents]
  BY DEF Shape, TypeOK
<1>w. \A p \in Paths : disk[p].is = "whole" => disk[p].of \in Transfers
  BY <1>t DEF Contents, NoFile, KeptFile
<1>0. ASSUME \A p \in Paths : disk'[p].is = "whole" =>
               \/ \E o \in Paths : disk'[p] = disk[o]
               \/ disk'[p].of \in Transfers /\ WasSent(disk'[p].of)
      PROVE  DiskInv'
  <2> SUFFICES ASSUME NEW p \in Paths, disk'[p].is = "whole" PROVE (WasSent(disk[p].of))'
    BY DEF DiskInv
  <2>1. PICK o \in Transfers : o = disk'[p].of /\ WasSent(o)
    BY <1>0, <1>w DEF DiskInv
  <2>2. WasSent(o)'
    BY <2>1, SentStays
  <2> QED
    BY <2>1, <2>2 DEF WasSent
<1>1. ASSUME UNCHANGED disk PROVE DiskInv'
  BY <1>0, <1>1
<1>f. NoFile.is # "whole" /\ \A t : /\ File(t, "reserved").is # "whole" /\ File(t, "partial").is # "whole"
                                   /\ File(t, "whole").of = t
  BY DEF NoFile, File
<1>2. ASSUME NEW t \in Transfers, NEW k \in Tasks, Receiving(t, k)
      PROVE  DiskInv'
  <2>1. CASE UNCHANGED disk
    BY <1>1, <2>1
  <2>2. ASSUME NEW q, NEW c, disk' = [disk EXCEPT ![q] = c], c.is # "whole"
        PROVE  \A p \in Paths : disk'[p].is = "whole" => \E o \in Paths : disk'[p] = disk[o]
    BY <1>t, <2>2
  <2>3. CASE \E p \in FreePath : Reserve(t, p)
    BY <1>0, <1>f, <2>2, <2>3 DEF Reserve
  <2>4. CASE Read(t, k)
    <3>1. UNCHANGED disk \/ \E q : disk' = [disk EXCEPT ![q] = File(t, "partial")]
      BY <2>4 DEF Read
    <3> QED
      BY <1>0, <1>f, <2>1, <2>2, <3>1
  <2>5. CASE Place(t, k)
    <3> DEFINE dest == recv[t][k].dest
               tmp == TempBeside(dest)
    <3>0. PICK c \in {disk[tmp], File(t, "whole")} :
            disk' = [disk EXCEPT ![tmp] = NoFile, ![dest] = c]
      BY <2>5 DEF Place
    <3>1. /\ disk' = [disk EXCEPT ![tmp] = NoFile, ![dest] = c]
          /\ recv[t][k].at = "reading" /\ conn[t][recv[t][k].via] = "sent"
      BY <2>5, <3>0 DEF Place
    <3>2. recv[t][k].via \in Tasks /\ dest \in Plain
      BY <3>1 DEF Shape, GoodTask
    <3>3. WasSent(t) /\ tmp \in Paths
      BY <3>1, <3>2, TempInPaths DEF WasSent
    <3> HIDE DEF dest, tmp
    <3>4. ASSUME NEW p \in Paths, disk'[p].is = "whole"
          PROVE  \/ \E o \in Paths : disk'[p] = disk[o]
                 \/ disk'[p].of \in Transfers /\ WasSent(disk'[p].of)
      <4>1. disk'[p] = NoFile \/ disk'[p] = c \/ disk'[p] = disk[p]
        BY <1>t, <3>1
      <4>2. CASE disk'[p] = c
        BY <1>f, <3>3, <4>2
      <4> QED
        BY <1>f, <3>4, <4>1, <4>2
    <3> QED
      BY <1>0, <3>4
  <2>6. CASE ReadFails(t, k)
    <3> DEFINE dest == recv[t][k].dest
               rest == [disk EXCEPT ![TempBeside(dest)] = NoFile]
    <3>1. disk' = rest \/ disk' = [rest EXCEPT ![dest] = NoFile]
      BY <2>6 DEF ReadFails, Unreserve
    <3>2. rest \in [Paths -> Contents] /\ \A p \in Paths : rest[p] = NoFile \/ rest[p] = disk[p]
      BY <1>t, FilesTyped
    <3> HIDE DEF rest
    <3>3. \A p \in Paths : disk'[p] = NoFile \/ disk'[p] = disk[p]
      BY <3>1, <3>2
    <3> QED
      BY <1>0, <1>f, <3>3
  <2>7. CASE CreateFails(t, k)
    <3>1. UNCHANGED disk \/ \E q : disk' = [disk EXCEPT ![q] = NoFile]
      BY <2>7 DEF CreateFails, Unreserve
    <3> QED
      BY <1>0, <1>f, <2>1, <2>2, <3>1
  <2> QED
    BY <1>2, <2>1, <2>3, <2>4, <2>5, <2>6, <2>7 DEF Receiving, Listen, ListenFails, TakeListener, Accept,
       AcceptFails, Placed
<1>3. ASSUME NEW t \in Transfers, NEW k \in Tasks, Sending(t, k) PROVE UNCHANGED disk
  BY <1>3 DEF Sending, Dial, SendDone, SendFails
<1>4. ASSUME NEW t \in Transfers, People(t) PROVE UNCHANGED disk
  BY <1>4 DEF People, Offer, PressAccept, PressReject, Cancel, BulkCancel, tasks
<1>5. ASSUME NEW t \in Transfers, Core(t) PROVE UNCHANGED disk
  BY <1>5 DEF Core, OnAccept, OnReject, OnOffer, OnStarted, GiveUp, OnFinished,
     OnEnding, OnAccepted, OnListening, BulkCancel, tasks
<1>6. ASSUME Connect \/ \E e \in Ends : Disconnect(e) PROVE UNCHANGED disk
  BY <1>6 DEF Connect, Disconnect, tasks
<1> QED
  BY <1>1, <1>2, <1>3, <1>4, <1>5, <1>6 DEF Next

(* A step after which t is announced only where it was, or was sent.        *)
LEMMA SuccessStep ==
  ASSUME NEW u \in Transfers, SuccessAt(u), WasSent(u) => WasSent(u)',
         \A e \in Ends : Has(chan'[e], Success(u)) => Has(chan[e], Success(u)) \/ WasSent(u)',
         \A e \in Ends : Has(events'[e], Success(u)) => Has(events[e], Success(u)) \/ WasSent(u)',
         \A e \in Ends : told'[e][u] = <<TRUE>> => told[e][u] = <<TRUE>> \/ WasSent(u)',
         Has(chan'[S], Welcome(u)) => Has(chan[S], Welcome(u)),
         \A k \in Tasks : recv'[u][k].at = "placed" => recv[u][k].at = "placed" \/ WasSent(u)'
  PROVE  SuccessAt(u)'
  BY DEF SuccessAt

LEMMA SuccessKept ==
  ASSUME Shape, EndsInv, DialInv, Next, NEW u \in Transfers, SuccessAt(u)
  PROVE  SuccessAt(u)'
<1> USE EndsAre
<1>s. WasSent(u) => WasSent(u)'
  BY SentStays
<1>a. /\ \A e \in Ends : Has(chan[e], Success(u)) => WasSent(u)
      /\ \A e \in Ends : Has(events[e], Success(u)) => WasSent(u)
      /\ ~Has(chan[S], Welcome(u))
  BY DEF SuccessAt
<1>t. told \in [Ends -> [Transfers -> Seq(BOOLEAN)]]
  BY DEF Shape, TypeOK
\* Sending m, or nothing.
<1>c. ASSUME NEW e \in Ends, NEW m \in Message, Send(e, m) \/ UNCHANGED chan,
             Success(u) = m => WasSent(u), Welcome(u) # m
      PROVE  /\ \A d \in Ends : Has(chan'[d], Success(u)) => Has(chan[d], Success(u)) \/ WasSent(u)'
             /\ Has(chan'[S], Welcome(u)) => Has(chan[S], Welcome(u))
  <2>1. \A d \in Ends : \A x : Has(chan'[d], x) => Has(chan[d], x) \/ (x = m /\ d # e)
    BY <1>c, SendChan
  <2> QED
    BY <1>c, <1>s, <2>1
<1>m. ASSUME NEW e \in Ends, NEW m, TakeMessage(e, m)
      PROVE  /\ \A d \in Ends : Has(chan'[d], Success(u)) => Has(chan[d], Success(u))
             /\ Has(chan'[S], Welcome(u)) => Has(chan[S], Welcome(u))
  BY <1>m, TakeChan
<1>v. ASSUME NEW e \in Ends, NEW ev, TakeEvent(e, ev)
      PROVE  \A d \in Ends : Has(events'[d], Success(u)) => Has(events[d], Success(u))
  BY <1>v, TakeEvents
<1>p. ASSUME NEW e \in Ends, NEW ev \in Event, Post(e, ev), Success(u) = ev => WasSent(u)'
      PROVE  \A d \in Ends : Has(events'[d], Success(u)) => Has(events[d], Success(u)) \/ WasSent(u)'
  <2>1. \A d \in Ends : \A x : Has(events'[d], x) => Has(events[d], x) \/ x = ev
    BY <1>p, PostEvents
  <2> QED
    BY <1>p, <2>1
<1>l. ASSUME NEW e \in Ends, NEW t \in Transfers, NEW ok \in BOOLEAN,
             t \in entry[e], told'[e][t] = Append(told[e][t], ok),
             \A d \in Ends, w \in Transfers : (d # e \/ w # t) => told'[d][w] = told[d][w],
             u = t /\ ok => WasSent(u)
      PROVE  \A d \in Ends : told'[d][u] = <<TRUE>> => told[d][u] = <<TRUE>> \/ WasSent(u)'
  <2>1. told[e][t] = <<>>
    BY <1>l DEF EndsInv, EndsAt
  <2>2. told'[e][t] = <<ok>>
    BY <1>l, <2>1
  <2>3. told'[e][t] = <<TRUE>> => ok
    <3> SUFFICES ASSUME told'[e][t] = <<TRUE>> PROVE ok
      OBVIOUS
    <3>1. <<ok>>[1] = <<TRUE>>[1]
      BY <2>2
    <3>2. <<ok>>[1] = ok /\ <<TRUE>>[1] = TRUE
      OBVIOUS
    <3>3. ok = TRUE
      BY <3>1, <3>2, Zenon
    <3> QED
      BY <3>3, Zenon
  <2> QED
    BY <1>l, <1>s, <2>3
<1>b. ASSUME NEW e \in Ends, NEW t \in Transfers, BulkCancel(e, t)
      PROVE  \A k \in Tasks : recv'[u][k].at = "placed" => recv[u][k].at = "placed"
  <2>1. \A k \in Tasks :
          recv'[u][k] = IF e = R /\ u = t /\ k = running[e][t] THEN Over ELSE recv[u][k]
    BY <1>b, BulkCancelShape
  <2>2. Over.at # "placed"
    BY DEF Over, Task
  <2> QED
    BY <2>1, <2>2
\* on_bulk_finished, for a report whose success is known to be one.
<1>f. ASSUME NEW e \in Ends, NEW t \in Transfers, NEW ok \in BOOLEAN, OnBulkFinished(e, t, ok),
             u = t /\ ok => WasSent(u)
      PROVE  /\ \A d \in Ends : Has(chan'[d], Success(u)) => Has(chan[d], Success(u)) \/ WasSent(u)'
             /\ Has(chan'[S], Welcome(u)) => Has(chan[S], Welcome(u))
             /\ \A d \in Ends : told'[d][u] = <<TRUE>> => told[d][u] = <<TRUE>> \/ WasSent(u)'
  <2>1. /\ \A d \in Ends : Has(chan'[d], Success(u)) => Has(chan[d], Success(u)) \/ WasSent(u)'
        /\ Has(chan'[S], Welcome(u)) => Has(chan[S], Welcome(u))
    <3> DEFINE m == Ended(t, ok)
    <3>1. Send(e, m) \/ UNCHANGED chan
      BY <1>f DEF OnBulkFinished, Ended
    <3>2. m \in Message
      BY NotesTyped
    <3>3. (Success(u) = m => WasSent(u)) /\ Welcome(u) # m
      BY <1>f, SuccessNotes
    <3> HIDE DEF m
    <3> QED
      BY <1>c, <3>1, <3>2, <3>3
  <2>2. CASE told' = told
    BY <2>1, <2>2
  <2>3. CASE /\ t \in entry[e] /\ told'[e][t] = Append(told[e][t], ok)
             /\ \A d \in Ends, w \in Transfers : (d # e \/ w # t) => told'[d][w] = told[d][w]
    <3>1. \A d \in Ends : told'[d][u] = <<TRUE>> => told[d][u] = <<TRUE>> \/ WasSent(u)'
      BY <1>f, <1>l, <2>3
    <3> QED
      BY <2>1, <3>1
  <2>4. \/ told' = told
        \/ /\ t \in entry[e] /\ told'[e][t] = Append(told[e][t], ok)
           /\ \A d \in Ends, w \in Transfers : (d # e \/ w # t) => told'[d][w] = told[d][w]
    BY <1>f, OnBulkFinishedShape
  <2> QED
    BY <2>2, <2>3, <2>4
<1>1. CASE Connect
  <2>1. (\A e \in Ends : chan'[e] = <<>>) /\ UNCHANGED <<events, told, recv>>
    BY <1>1 DEF Connect, tasks
  <2> QED
    BY <1>s, <2>1, EmptyHas, SuccessStep
<1>2. ASSUME NEW d \in Ends, Disconnect(d) PROVE SuccessAt(u)'
  <2>0. chan \in [Ends -> Seq(Message)]
    BY DEF Shape, TypeOK
  <2>1. (\A e \in Ends : chan'[e] = <<>> \/ chan'[e] = chan[e]) /\ UNCHANGED <<events, told, recv>>
    BY <1>2, <2>0 DEF Disconnect, tasks
  <2>2. \A e \in Ends : \A x : Has(chan'[e], x) => Has(chan[e], x)
    BY <2>1, EmptyHas
  <2> QED
    BY <1>s, <2>1, <2>2, SuccessStep
<1>3. ASSUME NEW t \in Transfers, Offer(t) PROVE SuccessAt(u)'
  <2>1. UNCHANGED <<events, recv>> /\ (Send(S, Offered(t)) \/ UNCHANGED chan)
    BY <1>3 DEF Offer, Offered, tasks
  <2>2. Offered(t) \in Message /\ Success(u) # Offered(t) /\ Welcome(u) # Offered(t)
    BY NotesTyped, SuccessNotes
  <2>3. \A d \in Ends : told'[d][u] = <<TRUE>> => told[d][u] = <<TRUE>>
    <3>1. CASE UNCHANGED told
      BY <3>1
    <3>2. CASE Tell(S, t, FALSE)
      <4>1. /\ told'[S][t] = Append(told[S][t], FALSE)
            /\ \A d \in Ends, w \in Transfers : (d # S \/ w # t) => told'[d][w] = told[d][w]
        BY <3>2, TellTold
      <4>2. told[S][t] = <<>>
        BY <1>3 DEF Offer, EndsInv, EndsAt
      <4>3. told'[S][t] = <<FALSE>>
        BY <4>1, <4>2
      <4>4. told'[S][t] # <<TRUE>>
        BY <4>3
      <4> QED
        BY <4>1, <4>4
    <3> QED
      BY <1>3, <3>1, <3>2 DEF Offer
  <2> QED
    BY <1>s, <1>c, <2>1, <2>2, <2>3, SuccessStep
<1>4. ASSUME NEW t \in Transfers, PressAccept(t) \/ PressReject(t) PROVE SuccessAt(u)'
  <2>1. PICK ev \in {Pressed(t), Note("reject", t, 0, FALSE)} :
          Post(R, ev) /\ UNCHANGED <<chan, told, recv>>
    BY <1>4 DEF PressAccept, PressReject, Pressed, core, tasks
  <2>2. ev \in Event
    BY NotesTyped
  <2>3. Success(u) # ev
    BY SuccessNotes
  <2> QED
    BY <1>s, <1>p, <2>1, <2>2, <2>3, SuccessStep
<1>5. ASSUME NEW t \in Transfers, NEW e \in Ends, Cancel(e, t) PROVE SuccessAt(u)'
  <2>0. PICK w \in Transfers : Send(e, Ended(w, FALSE)) \/ UNCHANGED chan
    BY <1>5 DEF Cancel, Ended
  <2> DEFINE m == Ended(w, FALSE)
  <2>1. (Send(e, m) \/ UNCHANGED chan) /\ BulkCancel(e, t) /\ UNCHANGED <<events, told>>
    BY <1>5, <2>0 DEF Cancel
  <2>2. m \in Message
    BY NotesTyped
  <2>3. Success(u) # m /\ Welcome(u) # m
    BY SuccessNotes
  <2> HIDE DEF m
  <2> QED
    BY <1>s, <1>b, <1>c, <2>1, <2>2, <2>3, SuccessStep
<1>6. ASSUME NEW t \in Transfers, OnAccept(t) PROVE SuccessAt(u)'
  <2>1. UNCHANGED <<chan, told>> /\ \E ev : TakeEvent(R, ev)
    BY <1>6 DEF OnAccept
  <2>2. \A k \in Tasks : recv'[u][k].at = "placed" => recv[u][k].at = "placed"
    <3>0. recv \in [Transfers -> [Tasks -> RecvTask]] /\ Task("spawned", 0, NoPath).at # "placed"
      BY DEF Shape, TypeOK, Task
    <3>1. \/ UNCHANGED recv \/ BulkCancel(R, t)
          \/ \E k \in Tasks : recv' = [recv EXCEPT ![t][k] = Task("spawned", 0, NoPath)]
      BY <1>6 DEF OnAccept, tasks
    <3> QED
      BY <1>b, <3>0, <3>1
  <2> QED
    BY <1>s, <1>v, <2>1, <2>2, SuccessStep
<1>7. ASSUME NEW t \in Transfers, OnReject(t) PROVE SuccessAt(u)'
  <2> DEFINE m == Note("reject", t, 0, FALSE)
  <2>1. /\ Send(R, m) \/ UNCHANGED chan
        /\ UNCHANGED <<told, recv>> /\ TakeEvent(R, m)
    BY <1>7 DEF OnReject, tasks
  <2>2. m \in Message
    BY NotesTyped
  <2>3. Success(u) # m /\ Welcome(u) # m
    BY SuccessNotes
  <2> HIDE DEF m
  <2> QED
    BY <1>s, <1>c, <1>v, <2>1, <2>2, <2>3, SuccessStep
<1>8. ASSUME NEW t \in Transfers, OnOffer(t) PROVE SuccessAt(u)'
  <2>1. TakeMessage(R, Offered(t)) /\ UNCHANGED <<events, told, recv>>
    BY <1>8 DEF OnOffer, Offered, tasks
  <2> QED
    BY <1>s, <1>m, <2>1, SuccessStep
<1>9. ASSUME NEW t \in Transfers, OnStarted(t) PROVE SuccessAt(u)'
  <2>1. TakeEvent(R, Began(t)) /\ UNCHANGED <<chan, told, recv>>
    BY <1>9 DEF OnStarted, Began, tasks
  <2> QED
    BY <1>s, <1>v, <2>1, SuccessStep
<1>10. ASSUME NEW t \in Transfers, GiveUp(t) PROVE SuccessAt(u)'
  <2>1. OnBulkFinished(R, t, FALSE) /\ BulkCancel(R, t) /\ UNCHANGED events
    BY <1>10 DEF GiveUp
  <2>2. /\ \A d \in Ends : Has(chan'[d], Success(u)) => Has(chan[d], Success(u)) \/ WasSent(u)'
        /\ Has(chan'[S], Welcome(u)) => Has(chan[S], Welcome(u))
        /\ \A d \in Ends : told'[d][u] = <<TRUE>> => told[d][u] = <<TRUE>> \/ WasSent(u)'
    BY <1>f, <2>1
  <2> QED
    BY <1>s, <1>b, <2>1, <2>2, SuccessStep
<1>11. ASSUME NEW t \in Transfers, NEW e \in Ends, NEW ok \in BOOLEAN, OnFinished(e, t, ok)
       PROVE  SuccessAt(u)'
  <2>1. OnBulkFinished(e, t, ok) /\ TakeEvent(e, Ended(t, ok)) /\ UNCHANGED recv
    BY <1>11 DEF OnFinished, Ended, tasks
  <2>2. u = t /\ ok => WasSent(u)
    <3> SUFFICES ASSUME u = t, ok PROVE WasSent(u)
      OBVIOUS
    <3>1. Ended(t, ok) = Success(u)
      BY DEF Success
    <3>2. Has(events[e], Success(u))
      BY <2>1, <3>1, TakeEvents
    <3> QED
      BY <1>a, <3>2
  <2>3. /\ \A d \in Ends : Has(chan'[d], Success(u)) => Has(chan[d], Success(u)) \/ WasSent(u)'
        /\ Has(chan'[S], Welcome(u)) => Has(chan[S], Welcome(u))
        /\ \A d \in Ends : told'[d][u] = <<TRUE>> => told[d][u] = <<TRUE>> \/ WasSent(u)'
    BY <1>f, <2>1, <2>2
  <2> QED
    BY <1>s, <1>v, <2>1, <2>3, SuccessStep
<1>12. ASSUME NEW t \in Transfers, NEW e \in Ends, NEW ok \in BOOLEAN, NEW ty,
              OnEnding(e, Note(ty, t, 0, ok))
       PROVE  SuccessAt(u)'
  <2> DEFINE m == Note(ty, t, 0, ok)
  <2>0. m.t = t /\ m.ok = ok /\ m.ty = ty
    BY DEF Note
  <2>1. TakeMessage(e, m) /\ UNCHANGED <<events, recv>>
    BY <1>12 DEF OnEnding, tasks
  <2>2. u = t /\ ok => WasSent(u)
    <3> SUFFICES ASSUME u = t, ok PROVE WasSent(u)
      OBVIOUS
    <3>1. ty = "finished" \/ (ty = "reject" /\ e = S)
      BY <1>12, <2>0 DEF OnEnding
    <3>2. m = Success(u) \/ (m = Welcome(u) /\ e = S)
      BY <3>1 DEF Success, Welcome, Ended
    <3>3. Has(chan[e], m)
      BY <2>1, TakeChan
    <3> QED
      BY <1>a, <3>2, <3>3
  <2>3. \A d \in Ends : told'[d][u] = <<TRUE>> => told[d][u] = <<TRUE>> \/ WasSent(u)'
    <3>1. CASE UNCHANGED told
      BY <3>1
    <3>2. CASE t \in entry[e] /\ Tell(e, t, ok)
      <4>1. /\ told'[e][t] = Append(told[e][t], ok)
            /\ \A d \in Ends, w \in Transfers : (d # e \/ w # t) => told'[d][w] = told[d][w]
        BY <3>2, TellTold
      <4> QED
        BY <1>l, <2>2, <3>2, <4>1
    <3> QED
      BY <1>12, <2>0, <3>1, <3>2 DEF OnEnding
  <2> HIDE DEF m
  <2> QED
    BY <1>s, <1>m, <2>1, <2>3, SuccessStep
<1>13. ASSUME NEW t \in Transfers, NEW k \in Tasks, OnAccepted(t, k) PROVE SuccessAt(u)'
  <2>1. TakeMessage(S, Address(t, k)) /\ UNCHANGED <<events, told>>
    BY <1>13 DEF OnAccepted, Address
  <2>2. \A i \in Tasks : recv'[u][i].at = "placed" => recv[u][i].at = "placed"
    BY <1>13, <1>b DEF OnAccepted, tasks
  <2> QED
    BY <1>s, <1>m, <2>1, <2>2, SuccessStep
<1>14. ASSUME NEW t \in Transfers, NEW k \in Tasks, OnListening(t, k) PROVE SuccessAt(u)'
  <2>1. /\ Send(R, Address(t, k)) \/ UNCHANGED chan
        /\ TakeEvent(R, Ready(t, k)) /\ UNCHANGED <<told, recv>>
    BY <1>14 DEF OnListening, Address, Ready, tasks
  <2>2. Address(t, k) \in Message
    BY NotesTyped
  <2>3. Success(u) # Address(t, k) /\ Welcome(u) # Address(t, k)
    BY SuccessNotes
  <2> QED
    BY <1>s, <1>c, <1>v, <2>1, <2>2, <2>3, SuccessStep
<1>15. ASSUME NEW t \in Transfers, NEW k \in Tasks, Receiving(t, k) PROVE SuccessAt(u)'
  <2>1. UNCHANGED <<chan, told>>
    BY <1>15, ReceivingMoves DEF core
  <2>2. /\ \A i \in Tasks : (u # t \/ i # k) => recv'[u][i] = recv[u][i]
        /\ recv'[t][k].at = "placed" => WasSent(t)
    BY <1>15, ReceivingMoves
  <2>3. \A i \in Tasks : recv'[u][i].at = "placed" => recv[u][i].at = "placed" \/ WasSent(u)'
    BY <1>s, <2>2
  <2>4. \A d \in Ends : Has(events'[d], Success(u)) => Has(events[d], Success(u)) \/ WasSent(u)'
    <3>1. CASE UNCHANGED events
      BY <3>1
    <3>2. ASSUME NEW ev \in Event, Post(R, ev), Reports(t, k, recv[t][k], recv'[t][k], ev)
          PROVE  \A d \in Ends : Has(events'[d], Success(u)) => Has(events[d], Success(u)) \/ WasSent(u)'
      <4>1. Success(u) = ev => WasSent(u)'
        <5> SUFFICES ASSUME Success(u) = ev PROVE WasSent(u)'
          OBVIOUS
        <5>1. Success(u) # Ready(t, k) /\ Success(u) # Began(t) /\ Success(u) # Ended(t, FALSE)
          BY SuccessNotes
        <5>2. Success(u) = Ended(t, TRUE) /\ recv[t][k].at = "placed"
          BY <3>2, <5>1 DEF Reports
        <5>3. u = t
          BY <5>2, SuccessNotes
        <5> QED
          BY <1>s, <5>2, <5>3 DEF SuccessAt
      <4> QED
        BY <1>p, <3>2, <4>1
    <3> QED
      BY <1>15, <3>1, <3>2, ReceivingMoves
  <2> QED
    BY <1>s, <2>1, <2>3, <2>4, SuccessStep
<1>16. ASSUME NEW t \in Transfers, NEW k \in Tasks, Sending(t, k) PROVE SuccessAt(u)'
  <2>1. UNCHANGED <<chan, told, recv>>
    BY <1>16, SendingMoves DEF core
  <2>2. \A d \in Ends : Has(events'[d], Success(u)) => Has(events[d], Success(u)) \/ WasSent(u)'
    <3>1. CASE UNCHANGED events
      BY <3>1
    <3>2. ASSUME NEW ev \in Event, Post(S, ev),
                 ev = Ended(t, FALSE) \/ (ev = Ended(t, TRUE) /\ conn'[t][k] = "sent")
          PROVE  \A d \in Ends : Has(events'[d], Success(u)) => Has(events[d], Success(u)) \/ WasSent(u)'
      <4>1. Success(u) = ev => WasSent(u)'
        <5> SUFFICES ASSUME Success(u) = ev PROVE WasSent(u)'
          OBVIOUS
        <5>1. Success(u) # Ended(t, FALSE)
          BY SuccessNotes
        <5>2. Success(u) = Ended(t, TRUE) /\ conn'[t][k] = "sent"
          BY <3>2, <5>1
        <5>3. u = t
          BY <5>2, SuccessNotes
        <5> QED
          BY <5>2, <5>3 DEF WasSent
      <4> QED
        BY <1>p, <3>2, <4>1
    <3> QED
      BY <1>16, <3>1, <3>2, SendingMoves
  <2> QED
    BY <1>s, <2>1, <2>2, SuccessStep
<1> QED
  BY <1>1, <1>2, <1>3, <1>4, <1>5, <1>6, <1>7, <1>8, <1>9, <1>10, <1>11, <1>12, <1>13, <1>14,
     <1>15, <1>16 DEF Next, People, Core

-----------------------------------------------------------------------------
(* A listener is timed. *)

LEMMA InitTimed == Init => TimedInv
<1> SUFFICES ASSUME Init, NEW t \in Transfers PROVE HeldAt(t) /\ TimedAt(t)
  BY DEF TimedInv
<1>1. events[R] = <<>> /\ running[R][t] = 0 /\ \A k \in Tasks : recv[t][k].at = "none"
  BY EndsAre DEF Init, Task
<1> QED
  BY <1>1, EmptyHas, TasksPositive DEF HeldAt, TimedAt, Stopping, Unconnected

(* With a report on its way, the only task is past waiting.                 *)
LEMMA StoppingFree ==
  ASSUME NEW t \in Transfers, TimedAt(t), Stopping(t)
  PROVE  \A k \in Tasks : ~Unconnected(t, k)
  BY DEF TimedAt, Unconnected

(* A step that neither accepts u nor starts a task for it.                  *)
LEMMA TimedStep ==
  ASSUME NEW u \in Transfers, HeldAt(u), pressed[u] <= 1 => TimedAt(u),
         pressed'[u] = pressed[u],
         \A k \in Tasks : recv'[u][k].at = "none" <=> recv[u][k].at = "none",
         \A k \in Tasks : Unconnected(u, k)' => Unconnected(u, k),
         Has(events'[R], Pressed(u)) => Has(events[R], Pressed(u)),
         Once(events[R], Pressed(u)) => Once(events'[R], Pressed(u)),
         Stopping(u)' => Stopping(u) \/ \E k \in Tasks : recv'[u][k].at # "none" /\ ~Unconnected(u, k)',
         \A k \in Tasks : TimedAt(u) /\ Unconnected(u, k)' => u \in wait' /\ running'[R][u] = k,
         \A k \in Tasks : running'[R][u] = k => running[R][u] = k
  PROVE  HeldAt(u)' /\ (pressed[u] <= 1 => TimedAt(u))'
<1>1. HeldAt(u)'
  BY DEF HeldAt
<1>2. ASSUME TimedAt(u) PROVE TimedAt(u)'
  <2>1. pressed'[u] = 0 => ~Has(events'[R], Pressed(u)) /\ \A k \in Tasks : recv'[u][k].at = "none"
    BY <1>2 DEF TimedAt
  <2>2. Has(events'[R], Pressed(u)) => \A k \in Tasks : recv'[u][k].at = "none"
    BY <1>2 DEF TimedAt
  <2>3. \A j, k \in Tasks : recv'[u][j].at # "none" /\ recv'[u][k].at # "none" => j = k
    BY <1>2 DEF TimedAt
  <2>4. Stopping(u)' => \E k \in Tasks : recv'[u][k].at # "none" /\ ~Unconnected(u, k)'
    BY <1>2 DEF TimedAt
  <2> QED
    BY <1>2, <2>1, <2>2, <2>3, <2>4 DEF TimedAt
<1> QED
  BY <1>1, <1>2

LEMMA TimedKept ==
  ASSUME Shape, Next, NEW u \in Transfers, HeldAt(u), pressed[u] <= 1 => TimedAt(u)
  PROVE  HeldAt(u)' /\ (pressed[u] <= 1 => TimedAt(u))'
<1> USE EndsAre
<1>t. /\ running \in [Ends -> [Transfers -> Tasks \cup {0}]]
      /\ recv \in [Transfers -> [Tasks -> RecvTask]]
      /\ pressed \in [Transfers -> 0 .. MaxAccepts] /\ wait \subseteq Transfers
  BY DEF Shape, TypeOK
<1>c. TimedAt(u) => \A k \in Tasks : Unconnected(u, k) => u \in wait /\ running[R][u] = k
  BY DEF TimedAt
<1>o. Over.at = "over" /\ Task("spawned", 0, NoPath).at = "spawned"
  BY DEF Over, Task
\* Events that are taken, or others posted.
<1>v. ASSUME NEW e \in Ends, NEW ev, TakeEvent(e, ev)
      PROVE  /\ Has(events'[R], Pressed(u)) => Has(events[R], Pressed(u))
             /\ Once(events[R], Pressed(u)) => Once(events'[R], Pressed(u))
             /\ Stopping(u)' => Stopping(u)
  <2>1. /\ \A d \in Ends : \A x : Has(events'[d], x) => Has(events[d], x)
        /\ \A d \in Ends : \A x : Once(events[d], x) => Once(events'[d], x)
    BY <1>v, TakeEvents
  <2> QED
    BY <2>1 DEF Stopping
<1>p. ASSUME NEW e \in Ends, NEW ev \in Event, Post(e, ev), e = S \/ Pressed(u) # ev
      PROVE  /\ Has(events'[R], Pressed(u)) => Has(events[R], Pressed(u))
             /\ Once(events[R], Pressed(u)) => Once(events'[R], Pressed(u))
             /\ Stopping(u)' => \/ Stopping(u)
                                \/ e = R /\ (ev = Began(u) \/ \E ok \in BOOLEAN : ev = Ended(u, ok))
  <2>1. /\ \A d \in Ends : \A x : Has(events'[d], x) <=> Has(events[d], x) \/ (x = ev /\ d = e)
        /\ \A d \in Ends : \A x :
             Once(events[d], x) /\ (x # ev \/ d # e \/ ~Has(events[d], x)) => Once(events'[d], x)
    BY <1>p, PostEvents
  <2> QED
    BY <1>p, <2>1 DEF Stopping
\* Nothing of u but its events changed.
<1>q. ASSUME UNCHANGED <<recv, wait, running, pressed>>,
             Has(events'[R], Pressed(u)) => Has(events[R], Pressed(u)),
             Once(events[R], Pressed(u)) => Once(events'[R], Pressed(u)),
             Stopping(u)' => Stopping(u)
      PROVE  HeldAt(u)' /\ (pressed[u] <= 1 => TimedAt(u))'
  <2>1. \A k \in Tasks : Unconnected(u, k)' <=> Unconnected(u, k)
    BY <1>q DEF Unconnected
  <2> QED
    BY <1>c, <1>q, <2>1, TimedStep
\* A cancelled transfer: the task held is over.
<1>b. ASSUME NEW e \in Ends, NEW t \in Transfers, BulkCancel(e, t), UNCHANGED pressed,
             u # t => (u \in wait => u \in wait'), e = S => (u \in wait => u \in wait'),
             Has(events'[R], Pressed(u)) => Has(events[R], Pressed(u)),
             Once(events[R], Pressed(u)) => Once(events'[R], Pressed(u)),
             Stopping(u)' => Stopping(u)
      PROVE  HeldAt(u)' /\ (pressed[u] <= 1 => TimedAt(u))'
  <2>1. \A k \in Tasks :
          recv'[u][k] = IF e = R /\ u = t /\ k = running[e][t] THEN Over ELSE recv[u][k]
    BY <1>b, BulkCancelShape
  <2>2. running'[R][u] = IF R = e /\ u = t THEN 0 ELSE running[R][u]
    BY <1>b, BulkCancelShape
  <2>3. \A k \in Tasks : recv'[u][k].at = "none" <=> recv[u][k].at = "none"
    BY <1>o, <2>1 DEF HeldAt
  <2>4. \A k \in Tasks : Unconnected(u, k)' => Unconnected(u, k)
    BY <1>o, <2>1 DEF Unconnected
  <2>5. \A k \in Tasks : running'[R][u] = k => running[R][u] = k
    BY <2>2, TasksPositive
  <2>6. ASSUME NEW k \in Tasks, TimedAt(u), Unconnected(u, k)'
        PROVE  u \in wait' /\ running'[R][u] = k
    <3>1. u \in wait /\ running[R][u] = k
      BY <1>c, <2>4, <2>6
    <3>2. ~(e = R /\ u = t)
      BY <1>o, <2>1, <2>6, <3>1 DEF Unconnected
    <3> QED
      BY <1>b, <2>2, <3>1, <3>2
  <2> QED
    BY <1>b, <2>3, <2>4, <2>5, <2>6, TimedStep
<1>1. CASE Connect \/ \E e \in Ends : Disconnect(e)
  BY <1>1, <1>q DEF Connect, Disconnect, tasks, people, Stopping
<1>2. ASSUME NEW t \in Transfers, Offer(t) PROVE HeldAt(u)' /\ (pressed[u] <= 1 => TimedAt(u))'
  BY <1>2, <1>q DEF Offer, tasks, Stopping
<1>3. ASSUME NEW t \in Transfers, PressAccept(t) PROVE HeldAt(u)' /\ (pressed[u] <= 1 => TimedAt(u))'
  <2>1. /\ Post(R, Pressed(t)) /\ UNCHANGED <<recv, wait, running>>
        /\ pressed' = [pressed EXCEPT ![t] = @ + 1]
    BY <1>3 DEF PressAccept, Pressed, core, tasks
  <2>2. Pressed(t) \in Event /\ Pressed(t) # Began(u) /\ \A ok \in BOOLEAN : Pressed(t) # Ended(u, ok)
    BY NotesTyped, NotesDiffer
  <2>3. CASE u # t
    <3>1. Pressed(u) # Pressed(t)
      BY <2>3, NotesDiffer
    <3>2. pressed'[u] = pressed[u]
      BY <1>t, <2>1, <2>3
    <3>3. \A k \in Tasks : Unconnected(u, k)' <=> Unconnected(u, k)
      BY <2>1 DEF Unconnected
    <3>4. /\ Has(events'[R], Pressed(u)) => Has(events[R], Pressed(u))
          /\ Once(events[R], Pressed(u)) => Once(events'[R], Pressed(u))
          /\ Stopping(u)' => Stopping(u)
      BY <1>p, <2>1, <2>2, <3>1
    <3> QED
      BY <1>c, <2>1, <3>2, <3>3, <3>4, TimedStep
  <2>4. CASE u = t
    <3>1. HeldAt(u)'
      BY <2>1 DEF HeldAt
    <3>2. ASSUME pressed'[u] <= 1 PROVE TimedAt(u)'
      <4>1. pressed[u] = 0 /\ pressed'[u] = 1
        BY <1>t, <2>1, <2>4, <3>2
      <4>2. TimedAt(u)
        BY <4>1
      <4>3. ~Has(events[R], Pressed(u)) /\ \A k \in Tasks : recv[u][k].at = "none"
        BY <4>1, <4>2 DEF TimedAt
      <4>4. Once(events'[R], Pressed(u))
        <5>1. \A d \in Ends : \A x :
               Once(events[d], x) /\ (x # Pressed(t) \/ d # R \/ ~Has(events[d], x)) => Once(events'[d], x)
          BY <2>1, <2>2, PostEvents
        <5> QED
          BY <4>2, <4>3, <5>1 DEF TimedAt
      <4>5. Stopping(u)' => Stopping(u)
        <5>1. \A d \in Ends : \A x : Has(events'[d], x) <=> Has(events[d], x) \/ (x = Pressed(t) /\ d = R)
          BY <2>1, <2>2, PostEvents
        <5> QED
          BY <2>2, <5>1 DEF Stopping
      <4> QED
        BY <2>1, <4>1, <4>2, <4>3, <4>4, <4>5 DEF TimedAt, Unconnected
    <3> QED
      BY <3>1, <3>2
  <2> QED
    BY <2>3, <2>4
<1>4. ASSUME NEW t \in Transfers, PressReject(t) PROVE HeldAt(u)' /\ (pressed[u] <= 1 => TimedAt(u))'
  <2> DEFINE ev == Note("reject", t, 0, FALSE)
  <2>1. Post(R, ev) /\ UNCHANGED <<recv, wait, running, pressed>>
    BY <1>4 DEF PressReject, core, tasks, people
  <2>2. ev \in Event
    BY NotesTyped
  <2>3. Pressed(u) # ev /\ ev # Began(u) /\ \A ok \in BOOLEAN : ev # Ended(u, ok)
    BY DEF Pressed, Began, Ended, Note
  <2> HIDE DEF ev
  <2> QED
    BY <1>p, <1>q, <2>1, <2>2, <2>3
<1>5. ASSUME NEW t \in Transfers, NEW e \in Ends, Cancel(e, t)
      PROVE  HeldAt(u)' /\ (pressed[u] <= 1 => TimedAt(u))'
  BY <1>5, <1>b DEF Cancel, Stopping
<1>6. ASSUME NEW t \in Transfers, OnAccept(t) PROVE HeldAt(u)' /\ (pressed[u] <= 1 => TimedAt(u))'
  <2>0. TakeEvent(R, Pressed(t)) /\ UNCHANGED pressed
    BY <1>6 DEF OnAccept, Pressed, people
  <2>1. /\ Has(events'[R], Pressed(u)) => Has(events[R], Pressed(u))
        /\ Once(events[R], Pressed(u)) => Once(events'[R], Pressed(u))
        /\ Stopping(u)' => Stopping(u)
    BY <1>v, <2>0
  <2>2. CASE UNCHANGED <<wait, running, tasks>>
    BY <1>q, <2>0, <2>1, <2>2 DEF tasks
  <2>3. ASSUME NEW k \in Tasks, recv' = [recv EXCEPT ![t][k] = Task("spawned", 0, NoPath)],
               running' = [running EXCEPT ![R][t] = k], wait' = wait \cup {t}
        PROVE  HeldAt(u)' /\ (pressed[u] <= 1 => TimedAt(u))'
    <3>1. CASE u # t
      <4>1. recv'[u] = recv[u] /\ running'[R][u] = running[R][u]
        BY <1>t, <2>3, <3>1
      <4>2. \A j \in Tasks : Unconnected(u, j)' <=> Unconnected(u, j)
        BY <4>1 DEF Unconnected
      <4> QED
        BY <1>c, <2>0, <2>1, <2>3, <4>1, <4>2, TimedStep
    <3>2. CASE u = t
      <4>1. /\ recv'[u][k].at = "spawned" /\ running'[R][u] = k /\ u \in wait'
            /\ \A j \in Tasks : j # k => recv'[u][j] = recv[u][j]
        BY <1>t, <1>o, <2>3, <3>2
      <4>2. HeldAt(u)'
        BY <4>1 DEF HeldAt
      <4>3. ASSUME pressed[u] <= 1 PROVE TimedAt(u)'
        <5>1. TimedAt(u)
          BY <4>3
        <5>2. Has(events[R], Pressed(u)) /\ (Once(events[R], Pressed(u)) => ~Has(events'[R], Pressed(u)))
          BY <2>0, <3>2, TakeEvents
        <5>3. /\ \A j \in Tasks : recv[u][j].at = "none"
              /\ pressed[u] # 0 /\ ~Stopping(u) /\ ~Has(events'[R], Pressed(u))
              /\ Once(events'[R], Pressed(u))
          BY <2>1, <5>1, <5>2 DEF TimedAt
        <5>4. \A j \in Tasks : recv'[u][j].at # "none" => j = k
          BY <4>1, <5>3
        <5> QED
          BY <2>0, <2>1, <4>1, <5>3, <5>4 DEF TimedAt, Unconnected
      <4> QED
        BY <2>0, <4>2, <4>3
    <3> QED
      BY <3>1, <3>2
  <2>4. CASE BulkCancel(R, t) /\ UNCHANGED wait
    BY <1>b, <2>0, <2>1, <2>4
  <2> QED
    BY <1>6, <2>2, <2>3, <2>4 DEF OnAccept
<1>7. ASSUME NEW t \in Transfers, OnReject(t) \/ \E k \in Tasks : OnListening(t, k)
      PROVE  HeldAt(u)' /\ (pressed[u] <= 1 => TimedAt(u))'
  <2>1. UNCHANGED <<recv, wait, running, pressed>> /\ \E ev : TakeEvent(R, ev)
    BY <1>7 DEF OnReject, OnListening, tasks, people
  <2> QED
    BY <1>q, <1>v, <2>1
<1>8. ASSUME NEW t \in Transfers, OnOffer(t) \/ \E e \in Ends : \E m : OnEnding(e, m)
      PROVE  HeldAt(u)' /\ (pressed[u] <= 1 => TimedAt(u))'
  BY <1>8, <1>q DEF OnOffer, OnEnding, tasks, people, Stopping
<1>9. ASSUME NEW t \in Transfers, OnStarted(t) PROVE HeldAt(u)' /\ (pressed[u] <= 1 => TimedAt(u))'
  <2>1. TakeEvent(R, Began(t)) /\ wait' = wait \ {t} /\ UNCHANGED <<recv, running, pressed>>
    BY <1>9 DEF OnStarted, Began, tasks, people
  <2>2. u = t => Stopping(u)
    BY <2>1, TakeEvents DEF Stopping
  <2>3. \A k \in Tasks : Unconnected(u, k)' <=> Unconnected(u, k)
    BY <2>1 DEF Unconnected
  <2>4. \A k \in Tasks : TimedAt(u) /\ Unconnected(u, k)' => u \in wait' /\ running'[R][u] = k
    BY <1>c, <2>1, <2>2, <2>3, StoppingFree
  <2>5. /\ Has(events'[R], Pressed(u)) => Has(events[R], Pressed(u))
        /\ Once(events[R], Pressed(u)) => Once(events'[R], Pressed(u))
        /\ Stopping(u)' => Stopping(u)
    BY <1>v, <2>1
  <2> QED
    BY <2>1, <2>3, <2>4, <2>5, TimedStep
<1>10. ASSUME NEW t \in Transfers, GiveUp(t) PROVE HeldAt(u)' /\ (pressed[u] <= 1 => TimedAt(u))'
  <2>1. BulkCancel(R, t) /\ wait' = wait \ {t} /\ UNCHANGED <<events, pressed>>
    BY <1>10 DEF GiveUp, OnBulkFinished, people
  <2> QED
    BY <1>b, <2>1 DEF Stopping
<1>11. ASSUME NEW t \in Transfers, NEW e \in Ends, NEW ok \in BOOLEAN, OnFinished(e, t, ok)
       PROVE  HeldAt(u)' /\ (pressed[u] <= 1 => TimedAt(u))'
  <2>1. /\ TakeEvent(e, Ended(t, ok)) /\ UNCHANGED <<recv, pressed>>
        /\ running' = [running EXCEPT ![e][t] = 0]
        /\ wait' = IF e = R THEN wait \ {t} ELSE wait
    BY <1>11 DEF OnFinished, OnBulkFinished, Ended, tasks, people
  <2>2. u = t /\ e = R => Stopping(u)
    BY <2>1, TakeEvents DEF Stopping
  <2>3. \A k \in Tasks : Unconnected(u, k)' <=> Unconnected(u, k)
    BY <2>1 DEF Unconnected
  <2>4. running'[R][u] = IF e = R /\ u = t THEN 0 ELSE running[R][u]
    BY <1>t, <2>1
  <2>5. \A k \in Tasks : TimedAt(u) /\ Unconnected(u, k)' => u \in wait' /\ running'[R][u] = k
    BY <1>c, <2>1, <2>2, <2>3, <2>4, StoppingFree
  <2>6. /\ Has(events'[R], Pressed(u)) => Has(events[R], Pressed(u))
        /\ Once(events[R], Pressed(u)) => Once(events'[R], Pressed(u))
        /\ Stopping(u)' => Stopping(u)
    BY <1>v, <2>1
  <2>7. \A k \in Tasks : running'[R][u] = k => running[R][u] = k
    BY <2>4, TasksPositive
  <2> QED
    BY <2>1, <2>3, <2>5, <2>6, <2>7, TimedStep
<1>12. ASSUME NEW t \in Transfers, NEW k \in Tasks, OnAccepted(t, k)
       PROVE  HeldAt(u)' /\ (pressed[u] <= 1 => TimedAt(u))'
  <2>0. UNCHANGED <<events, wait, pressed>>
    BY <1>12 DEF OnAccepted, people
  <2>1. CASE BulkCancel(S, t)
    BY <1>b, <2>0, <2>1 DEF Stopping
  <2>2. CASE UNCHANGED recv /\ (UNCHANGED running \/ running' = [running EXCEPT ![S][t] = k])
    <3>1. running'[R] = running[R]
      BY <1>t, <2>2
    <3>2. \A j \in Tasks : Unconnected(u, j)' <=> Unconnected(u, j)
      BY <2>2 DEF Unconnected
    <3>3. Stopping(u)' <=> Stopping(u)
      BY <2>0 DEF Stopping
    <3> QED
      BY <1>c, <2>0, <2>2, <3>1, <3>2, <3>3, TimedStep
  <2> QED
    BY <1>12, <2>1, <2>2 DEF OnAccepted, tasks
<1>13. ASSUME NEW t \in Transfers, NEW k \in Tasks, Receiving(t, k)
       PROVE  HeldAt(u)' /\ (pressed[u] <= 1 => TimedAt(u))'
  <2>0. UNCHANGED <<wait, running, pressed>>
    BY <1>13, ReceivingMoves DEF core, people
  <2>1. \A j \in Tasks : (u # t \/ j # k) => recv'[u][j] = recv[u][j]
    BY <1>13, ReceivingMoves
  <2>2. /\ recv[t][k].at # "none" /\ recv'[t][k].at \notin {"none", "spawned"}
        /\ recv'[t][k].at \in {"bound", "waiting"} => recv[t][k].at \in {"spawned", "bound"}
    BY <1>13, ReceivingMoves
  <2>3. \A j \in Tasks : recv'[u][j].at = "none" <=> recv[u][j].at = "none"
    BY <2>1, <2>2
  <2>4. \A j \in Tasks : Unconnected(u, j)' => Unconnected(u, j)
    BY <2>1, <2>2 DEF Unconnected
  <2>5. /\ Has(events'[R], Pressed(u)) => Has(events[R], Pressed(u))
        /\ Once(events[R], Pressed(u)) => Once(events'[R], Pressed(u))
        /\ Stopping(u)' => Stopping(u) \/ \E j \in Tasks : recv'[u][j].at # "none" /\ ~Unconnected(u, j)'
    <3>1. CASE UNCHANGED events
      BY <3>1 DEF Stopping
    <3>2. ASSUME NEW ev \in Event, Post(R, ev), Reports(t, k, recv[t][k], recv'[t][k], ev)
          PROVE  /\ Has(events'[R], Pressed(u)) => Has(events[R], Pressed(u))
                 /\ Once(events[R], Pressed(u)) => Once(events'[R], Pressed(u))
                 /\ Stopping(u)' => Stopping(u)
                                    \/ \E j \in Tasks : recv'[u][j].at # "none" /\ ~Unconnected(u, j)'
      <4>1. Pressed(u) # ev
        <5>1. /\ Pressed(u) # Ready(t, k) /\ Pressed(u) # Began(t)
              /\ Pressed(u) # Ended(t, FALSE) /\ Pressed(u) # Ended(t, TRUE)
          BY DEF Pressed, Ready, Began, Ended, Note
        <5> QED
          BY <3>2, <5>1 DEF Reports
      <4>2. ASSUME ev = Began(u) \/ \E ok \in BOOLEAN : ev = Ended(u, ok)
            PROVE  \E j \in Tasks : recv'[u][j].at # "none" /\ ~Unconnected(u, j)'
        <5>1. ev # Ready(t, k)
          BY <4>2, NotesDiffer
        <5>2. recv'[t][k].at \in {"started", "over"} /\ ev \in {Began(t), Ended(t, FALSE), Ended(t, TRUE)}
          BY <3>2, <5>1 DEF Reports
        <5>3. u = t
          BY <4>2, <5>2 DEF Began, Ended, Note
        <5> QED
          BY <5>2, <5>3 DEF Unconnected
      <4> QED
        BY <1>p, <3>2, <4>1, <4>2
    <3> QED
      BY <1>13, <3>1, <3>2, ReceivingMoves
  <2> QED
    BY <1>c, <2>0, <2>3, <2>4, <2>5, TimedStep
<1>14. ASSUME NEW t \in Transfers, NEW k \in Tasks, Sending(t, k)
       PROVE  HeldAt(u)' /\ (pressed[u] <= 1 => TimedAt(u))'
  <2>0. UNCHANGED <<recv, wait, running, pressed>>
    BY <1>14, SendingMoves DEF core, people
  <2>1. UNCHANGED events \/ \E ev \in Event : Post(S, ev)
    BY <1>14, SendingMoves
  <2>2. /\ Has(events'[R], Pressed(u)) => Has(events[R], Pressed(u))
        /\ Once(events[R], Pressed(u)) => Once(events'[R], Pressed(u))
        /\ Stopping(u)' => Stopping(u)
    <3>1. CASE UNCHANGED events
      BY <3>1 DEF Stopping
    <3>2. ASSUME NEW ev \in Event, Post(S, ev)
          PROVE  /\ Has(events'[R], Pressed(u)) => Has(events[R], Pressed(u))
                 /\ Once(events[R], Pressed(u)) => Once(events'[R], Pressed(u))
                 /\ Stopping(u)' => Stopping(u)
      BY <1>p, <3>2
    <3> QED
      BY <2>1, <3>1, <3>2
  <2> QED
    BY <1>q, <2>0, <2>2
<1> QED
  BY <1>1, <1>2, <1>3, <1>4, <1>5, <1>6, <1>7, <1>8, <1>9, <1>10, <1>11, <1>12, <1>13, <1>14
     DEF Next, People, Core


-----------------------------------------------------------------------------
(* All of it together. *)

ShareInv == Shape /\ EndsInv /\ DialInv /\ SuccessInv /\ TimedInv

LEMMA InitShare == Init => ShareInv
  BY InitShape, InitEnds, InitDial, InitSuccess, InitTimed DEF ShareInv

LEMMA StepShare == ShareInv /\ [Next]_vars => ShareInv'
<1> SUFFICES ASSUME ShareInv, [Next]_vars PROVE ShareInv'
  OBVIOUS
<1>0. Shape /\ EndsInv /\ DialInv /\ SuccessInv /\ TimedInv
  BY DEF ShareInv
<1>1. Shape'
  BY <1>0, StepShape
<1>2. CASE Next
  <2>1. EndsInv'
    BY <1>0, <1>2, EndsKept
  <2>2. DialInv'
    BY <1>0, <1>2, DialKept DEF DialInv
  <2>3. DiskInv'
    BY <1>0, <1>2, WholeWasSent DEF SuccessInv
  <2>4. ASSUME NEW u \in Transfers PROVE SuccessAt(u)'
    BY <1>0, <1>2, SuccessKept DEF SuccessInv
  <2>5. ASSUME NEW u \in Transfers PROVE HeldAt(u)' /\ (pressed[u] <= 1 => TimedAt(u))'
    BY <1>0, <1>2, TimedKept DEF TimedInv
  <2>6. SuccessInv'
    BY <2>3, <2>4 DEF SuccessInv
  <2>7. TimedInv'
    BY <2>5 DEF TimedInv
  <2> QED
    BY <1>1, <2>1, <2>2, <2>6, <2>7 DEF ShareInv
<1>3. CASE UNCHANGED vars
  <2>1. UNCHANGED <<core, running, events, files, tasks, people>>
    BY <1>3 DEF vars
  <2>2. EndsInv'
    BY <1>0, <2>1, EndsSame DEF core, people
  <2>3. DialInv'
    BY <1>0, <2>1 DEF core, tasks, DialInv, DialledOnce, Underway
  <2>4. \A t \in Transfers : WasSent(t)' <=> WasSent(t)
    BY <2>1 DEF tasks, WasSent
  <2>5. DiskInv'
    BY <1>0, <2>1 DEF tasks, SuccessInv, DiskInv, WasSent
  <2>6. ASSUME NEW u \in Transfers PROVE SuccessAt(u)'
    BY <1>0, <2>1, <2>4 DEF core, tasks, SuccessInv, SuccessAt
  <2>7. TimedInv'
    BY <1>0, <2>1 DEF core, tasks, people, TimedInv, HeldAt, TimedAt, Stopping, Unconnected
  <2> QED
    BY <1>1, <2>2, <2>3, <2>5, <2>6, <2>7 DEF ShareInv, SuccessInv
<1> QED
  BY <1>2, <1>3

(* However a task's report, the other end's message, a refusal, a cancel and *)
(* the deadline race, each host is told of one ending at most.              *)
THEOREM OneEnding == Spec => []EndsOnce
<1>1. ShareInv => EndsOnce
  BY DEF ShareInv, EndsInv, EndsAt, EndsOnce
<1> QED
  BY <1>1, InitShare, StepShare, PTL DEF Spec

(* No host is told that a file went across, and no file is in place, unless *)
(* the sender wrote every byte of it and the end of file.                   *)
THEOREM HonestSuccess == Spec => []SuccessIsReal
<1>1. ShareInv => SuccessIsReal
  BY DEF ShareInv, SuccessInv, DiskInv, SuccessAt, SuccessIsReal
<1> QED
  BY <1>1, InitShare, StepShare, PTL DEF Spec

(* While the task of an offer accepted once has no connection, the deadline *)
(* of on_tick is set and what it would abort is this task.                  *)
THEOREM PortIsTimed == Spec => []ListenerIsTimed
<1>1. ShareInv => ListenerIsTimed
  BY DEF ShareInv, TimedInv, TimedAt, ListenerIsTimed
<1> QED
  BY <1>1, InitShare, StepShare, PTL DEF Spec


-----------------------------------------------------------------------------
(* A file in place stays as it is. *)

(* What the task of u will rename onto is u's own reservation.              *)
ReservedAt(u) ==
  \A k \in Tasks :
    /\ recv[u][k].at \in {"bound", "waiting", "started"} /\ incoming[u].dest # NoPath
         => disk[incoming[u].dest] = File(u, "reserved")
    /\ recv[u][k].at = "reading" => disk[recv[u][k].dest] = File(u, "reserved")

OwnInv == AcceptedOnce => \A u \in Transfers : ReservedAt(u)

LEMMA FilesDiffer ==
  /\ NoFile.is = "absent" /\ KeptFile.is = "kept"
  /\ \A t, w : File(t, w).is = w /\ File(t, w).of = t
  BY DEF NoFile, KeptFile, File

LEMMA PlainPaths ==
  /\ NoPath \notin Plain
  /\ \A p \in Paths : p \in Plain \/ p[2] = 1
  /\ \A p \in Plain : p \in Paths /\ p[2] = 0 /\ TempBeside(p)[2] = 1
  BY DEF Plain, Paths, NoPath, TempBeside

LEMMA InitOwn == Init => OwnInv
<1>1. Init => \A u \in Transfers, k \in Tasks : recv[u][k].at = "none"
  BY DEF Init, Task
<1> QED
  BY <1>1 DEF OwnInv, ReservedAt

(* A step that takes no reservation of u away and gives it no other.        *)
LEMMA OwnStep ==
  ASSUME Shape, NEW u \in Transfers, ReservedAt(u),
         \A p \in Plain : disk[p] = File(u, "reserved") => disk'[p] = disk[p],
         incoming'[u].dest = incoming[u].dest \/ incoming'[u].dest = NoPath,
         \A k \in Tasks :
           \/ recv'[u][k] = recv[u][k]
           \/ recv'[u][k].at \in {"none", "spawned", "placed", "over"}
           \/ recv'[u][k].at \in {"waiting", "started"} /\ recv[u][k].at \in {"bound", "waiting"}
  PROVE  ReservedAt(u)'
<1>1. incoming[u].dest # NoPath => incoming[u].dest \in Plain
  BY DEF Shape, GoodEntry, NoEntry
<1>2. \A k \in Tasks : recv[u][k].at = "reading" => recv[u][k].dest \in Plain
  BY DEF Shape, GoodTask
<1>3. ASSUME NEW k \in Tasks, recv'[u][k].at \in {"bound", "waiting", "started"},
             incoming'[u].dest # NoPath
      PROVE  disk'[incoming'[u].dest] = File(u, "reserved")
  <2>1. recv[u][k].at \in {"bound", "waiting", "started"}
    BY <1>3
  <2> QED
    BY <1>1, <1>3, <2>1 DEF ReservedAt
<1>4. ASSUME NEW k \in Tasks, recv'[u][k].at = "reading"
      PROVE  disk'[recv'[u][k].dest] = File(u, "reserved")
  BY <1>2, <1>4 DEF ReservedAt
<1> QED
  BY <1>3, <1>4 DEF ReservedAt

(* What a receiving task does to the directory: it claims a name nobody has, *)
(* writes temporaries, and renames onto the name it was given.              *)
LEMMA ReceivingDisk ==
  ASSUME Shape, NEW t \in Transfers, NEW k \in Tasks, Receiving(t, k)
  PROVE  /\ \A p \in Plain : \/ disk'[p] = disk[p]
                             \/ disk[p] = NoFile
                             \/ recv[t][k].at = "reading" /\ p = recv[t][k].dest
                             \/ /\ recv[t][k].at = "started" /\ p = incoming[t].dest
                                /\ recv'[t][k].at = "over"
         /\ \A u \in Transfers : u # t => incoming'[u] = incoming[u]
<1> DEFINE r == recv[t][k]
           Fine == \A p \in Plain : \/ disk'[p] = disk[p]
                                    \/ disk[p] = NoFile
                                    \/ r.at = "reading" /\ p = r.dest
                                    \/ r.at = "started" /\ p = incoming[t].dest /\ recv'[t][k].at = "over"
           Mine == \A u \in Transfers : u # t => incoming'[u] = incoming[u]
<1>t. disk \in [Paths -> Contents] /\ incoming \in [Transfers -> Entry]
  BY DEF Shape, TypeOK
<1>p. r.at = "reading" => r.dest \in Plain
  BY DEF Shape, GoodTask
<1>q. incoming[t].connected # 0 => incoming[t].dest \in Plain
  BY DEF Shape, GoodEntry, NoEntry
<1>s. UNCHANGED disk => Fine
  OBVIOUS
<1>r. ASSUME NEW p \in FreePath, Reserve(t, p) PROVE Fine
  <2>1. p \in Plain /\ disk[p] = NoFile
    BY DEF FreePath, Plain
  <2>2. \A x \in Paths : x # p => disk'[x] = disk[x]
    BY <1>t, <1>r DEF Reserve
  <2> QED
    BY <2>1, <2>2, PlainPaths
<1>w. ASSUME r.at = "reading", disk'[TempBeside(r.dest)] = NoFile,
             \A x \in Paths : x # r.dest /\ x # TempBeside(r.dest) => disk'[x] = disk[x]
      PROVE  Fine
  <2>1. \A p \in Plain : p # TempBeside(r.dest)
    BY <1>p, <1>w, PlainPaths
  <2>2. \A p \in Plain : p # r.dest => disk'[p] = disk[p]
    BY <1>w, <2>1, PlainPaths
  <2> QED
    BY <1>w, <2>2
<1>f. Forget(R, t) => Mine
  BY <1>t, EndsAre DEF Forget
<1>1. CASE Listen(t, k)
  BY <1>1, <1>r, <1>t DEF Listen
<1>2. CASE ListenFails(t, k)
  BY <1>2, <1>r, <1>s DEF ListenFails, files
<1>3. CASE TakeListener(t, k)
  BY <1>3, <1>s, <1>t DEF TakeListener
<1>4. CASE Accept(t, k)
  BY <1>4, <1>s, <1>t DEF Accept
<1>5. CASE AcceptFails(t, k)
  BY <1>5, <1>s DEF AcceptFails, files
<1>6. CASE Read(t, k)
  <2> DEFINE d == incoming[t].dest
  <2>1. CASE incoming[t].connected # 0
    <3>1. d \in Plain /\ TempBeside(d) \in Paths
      BY <1>q, <2>1, TempInPaths
    <3>2. disk' = [disk EXCEPT ![TempBeside(d)] = File(t, "partial")]
      BY <1>6, <2>1 DEF Read
    <3>3. \A x \in Paths : disk'[x] = IF x = TempBeside(d) THEN File(t, "partial") ELSE disk[x]
      BY <1>t, <3>1, <3>2
    <3>4. Fine
      BY <3>1, <3>3, PlainPaths
    <3> QED
      BY <1>6, <1>t, <2>1, <3>4 DEF Read
  <2>2. CASE incoming[t].connected = 0
    BY <1>6, <1>s, <2>2 DEF Read
  <2> QED
    BY <2>1, <2>2
<1>7. CASE Place(t, k)
  <2>1. r.dest \in Plain /\ TempBeside(r.dest) \in Paths /\ TempBeside(r.dest) # r.dest
    BY <1>7, <1>p, TempInPaths DEF Place
  <2>2. /\ disk'[TempBeside(r.dest)] = NoFile
        /\ \A x \in Paths : x # r.dest /\ x # TempBeside(r.dest) => disk'[x] = disk[x]
    BY <1>7, <1>t, <2>1, PlainPaths DEF Place
  <2>3. Fine
    BY <1>7, <1>w, <2>2 DEF Place
  <2> QED
    BY <1>7, <2>3 DEF Place, files
<1>8. CASE Placed(t, k)
  BY <1>8, <1>f, <1>s DEF Placed
<1>9. CASE ReadFails(t, k)
  <2>1. r.dest \in Plain /\ TempBeside(r.dest) \in Paths /\ TempBeside(r.dest) # r.dest
    BY <1>9, <1>p, TempInPaths DEF ReadFails
  <2>2. /\ disk'[TempBeside(r.dest)] = NoFile
        /\ \A x \in Paths : x # r.dest /\ x # TempBeside(r.dest) => disk'[x] = disk[x]
    BY <1>9, <1>t, <2>1, PlainPaths DEF ReadFails, Unreserve
  <2>3. Fine
    BY <1>9, <1>w, <2>2 DEF ReadFails
  <2> QED
    BY <1>9, <1>f, <2>3 DEF ReadFails
<1>10. CASE CreateFails(t, k)
  <2>1. r.at = "started" /\ EndTask(t, k, FALSE) /\ Forget(R, t)
    BY <1>10 DEF CreateFails
  <2>2. recv'[t][k].at = "over"
    <3>1. recv \in [Transfers -> [Tasks -> RecvTask]]
      BY DEF Shape, TypeOK
    <3>2. recv'[t][k] = Over
      BY <2>1, <3>1 DEF EndTask
    <3> QED
      BY <3>2 DEF Over, Task
  <2>3. \A x \in Paths : x # incoming[t].dest => disk'[x] = disk[x]
    BY <1>10, <1>t DEF CreateFails, Unreserve
  <2> QED
    BY <1>f, <2>1, <2>2, <2>3, PlainPaths
<1> QED
  BY <1>1, <1>2, <1>3, <1>4, <1>5, <1>6, <1>7, <1>8, <1>9, <1>10 DEF Receiving


(* One receiving task: with no other task for t, its own reservation is what *)
(* it hands on, and nobody else's is touched.                               *)
LEMMA ReceivingOwns ==
  ASSUME Shape, \A v \in Transfers : ReservedAt(v), NEW t \in Transfers, TimedAt(t), NEW k \in Tasks, Receiving(t, k),
         NEW u \in Transfers
  PROVE  ReservedAt(u)'
<1> DEFINE r == recv[t][k]
           q == recv'[t][k]
           d == incoming[t].dest
<1>0. /\ ReservedAt(u) /\ ReservedAt(t)
      /\ disk \in [Paths -> Contents] /\ incoming \in [Transfers -> Entry]
      /\ recv \in [Transfers -> [Tasks -> RecvTask]]
  BY DEF Shape, TypeOK
<1>1. /\ \A p \in Plain : \/ disk'[p] = disk[p]
                          \/ disk[p] = NoFile
                          \/ r.at = "reading" /\ p = r.dest
                          \/ r.at = "started" /\ p = d /\ q.at = "over"
      /\ \A v \in Transfers : v # t => incoming'[v] = incoming[v]
  BY <1>0, ReceivingDisk
<1>2. /\ \A v \in Transfers, j \in Tasks : (v # t \/ j # k) => recv'[v][j] = recv[v][j]
      /\ r.at \in {"spawned", "bound", "waiting", "started", "reading", "placed"}
  BY ReceivingMoves
<1>d. \A p \in Plain : r.at # "reading" /\ q.at # "over" /\ disk[p] = File(t, "reserved") => disk'[p] = disk[p]
  BY <1>1, FilesDiffer
<1>3. CASE u # t
  <2>1. r.at = "reading" => disk[r.dest] = File(t, "reserved")
    BY <1>0 DEF ReservedAt
  <2>s. r.at = "started" /\ d \in Plain => disk[d] = File(t, "reserved")
    BY <1>0, PlainPaths DEF ReservedAt
  <2>2. \A p \in Plain : disk[p] = File(u, "reserved") => disk'[p] = disk[p]
    BY <1>1, <1>3, <2>1, <2>s, FilesDiffer
  <2> QED
    BY <1>0, <1>1, <1>2, <1>3, <2>2, OwnStep
<1>4. CASE u = t
  <2> SUFFICES ReservedAt(t)'
    BY <1>4
  <2>1. \A j \in Tasks : j # k => recv[t][j].at = "none" /\ recv'[t][j].at = "none"
    BY <1>2 DEF TimedAt
  <2>q. ASSUME NEW a, NEW v, NEW w, recv' = [recv EXCEPT ![t][k] = Task(a, v, w)]
        PROVE  q.at = a /\ q.dest = w
    BY <1>0, <2>q DEF Task
  <2>e. EndTask(t, k, TRUE) \/ EndTask(t, k, FALSE) => q.at = "over"
    BY <2>q DEF EndTask, Over
  <2>2. ASSUME q.at \in {"placed", "over"} PROVE ReservedAt(t)'
    BY <2>1, <2>2 DEF ReservedAt
  \* The entry's name stays what it was.
  <2>3. ASSUME q.at \in {"waiting", "started"}, r.at \in {"bound", "waiting"}, incoming'[t].dest = d
        PROVE  ReservedAt(t)'
    <3>1. \A j \in Tasks : \/ recv'[t][j] = recv[t][j]
                           \/ recv'[t][j].at \in {"waiting", "started"}
                              /\ recv[t][j].at \in {"bound", "waiting"}
      BY <1>2, <2>3
    <3>2. \A p \in Plain : disk[p] = File(t, "reserved") => disk'[p] = disk[p]
      BY <1>d, <2>3
    <3> QED
      BY <1>0, <2>3, <3>1, <3>2, OwnStep
  <2>4. CASE Listen(t, k)
    <3>1. PICK p \in FreePath :
            /\ Reserve(t, p)
            /\ incoming' = [incoming EXCEPT ![t] = [dest |-> p, listening |-> k, connected |-> 0]]
      BY <2>4 DEF Listen
    <3>2. incoming'[t].dest = p /\ disk'[p] = File(t, "reserved")
      BY <1>0, <3>1 DEF Reserve, FreePath
    <3>3. q.at = "bound"
      BY <2>4, <2>q DEF Listen
    <3> QED
      BY <2>1, <3>2, <3>3 DEF ReservedAt
  <2>5. CASE ListenFails(t, k)
    BY <2>2, <2>5, <2>e DEF ListenFails
  <2>6. CASE TakeListener(t, k)
    <3>1. CASE incoming[t].listening # 0
      <4>1. q.at = "waiting"
        BY <2>6, <2>q, <3>1 DEF TakeListener
      <4>2. incoming'[t].dest = d
        BY <1>0, <2>6, <3>1 DEF TakeListener, Entry
      <4> QED
        BY <2>3, <2>6, <4>1, <4>2 DEF TakeListener
    <3>2. CASE incoming[t].listening = 0
      BY <2>2, <2>6, <2>e, <3>2 DEF TakeListener
    <3> QED
      BY <3>1, <3>2
  <2>7. CASE Accept(t, k)
    <3>1. CASE incoming[t] # NoEntry
      <4>1. q.at = "started"
        BY <2>7, <2>q, <3>1 DEF Accept
      <4>2. incoming'[t].dest = d
        BY <1>0, <2>7, <3>1 DEF Accept, Entry
      <4> QED
        BY <2>3, <2>7, <4>1, <4>2 DEF Accept
    <3>2. CASE incoming[t] = NoEntry
      BY <2>2, <2>7, <2>e, <3>2 DEF Accept
    <3> QED
      BY <3>1, <3>2
  <2>8. CASE AcceptFails(t, k)
    BY <2>2, <2>8, <2>e DEF AcceptFails
  <2>9. CASE Read(t, k)
    <3>1. CASE incoming[t].connected # 0
      <4>1. q.at = "reading" /\ q.dest = d /\ r.at = "started"
        BY <2>9, <2>q, <3>1 DEF Read
      <4>2. d \in Plain
        BY <3>1 DEF Shape, GoodEntry, NoEntry
      <4>3. disk[d] = File(t, "reserved")
        BY <1>0, <4>1, <4>2, PlainPaths DEF ReservedAt
      <4>4. disk'[d] = File(t, "reserved")
        BY <1>d, <4>1, <4>2, <4>3
      <4> QED
        BY <2>1, <4>1, <4>4 DEF ReservedAt
    <3>2. CASE incoming[t].connected = 0
      BY <2>2, <2>9, <2>e, <3>2 DEF Read
    <3> QED
      BY <3>1, <3>2
  <2>10. CASE Place(t, k)
    BY <2>2, <2>10, <2>q DEF Place
  <2>11. CASE Placed(t, k)
    BY <2>2, <2>11, <2>e DEF Placed
  <2>12. CASE ReadFails(t, k)
    BY <2>2, <2>12, <2>e DEF ReadFails
  <2>13. CASE CreateFails(t, k)
    BY <2>2, <2>13, <2>e DEF CreateFails
  <2> QED
    BY <2>4, <2>5, <2>6, <2>7, <2>8, <2>9, <2>10, <2>11, <2>12, <2>13 DEF Receiving
<1> QED
  BY <1>3, <1>4


LEMMA OwnKept ==
  ASSUME Shape, \A u \in Transfers : ReservedAt(u), \A t \in Transfers : TimedAt(t), Next
  PROVE  \A u \in Transfers : ReservedAt(u)'
<1> DEFINE Owns == \A u \in Transfers : ReservedAt(u)
<1> SUFFICES Owns'
  OBVIOUS
<1> HIDE DEF Owns
<1>n. NoEntry.dest = NoPath
  BY DEF NoEntry
<1>t. incoming \in [Transfers -> Entry] /\ recv \in [Transfers -> [Tasks -> RecvTask]]
  BY DEF Shape, TypeOK
\* Steps that leave the directory alone.
<1>q. ASSUME UNCHANGED disk,
             \A u \in Transfers : incoming'[u] = incoming[u] \/ incoming'[u].dest = NoPath,
             \A u \in Transfers, j \in Tasks :
               recv'[u][j] = recv[u][j] \/ recv'[u][j].at \in {"spawned", "over"}
      PROVE  Owns'
  BY <1>q, OwnStep DEF Owns
<1>f. ASSUME NEW e \in Ends, NEW t \in Transfers, Forget(e, t)
      PROVE  \A u \in Transfers : incoming'[u] = incoming[u] \/ incoming'[u].dest = NoPath
  BY <1>f, <1>n, <1>t DEF Forget
<1>b. ASSUME NEW e \in Ends, NEW t \in Transfers, BulkCancel(e, t) PROVE Owns'
  <2>1. \A u \in Transfers, j \in Tasks : recv'[u][j] = recv[u][j] \/ recv'[u][j] = Over
    BY <1>b, BulkCancelShape
  <2>2. UNCHANGED disk /\ Forget(e, t)
    BY <1>b DEF BulkCancel
  <2> QED
    BY <1>f, <1>q, <2>1, <2>2 DEF Over, Task
<1>1. ASSUME NEW t \in Transfers, NEW k \in Tasks, Receiving(t, k) PROVE Owns'
  BY <1>1, ReceivingOwns DEF Owns
<1>2. ASSUME NEW t \in Transfers, NEW k \in Tasks, Sending(t, k) PROVE Owns'
  <2>1. UNCHANGED <<recv, disk>>
    BY <1>2, SendingMoves
  <2>2. \A u \in Transfers : incoming'[u] = incoming[u] \/ incoming'[u].dest = NoPath
    BY <1>2, <1>f, EndsAre DEF Sending, Dial, SendDone, SendFails, files
  <2> QED
    BY <1>q, <2>1, <2>2
<1>3. ASSUME NEW t \in Transfers, People(t) PROVE Owns'
  <2>1. CASE \E e \in Ends : Cancel(e, t)
    BY <1>b, <2>1 DEF Cancel
  <2>2. CASE Offer(t) \/ PressAccept(t)
    BY <1>q, <2>2 DEF Offer, PressAccept, tasks, files
  <2>3. CASE PressReject(t)
    BY <1>f, <1>q, <2>3, EndsAre DEF PressReject, tasks
  <2> QED
    BY <1>3, <2>1, <2>2, <2>3 DEF People
<1>4. ASSUME NEW t \in Transfers, Core(t) PROVE Owns'
  <2>1. CASE OnAccept(t)
    <3>1. CASE \E k \in Tasks : recv' = [recv EXCEPT ![t][k] = Task("spawned", 0, NoPath)]
                                /\ UNCHANGED <<files, disk>>
      <4>1. \A u \in Transfers, j \in Tasks :
              recv'[u][j] = recv[u][j] \/ recv'[u][j].at \in {"spawned", "over"}
        BY <1>t, <3>1 DEF Task
      <4> QED
        BY <1>q, <3>1, <4>1 DEF files
    <3>2. CASE BulkCancel(R, t)
      BY <1>b, <3>2, EndsAre
    <3>3. CASE UNCHANGED <<files, tasks>>
      BY <1>q, <3>3 DEF files, tasks
    <3> QED
      BY <2>1, <3>1, <3>2, <3>3 DEF OnAccept
  <2>2. CASE GiveUp(t)
    BY <1>b, <2>2, EndsAre DEF GiveUp
  <2>3. CASE \E k \in Tasks : OnAccepted(t, k)
    <3>1. BulkCancel(S, t) \/ UNCHANGED <<files, recv, disk>>
      BY <2>3 DEF OnAccepted, tasks
    <3> QED
      BY <1>b, <1>q, <3>1, EndsAre DEF files
  <2>4. ASSUME UNCHANGED <<incoming, tasks>> PROVE Owns'
    BY <1>q, <2>4 DEF tasks
  <2>5. CASE OnReject(t) \/ OnOffer(t) \/ OnStarted(t)
    BY <2>4, <2>5 DEF OnReject, OnOffer, OnStarted, files
  <2>6. CASE \E e \in Ends, ok \in BOOLEAN : OnFinished(e, t, ok)
    BY <2>4, <2>6 DEF OnFinished, files
  <2>7. CASE \E e \in Ends, ok \in BOOLEAN, ty \in {"reject", "finished"} :
               OnEnding(e, Note(ty, t, 0, ok))
    BY <2>4, <2>7 DEF OnEnding, files
  <2>8. CASE \E k \in Tasks : OnListening(t, k)
    BY <2>4, <2>8 DEF OnListening, files
  <2> QED
    BY <1>4, <2>1, <2>2, <2>3, <2>5, <2>6, <2>7, <2>8 DEF Core
<1>5. CASE Connect \/ \E e \in Ends : Disconnect(e)
  BY <1>5, <1>q DEF Connect, Disconnect, tasks, files
<1> QED
  BY <1>1, <1>2, <1>3, <1>4, <1>5 DEF Next

(* Only a receiving task writes to the directory.                           *)
LEMMA DiskStep ==
  ASSUME Shape, \A u \in Transfers : ReservedAt(u), Next,
         NEW p \in Plain, disk[p].is \in {"whole", "kept"}
  PROVE  disk'[p] = disk[p]
<1>1. ASSUME NEW t \in Transfers, NEW k \in Tasks, Receiving(t, k) PROVE disk'[p] = disk[p]
  <2>2. disk[p] # NoFile /\ disk[p] # File(t, "reserved")
    BY FilesDiffer
  <2>3. recv[t][k].at = "reading" => disk[recv[t][k].dest] = File(t, "reserved")
    BY DEF ReservedAt
  <2>4. recv[t][k].at = "started" /\ incoming[t].dest \in Plain
          => disk[incoming[t].dest] = File(t, "reserved")
    BY PlainPaths DEF ReservedAt
  <2> QED
    BY <1>1, <2>2, <2>3, <2>4, ReceivingDisk
<1>2. ASSUME NEW t \in Transfers, NEW k \in Tasks, Sending(t, k) PROVE disk'[p] = disk[p]
  BY <1>2, SendingMoves
<1>3. ASSUME NEW t \in Transfers, People(t) PROVE disk'[p] = disk[p]
  BY <1>3 DEF People, Offer, PressAccept, PressReject, Cancel, BulkCancel, tasks
<1>4. ASSUME NEW t \in Transfers, Core(t) PROVE disk'[p] = disk[p]
  BY <1>4 DEF Core, OnAccept, OnReject, OnOffer, OnStarted, GiveUp, OnFinished, OnEnding,
     OnAccepted, OnListening, BulkCancel, tasks
<1>5. CASE Connect \/ \E e \in Ends : Disconnect(e)
  BY <1>5 DEF Connect, Disconnect, tasks
<1> QED
  BY <1>1, <1>2, <1>3, <1>4, <1>5 DEF Next

(* However many transfers run at once and wherever they are cut, a file that *)
(* was there or came whole stays as it is, unless it is named like a          *)
(* temporary, until some offer is accepted twice.                            *)
THEOREM NothingReplaced == Spec => NeverReplaced
<1> DEFINE Stays == \A p \in Paths :
             AcceptedOnce /\ p[2] = 0 /\ disk[p].is \in {"whole", "kept"} => disk'[p] = disk[p]
<1>1. ShareInv /\ AcceptedOnce => Shape /\ \A t \in Transfers : TimedAt(t)
  BY DEF ShareInv, TimedInv, AcceptedOnce
<1>2. ShareInv /\ [Next]_vars => (AcceptedOnce' => AcceptedOnce)
  <2> SUFFICES ASSUME ShareInv, [Next]_vars, NEW t \in Transfers, pressed'[t] <= 1
               PROVE  pressed[t] <= 1
    BY DEF AcceptedOnce
  <2>1. pressed \in [Transfers -> 0 .. MaxAccepts]
    BY DEF ShareInv, Shape, TypeOK
  <2>2. UNCHANGED pressed \/ \E u \in Transfers : PressAccept(u)
    <3>1. ASSUME NEW u \in Transfers, NEW k \in Tasks, Receiving(u, k) PROVE UNCHANGED pressed
      BY <3>1 DEF Receiving, Listen, ListenFails, TakeListener, Accept, AcceptFails, Read,
         CreateFails, Place, Placed, ReadFails, people
    <3>2. ASSUME NEW u \in Transfers, NEW k \in Tasks, Sending(u, k) PROVE UNCHANGED pressed
      BY <3>2 DEF Sending, Dial, SendDone, SendFails, people
    <3>3. ASSUME NEW u \in Transfers, Core(u) PROVE UNCHANGED pressed
      BY <3>3 DEF Core, OnAccept, OnReject, OnOffer, OnStarted, GiveUp, OnFinished, OnEnding,
         OnAccepted, OnListening, people
    <3>4. ASSUME NEW u \in Transfers, People(u) PROVE UNCHANGED pressed \/ PressAccept(u)
      BY <3>4 DEF People, Offer, PressReject, Cancel, people
    <3>5. CASE Connect \/ \E e \in Ends : Disconnect(e)
      BY <3>5 DEF Connect, Disconnect, people
    <3>6. CASE UNCHANGED vars
      BY <3>6 DEF vars, people
    <3> QED
      BY <3>1, <3>2, <3>3, <3>4, <3>5, <3>6 DEF Next
  <2>3. CASE UNCHANGED pressed
    BY <2>3
  <2>4. ASSUME NEW u \in Transfers, PressAccept(u) PROVE pressed[t] <= 1
    <3>1. pressed' = [pressed EXCEPT ![u] = @ + 1]
      BY <2>4 DEF PressAccept
    <3>2. pressed[t] \in Nat
      BY <2>1, ShareAssumption
    <3>3. pressed'[t] = pressed[t] \/ pressed'[t] = pressed[t] + 1
      BY <2>1, <3>1
    <3> QED
      BY <3>2, <3>3
  <2> QED
    BY <2>2, <2>3, <2>4
<1>3. ShareInv /\ OwnInv /\ [Next]_vars => OwnInv'
  <2> SUFFICES ASSUME ShareInv, OwnInv, [Next]_vars, AcceptedOnce'
               PROVE  \A u \in Transfers : ReservedAt(u)'
    BY DEF OwnInv
  <2>1. Shape /\ (\A t \in Transfers : TimedAt(t)) /\ \A u \in Transfers : ReservedAt(u)
    BY <1>1, <1>2 DEF OwnInv
  <2>2. CASE UNCHANGED vars
    <3>1. UNCHANGED <<incoming, recv, disk>>
      BY <2>2 DEF vars, files, tasks
    <3> QED
      BY <2>1, <3>1 DEF ReservedAt
  <2> QED
    BY <2>1, <2>2, OwnKept
<1>4. ShareInv /\ OwnInv /\ [Next]_vars => [Stays]_vars
  <2> SUFFICES ASSUME ShareInv, OwnInv, Next, AcceptedOnce, NEW p \in Paths, p[2] = 0,
                      disk[p].is \in {"whole", "kept"}
               PROVE  disk'[p] = disk[p]
    OBVIOUS
  <2> QED
    BY <1>1, DiskStep DEF OwnInv, Plain
<1> QED
  BY <1>3, <1>4, InitOwn, InitShare, StepShare, PTL DEF Spec, NeverReplaced
=============================================================================
