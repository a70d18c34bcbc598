----------------------------- MODULE Bluetooth ------------------------------
(***************************************************************************)
(* The desktop's Bluetooth transport (acrylius-linux ble.rs): the one link  *)
(* it holds, the advertisement a connection takes off the air, the tasks    *)
(* that notice a phone has gone, and the fragments the phone writes.       *)
(*                                                                         *)
(* The handlers run as tasks of their own, one per call from bluetoothd:    *)
(* an action goes from one lock of a task to the next.                     *)
(*                                                                         *)
(* Abstractions.  Each central has one address at a time and may come back  *)
(* under it.  An adapter answers and can be a peripheral.  The size of a    *)
(* fragment is the same throughout.  A registration over a live central     *)
(* leaves the connection up.  Nothing in the program asks to go off the     *)
(* air.  is_ours reads both fields at once.                                *)
(***************************************************************************)
EXTENDS Fragments, FiniteSets

CONSTANTS
  MaxCentrals,   \* addresses phones connect from, in the order of their first use
  Watchers,      \* tasks that watch bluetoothd's signals, one for each shape,
                 \* and that answer its call when it drops the advertisement
  Lengths,       \* bytes of each message phones send, in order
  FragmentSize,  \* bytes of a fragment
  MaxMessage,    \* LinkAttrs::ble max_message
  MaxConnects,   \* bound: connections
  MaxInFlight,   \* bound: write_value tasks at a time
  MaxOvertakes,  \* bound: fragments applied or refused before an older one
  MaxFaults      \* bound: failed registrations, and losses of the advertisement

ASSUME BluetoothAssumption ==
  /\ Lengths \in Seq(Nat)
  /\ {MaxCentrals, FragmentSize, MaxMessage, MaxConnects, MaxInFlight,
      MaxOvertakes, MaxFaults} \subseteq Nat

VARIABLES
  present,     \* centrals bluetoothd has connected
  found,       \* those of them that have discovered the service
  onAir,       \* the radio advertises
  registered,  \* bluetoothd holds our advertisement: ActiveInstances
  app,         \* and our GATT application
  link,        \* Shared.link
  nextLink,    \* Shared.next_link
  last,        \* Shared.last_central
  wanted,      \* Shared.advertising
  cooling,     \* ADVERT_COOLDOWN has not passed since last_advert
  told,        \* told[n]: what the core was told of link n, in order
  task,        \* task[r]: the task that may put the advertisement back
  signals,     \* signals[w]: departures on their way to watcher w
  writes,      \* write_value tasks, oldest first
  subscriber,  \* the start_notify task
  sent,        \* messages phones began
  connects, overtakes, faults  \* what the bounds count

radio == <<present, found, onAir, registered, app>>
advert == <<wanted, cooling>>
core == <<link, nextLink, told>>
counts == <<connects, overtakes, faults>>
vars == <<radio, core, last, advert, task, signals, writes, subscriber,
          sent, counts>>

Centrals == 1 .. MaxCentrals
NoOne == 0

\* device_is_connected, as bluetoothd answers it.
Present(c) == c \in present

Runners == Watchers \cup {"supervise"}

NoLink == [id |-> 0, device |-> NoOne, asm |-> Closed]

\* The bytes of message m.
Message(m) == [i \in 1 .. Lengths[m] |-> <<m, i>>]

\* `dev` is the device a task acts on, `held` whether it holds the link and
\* `forget` whether a success makes last_central forgotten.
Step(at, dev, held, forget) == [at |-> at, dev |-> dev, held |-> held, forget |-> forget]
Idle == Step("idle", NoOne, FALSE, FALSE)
Steps == [at : {"idle", "ask", "drop", "check", "sleep", "forget"},
          dev : Centrals \cup {NoOne}, held : BOOLEAN, forget : BOOLEAN]

(* What the transport keeps is what its fields can hold, and a link that was *)
(* handed out has a number below the next one.                              *)
TypeOK ==
  /\ present \subseteq Centrals /\ found \subseteq present
  /\ {onAir, registered, app, wanted, cooling} \subseteq BOOLEAN
  /\ link.device \in Centrals \cup {NoOne} /\ link.id < nextLink
  /\ (link.id = 0) = (link = NoLink)
  /\ last \in Centrals \cup {NoOne}
  /\ DOMAIN told = 1 .. nextLink - 1
  /\ task \in [Runners -> Steps]
  /\ signals \in [Watchers -> SUBSET Centrals]
  /\ subscriber \in {"called", "done"}
  /\ Len(writes) <= MaxInFlight
  /\ sent <= Len(Lengths) /\ connects <= MaxConnects
  /\ overtakes <= MaxOvertakes /\ faults <= MaxFaults

Init ==
  /\ present = {} /\ found = {} /\ onAir = FALSE /\ registered = FALSE /\ app = TRUE
  /\ link = NoLink /\ nextLink = 1 /\ told = <<>>
  /\ last = NoOne /\ wanted = FALSE /\ cooling = FALSE
  /\ task = [r \in Runners |-> Idle]
  /\ signals = [w \in Watchers |-> {}]
  /\ writes = <<>> /\ subscriber = "done"
  /\ sent = 0
  /\ connects = 0 /\ overtakes = 0 /\ faults = 0

-----------------------------------------------------------------------------
(* The phone and bluetoothd. *)

\* A connection takes the advertisement off the air.
Connect(c) ==
  /\ onAir /\ app /\ c \notin present /\ c <= connects + 1 /\ connects < MaxConnects
  /\ present' = present \cup {c} /\ onAir' = FALSE
  /\ connects' = connects + 1
  /\ UNCHANGED <<found, registered, app, core, last, advert, task, signals, writes,
                 subscriber, sent, overtakes, faults>>

\* The phone has discovered the service, subscribes, in a call that names
\* nobody, and reads the identity: IdentityChr::read_value.
ReadValue(c) ==
  /\ c \in present \ found /\ app
  /\ found' = found \cup {c}
  /\ last' = c
  /\ subscriber' = "called"
  /\ UNCHANGED <<present, onAir, registered, app, core, advert, task, signals, writes,
                 sent, counts>>

\* A departure is signalled in two shapes, and either may be lost.
Depart(c) ==
  /\ c \in present
  /\ present' = present \ {c} /\ found' = found \ {c}
  /\ \E seen \in SUBSET Watchers :
       signals' = [w \in Watchers |-> IF w \in seen THEN signals[w] \cup {c} ELSE signals[w]]
  /\ UNCHANGED <<onAir, registered, app, core, last, advert, task, writes, subscriber,
                 sent, counts>>

\* bluetoothd starts again: nobody is connected and nothing is registered.
Restart ==
  /\ faults < MaxFaults /\ faults' = faults + 1
  /\ present' = {} /\ found' = {} /\ onAir' = FALSE /\ registered' = FALSE /\ app' = FALSE
  /\ UNCHANGED <<core, last, advert, task, signals, writes, subscriber, sent,
                 connects, overtakes>>

\* Advertisement::release, whose task is one of the watchers'.
Release(w) ==
  /\ faults < MaxFaults /\ faults' = faults + 1
  /\ registered /\ task[w] = Idle
  /\ registered' = FALSE /\ onAir' = FALSE
  /\ task' = [task EXCEPT ![w] = Step("check", NoOne, FALSE, FALSE)]
  /\ UNCHANGED <<present, found, app, core, last, advert, signals, writes, subscriber,
                 sent, connects, overtakes>>

\* A phone cuts a message (ble_fragment) and writes the fragments, each of which
\* becomes a write_value task; those after the first k are lost with the phone.
Write(c, k) ==
  LET frags == Fragment(Message(sent + 1), FragmentSize)
      called == [j \in 1 .. k |-> [at |-> "called", dev |-> c, frag |-> frags[j]]]
  IN /\ c \in found /\ app /\ sent < Len(Lengths)
     /\ k <= Len(frags) /\ Len(writes) + k <= MaxInFlight
     /\ writes' = writes \o called
     /\ sent' = sent + 1
     /\ UNCHANGED <<radio, core, last, advert, task, signals, subscriber, counts>>

-----------------------------------------------------------------------------
(* The link. *)

Said(is, msg) == [is |-> is, msg |-> msg]
Down == Said("down", <<>>)
Tell(n, what) == told' = [told EXCEPT ![n] = Append(@, what)]

\* Slip: the number after the next one.
RaisedAhead(c) == [id |-> nextLink + 1, device |-> c, asm |-> Closed]

\* A link under a new number.
Raised(c) == [id |-> nextLink, device |-> c, asm |-> Closed]

\* drop_link_for
DropLinkFor(c) ==
  IF link.device # c THEN UNCHANGED core
  ELSE link' = NoLink /\ Tell(link.id, Down) /\ UNCHANGED nextLink

Without(i) == SubSeq(writes, 1, i - 1) \o SubSeq(writes, i + 1, Len(writes))

\* write_value begins by noting who writes.
NoteCentral(i) == last' = IF writes[i].at = "called" THEN writes[i].dev ELSE last

Other(i) == link # NoLink /\ link.device # writes[i].dev

\* Tasks of one device may overtake each other.
Late(i) == \E j \in 1 .. i - 1 : writes[j].dev = writes[i].dev
Overtake(i) ==
  /\ Late(i) => overtakes < MaxOvertakes
  /\ overtakes' = IF Late(i) THEN overtakes + 1 ELSE overtakes

\* The holder has gone, by the answer of device_is_connected: it is retired
\* before the lock is taken again (drop_link_for looks at the holder once more).
RetireHolder(i) ==
  /\ writes[i].at = "called" /\ Other(i) /\ ~Present(link.device)
  /\ DropLinkFor(link.device)
  /\ writes' = [writes EXCEPT ![i].at = "again"]
  /\ NoteCentral(i)
  /\ UNCHANGED <<radio, advert, task, signals, subscriber, sent, counts>>

\* Another device holds the link.
Refused(i) ==
  /\ Other(i)
  /\ writes[i].at = "again" \/ (writes[i].at = "called" /\ Present(link.device))
  /\ writes' = Without(i) /\ Overtake(i)
  /\ NoteCentral(i)
  /\ UNCHANGED <<radio, core, advert, task, signals, subscriber, sent, connects,
                 faults>>

\* write_value, last part: the link is this device's, or becomes it, and the
\* fragment is added.
Placed(i) ==
  /\ writes[i].at \in {"called", "again"} /\ ~Other(i)
  /\ LET l == IF link = NoLink THEN Raised(writes[i].dev) ELSE link
         log == IF link = NoLink THEN Append(told, <<Said("up", <<>>)>>) ELSE told
         p == Push(l.asm, writes[i].frag, MaxMessage)
     IN /\ nextLink' = IF link = NoLink THEN nextLink + 1 ELSE nextLink
        /\ link' = IF p.says = "error" THEN NoLink ELSE [l EXCEPT !.asm = p.asm]
        /\ told' = CASE p.says = "error" -> [log EXCEPT ![l.id] = Append(@, Down)]
                     [] p.says = "message" -> [log EXCEPT ![l.id] = Append(@, Said("recv", p.msg))]
                     [] OTHER -> log
  /\ writes' = Without(i) /\ Overtake(i)
  /\ NoteCentral(i)
  /\ UNCHANGED <<radio, advert, task, signals, subscriber, sent, connects,
                 faults>>

\* TxChr::start_notify.  It reads the holder and retires it under a second
\* lock that looks again: what retires the link in between does the same, so
\* one step has the same outcomes.
StartNotify ==
  /\ subscriber = "called" /\ subscriber' = "done"
  /\ IF link = NoLink THEN UNCHANGED core ELSE DropLinkFor(link.device)
  /\ UNCHANGED <<radio, last, advert, task, signals, writes, sent, counts>>

-----------------------------------------------------------------------------
(* Commands of the core. *)

\* Slip: whatever is held by now is dropped, and the link named reported.
CommandDropAny(n) ==
  /\ link' = NoLink /\ Tell(n, Down)
  /\ UNCHANGED <<radio, nextLink, last, advert, task, signals, writes, subscriber, sent,
                 counts>>

\* TransportCmd::Close, or a TransportCmd::Send whose notification failed: the
\* core names a link it was told of, which may have gone since it was looked up.
CommandDrop(n) ==
  /\ link.id = n
  /\ link' = NoLink /\ Tell(n, Down)
  /\ UNCHANGED <<radio, nextLink, last, advert, task, signals, writes, subscriber, sent,
                 counts>>

\* TransportCmd::Advertise, once: the wish is noted first and outlives a
\* registration that fails.
Advertise(ok) ==
  /\ ~wanted /\ wanted' = TRUE
  /\ registered' = ok /\ onAir' = ok
  /\ faults' = IF ok THEN faults ELSE faults + 1
  /\ faults' <= MaxFaults
  /\ UNCHANGED <<present, found, app, core, last, cooling, task, signals, writes, subscriber,
                 sent, connects, overtakes>>

-----------------------------------------------------------------------------
(* Noticing a departure, and going back on the air. *)

IsOurs(c) == link.device = c \/ last = c

\* The two watchers of bluetoothd's signals.
Signal(w, c) ==
  /\ task[w] = Idle /\ c \in signals[w]
  /\ signals' = [signals EXCEPT ![w] = @ \ {c}]
  /\ task' = IF IsOurs(c) THEN [task EXCEPT ![w] = Step("drop", c, FALSE, FALSE)] ELSE task
  /\ UNCHANGED <<radio, core, last, advert, writes, subscriber, sent, counts>>

\* The device `supervise` asks about: the holder, else the last one heard from.
Watching == IF link # NoLink THEN link.device ELSE last

\* supervise, first part.
Supervise ==
  /\ task["supervise"] = Idle
  /\ task' = [task EXCEPT !["supervise"] = Step("ask", Watching, link # NoLink, FALSE)]
  /\ UNCHANGED <<radio, core, last, advert, signals, writes, subscriber, sent,
                 counts>>

\* Slip: bluetoothd's count is believed.
ReconcileCounting(dev) ==
  IF dev # NoOne /\ Present(dev) THEN "Nothing"
  ELSE IF dev # NoOne /\ ~registered THEN "CentralGone"
  ELSE IF wanted /\ ~registered THEN "Readvertise" ELSE "Nothing"

\* reconcile, of the answers of device_is_connected and active_instances.
Reconcile(dev) ==
  IF dev # NoOne THEN IF Present(dev) THEN "Nothing" ELSE "CentralGone"
  ELSE IF wanted /\ ~registered THEN "Readvertise" ELSE "Nothing"

\* Slip: the link is left for the signals to retire.
DecideKeeping ==
  LET t == task["supervise"]
      then == CASE Reconcile(t.dev) = "Nothing" -> Idle
                [] Reconcile(t.dev) = "Readvertise" -> Step("check", NoOne, FALSE, FALSE)
                [] OTHER -> Step("check", NoOne, FALSE, TRUE)
  IN /\ t.at = "ask"
     /\ task' = [task EXCEPT !["supervise"] = then]
     /\ UNCHANGED <<radio, core, last, advert, signals, writes, subscriber, sent, counts>>

\* supervise, once it has the answers.
Decide ==
  LET t == task["supervise"]
      then == CASE Reconcile(t.dev) = "Nothing" -> Idle
                [] Reconcile(t.dev) = "Readvertise" -> Step("check", NoOne, FALSE, FALSE)
                [] OTHER -> IF t.held THEN Step("drop", t.dev, FALSE, TRUE)
                            ELSE Step("check", NoOne, FALSE, TRUE)
  IN /\ t.at = "ask"
     /\ task' = [task EXCEPT !["supervise"] = then]
     /\ UNCHANGED <<radio, core, last, advert, signals, writes, subscriber, sent,
                    counts>>

\* A runner retires the link of the device that left.
Drop(r) ==
  /\ task[r].at = "drop"
  /\ DropLinkFor(task[r].dev)
  /\ task' = [task EXCEPT ![r] = Step("check", NoOne, FALSE, @.forget)]
  /\ UNCHANGED <<radio, last, advert, signals, writes, subscriber, sent, counts>>

\* readvertise, up to its sleep: only if wanted, not over a link, and once per cooldown; the
\* application is registered again in case bluetoothd forgot it.
Check(r) ==
  /\ task[r].at = "check"
  /\ IF ~wanted \/ link # NoLink \/ cooling
     THEN task' = [task EXCEPT ![r] = Idle] /\ UNCHANGED <<cooling, app>>
     ELSE /\ task' = [task EXCEPT ![r].at = "sleep"]
          /\ cooling' = TRUE /\ app' = TRUE
  /\ UNCHANGED <<wanted, present, found, onAir, registered, core, last, signals, writes, subscriber,
                 sent, counts>>

\* readvertise, after its sleep: unregister, register.
Registered(r) ==
  /\ task[r].at = "sleep"
  /\ registered' = TRUE /\ onAir' = TRUE
  /\ task' = [task EXCEPT ![r] = IF @.forget THEN [@ EXCEPT !.at = "forget"] ELSE Idle]
  /\ UNCHANGED <<present, found, app, core, last, advert, signals, writes, subscriber,
                 sent, counts>>

\* The same when bluetoothd refuses.
RegisterFailed(r) ==
  /\ task[r].at = "sleep" /\ faults < MaxFaults /\ faults' = faults + 1
  /\ registered' = FALSE /\ onAir' = FALSE
  /\ task' = [task EXCEPT ![r] = Idle]
  /\ UNCHANGED <<present, found, app, core, last, advert, signals, writes, subscriber,
                 sent, connects, overtakes>>

\* supervise, last part: nobody is watched any more.
Forget ==
  /\ task["supervise"].at = "forget"
  /\ last' = NoOne
  /\ task' = [task EXCEPT !["supervise"] = Idle]
  /\ UNCHANGED <<radio, core, advert, signals, writes, subscriber, sent, counts>>

\* Four seconds pass, which the half second of readvertise is shorter than.
CoolDown ==
  /\ cooling /\ \A r \in Runners : task[r].at # "sleep"
  /\ cooling' = FALSE
  /\ UNCHANGED <<wanted, radio, core, last, task, signals, writes, subscriber, sent, counts>>

-----------------------------------------------------------------------------
WriteStep(i) == RetireHolder(i) \/ Refused(i) \/ Placed(i)
Runner(r) == Drop(r) \/ Check(r) \/ Registered(r) \/ RegisterFailed(r)

Next ==
  \/ \E c \in Centrals : Connect(c) \/ Depart(c) \/ ReadValue(c)
  \/ \E c \in Centrals, k \in 1 .. MaxInFlight : Write(c, k)
  \/ Restart \/ (\E w \in Watchers : Release(w)) \/ Advertise(TRUE) \/ Advertise(FALSE)
  \/ \E i \in 1 .. Len(writes) : WriteStep(i)
  \/ StartNotify
  \/ \E n \in 1 .. nextLink - 1 : CommandDrop(n)
  \/ \E w \in Watchers, c \in Centrals : Signal(w, c)
  \/ Supervise \/ Decide \/ Forget \/ CoolDown
  \/ \E r \in Runners : Runner(r)

Spec == Init /\ [][Next]_vars

(* The interval of supervise keeps ticking, a cooldown passes, and a task   *)
(* that has begun goes on: each is a tokio task nothing else waits for.     *)
(* bluetoothd refuses a registration only so many times (MaxFaults).       *)
Fairness ==
  /\ WF_vars(Supervise \/ Decide \/ Forget \/ Runner("supervise"))
  /\ \A w \in Watchers : WF_vars(Runner(w))
  /\ WF_vars(CoolDown)

FairSpec == Spec /\ Fairness

-----------------------------------------------------------------------------
(* What must hold. *)

(* The core is told of every link exactly as it lives: up once, then what    *)
(* arrived on it, then down once, and a link is up in the core's eyes when  *)
(* and only when the transport holds it.  Every task that retires a link    *)
(* must look again at which one it is.                                     *)
CoreAgrees ==
  \A n \in DOMAIN told :
    /\ \A k \in DOMAIN told[n] : told[n][k].is = "up" <=> k = 1
    /\ \A k \in DOMAIN told[n] : told[n][k].is = "down" => k = Len(told[n])
    /\ link.id = n <=> told[n][Len(told[n])].is # "down"

(* What reaches the core is a message a phone sent, whole, across lost       *)
(* fragments, links that are retired and phones that take over, as long as   *)
(* no fragment of a phone overtook an older one of it.  Nothing keeps the    *)
(* write_value tasks of one phone in order, and two continuations that change *)
(* places are not noticed by push: "desyncs into errors instead of silent    *)
(* corruption" (acrylius-proto ble.rs) is true of a fragment that is missing, *)
(* not of one that is late.                                                 *)
AllWhole ==
  \A n \in DOMAIN told : \A k \in DOMAIN told[n] :
    told[n][k].is = "recv" =>
      \E m \in 1 .. sent : told[n][k].msg = Message(m)
WholeMessages == overtakes = 0 => AllWhole

(* A device that has gone does not keep the link: it is retired although    *)
(* both signals were lost.                                                  *)
GoneIsRetired ==
  (link # NoLink /\ link.device \notin present)
    ~> (link = NoLink \/ link.device \in present)

(* Off the air, nobody connected, and the device that took the              *)
(* advertisement down has been heard from: the desktop goes back on the air. *)
Stranded ==
  /\ wanted /\ ~onAir /\ present = {} /\ last # NoOne
  /\ task["supervise"].at # "forget"
BackOnAir == Stranded ~> (onAir \/ present # {})

=============================================================================
