------------------------------ MODULE Touchpad ------------------------------
(***************************************************************************)
(* A phone's fingers on the desktop: the touchpad plugin (plugins/          *)
(* touchpad.rs), its effector and virtual device (acrylius-linux            *)
(* touchpad.rs), the same touches over USB (usb.rs), and a phone that takes *)
(* the cable while there is one (AppModel.touchpad).                       *)
(*                                                                         *)
(* Over a session every message becomes an effect that runs in a task of    *)
(* its own, so the tasks may reach the device in any order; `order` is what *)
(* tells them apart.  Over USB one loop applies what it reads.             *)
(*                                                                         *)
(* Abstractions.  A finger is a number, its position is left out, and a     *)
(* frame is the set of fingers down, the new ones of which come in the      *)
(* order of their numbers.  The desktop serves the touchpad.  Bodies are    *)
(* well formed.  When a queued frame is played (Pacer) is left to the       *)
(* schedule.  Tracking ids do not wrap.  `pad` is what Slots holds, which a   *)
(* write the kernel refuses changes like any other.                        *)
(***************************************************************************)
EXTENDS Integers, SequencesExt

CONSTANTS
  Peers,
  Cabled,     \* phones with a cable
  NoOne,
  Fingers,
  Sizes,      \* surfaces, in millimetres
  SLOTS,
  MaxMoves,   \* bound: messages of the phones
  MaxFaults   \* bound: sessions and cables lost, apps suspended, devices refused

ASSUME TouchpadAssumption ==
  /\ NoOne \notin Peers /\ Cabled \subseteq Peers
  /\ Fingers \subseteq Nat \ {0} /\ IsFiniteSet(Fingers) /\ Sizes \subseteq Nat \ {0}
  /\ {SLOTS, MaxMoves, MaxFaults} \subseteq Nat

VARIABLES
  connected,    \* peers with a session
  owner,        \* TouchpadPlugin.owner
  order,        \* TouchpadPlugin.order
  tasks,        \* effects on their way to the device
  lastApplied,  \* State.last_applied
  pad,          \* State.open
  newest,       \* the operation with the highest order, unless it failed
  overtaken,    \* a begin or an end had no effect
  attached,     \* devices usbmuxd has announced, oldest first
  drive,        \* drive_touchpad: what it does, and with which device
  broken,       \* the stream of the USB session has ended
  queue,        \* operations sent over USB and not yet played
  down,         \* `down` of the USB session
  usb,          \* its device
  begun,        \* TouchpadServer.begun
  awake,        \* phones whose app runs
  showing,      \* showing[p]: the size of p's surface while it is on screen
  over,         \* touchpadOverSession
  moves, faults \* what the bounds count

plugin == <<connected, owner, order>>
device == <<lastApplied, pad, newest, overtaken>>
cable == <<attached, drive, broken, queue, down, usb, begun>>
phones == <<awake, showing, over>>
vars == <<plugin, tasks, device, cable, phones, moves, faults>>

Slots == 1 .. SLOTS
Op(is, size, points) == [is |-> is, size |-> size, points |-> points]
Begin(size) == Op("begin", size, {})
Frame(points) == Op("frame", 0, points)
End == Op("end", 0, {})
NoOp == Op("none", 0, {})

\* What a frame may hold: with more than MAX_POINTS it is refused.
Points == {f \in SUBSET Fingers : Cardinality(f) <= SLOTS}
Ops == {Begin(s) : s \in Sizes} \cup {Frame(f) : f \in Points} \cup {End}

\* A device: which finger holds each slot, under which tracking id.
Fresh(size) == [size |-> size, held |-> [s \in Slots |-> 0],
                track |-> [s \in Slots |-> 0], next |-> 1]
NoPad == Fresh(0)
Contacts(d) == {d.held[s] : s \in Slots} \ {0}
IsPad(d) == /\ d.size \in Sizes \cup {0} /\ d.next \in Nat \ {0}
            /\ d.held \in [Slots -> Fingers \cup {0}]
            /\ d.track \in [Slots -> 0 .. d.next - 1]
            /\ d.size = 0 => d = NoPad

Doing(at, dev) == [at |-> at, dev |-> dev]
Driving == Doing("wait", NoOne)

(* The fields hold what they can hold, every order handed out is either     *)
(* waiting or behind the plugin's count, and the watcher names each device  *)
(* once.                                                                   *)
TypeOK ==
  /\ connected \subseteq Peers /\ owner \in connected \cup {NoOne}
  /\ order \in Nat /\ lastApplied \in 0 .. order
  /\ \A t \in tasks : t.order \in 1 .. order /\ t.op \in Ops
  /\ \A t, u \in tasks : t.order = u.order => t = u
  /\ IsPad(pad) /\ IsPad(usb)
  /\ newest \in Ops \cup {NoOp}
  /\ attached \in Seq(Cabled) /\ IsInjective(attached)
  /\ drive \in {Driving} \cup {Doing(at, p) : at \in {"session", "retry"}, p \in Cabled}
  /\ drive.at # "session" => usb = NoPad /\ queue = <<>> /\ ~down
  /\ queue \in Seq(Ops)
  /\ {overtaken, broken, down, begun} \subseteq BOOLEAN
  /\ awake \subseteq Peers /\ over \subseteq Peers
  /\ showing \in [Peers -> Sizes \cup {0}]
  /\ moves \in 0 .. MaxMoves /\ faults \in 0 .. MaxFaults

Init ==
  /\ connected = {} /\ owner = NoOne /\ order = 0 /\ tasks = {}
  /\ lastApplied = 0 /\ pad = NoPad /\ newest = NoOp /\ overtaken = FALSE
  /\ attached = <<>> /\ drive = Driving /\ broken = FALSE
  /\ queue = <<>> /\ down = FALSE /\ usb = NoPad /\ begun = FALSE
  /\ awake = Peers /\ showing = [p \in Peers |-> 0] /\ over = {}
  /\ moves = 0 /\ faults = 0

-----------------------------------------------------------------------------
(* The device. *)

\* Slip: the ids start over with every frame.
TrackIdRepeated(d, i) == i

\* The tracking id of the i-th finger a frame brings.
TrackId(d, i) == d.next + i - 1

\* The place of x in S.
Rank(x, S) == Cardinality({y \in S : y <= x})

\* Slots::frame: what is up is lifted first, a finger that was down keeps its
\* slot, and each new one takes the lowest free slot and the next id.
Lifted(d, points) == [s \in Slots |-> IF d.held[s] \in points THEN d.held[s] ELSE 0]
Free(d, points) == {s \in Slots : Lifted(d, points)[s] = 0}
New(d, points) == points \ Contacts(d)
TakenBy(d, points, s) ==
  {f \in New(d, points) : /\ s \in Free(d, points)
                          /\ Rank(f, New(d, points)) = Rank(s, Free(d, points))}
Replayed(d, points) ==
  LET taken == {s \in Slots : TakenBy(d, points, s) # {}}
  IN [d EXCEPT
        !.held = [s \in Slots |-> IF s \in taken THEN CHOOSE f \in TakenBy(d, points, s) : TRUE
                                  ELSE Lifted(d, points)[s]],
        !.track = [s \in Slots |-> IF s \in taken THEN TrackId(d, Rank(s, Free(d, points)))
                                   ELSE @[s]],
        !.next = @ + Cardinality(taken)]

\* What TouchpadEffector::run and usb::apply do with an operation.
After(d, op) ==
  CASE op.is = "begin" -> IF d.size = op.size THEN d ELSE Fresh(op.size)
    [] op.is = "frame" -> IF d = NoPad THEN d ELSE Replayed(d, op.points)
    [] OTHER -> NoPad

\* Device::create, where `run` would call it.
Creates(d, op) == op.is = "begin" /\ d.size # op.size

-----------------------------------------------------------------------------
(* The plugin. *)

\* An operation gets the next number and a task.
Issue(op) ==
  /\ order' = order + 1
  /\ tasks' = tasks \cup {[order |-> order + 1, op |-> op]}
  /\ newest' = op

\* Slip: an end leaves the stream to its owner.
OwnerAfterKeeping(p, op) == IF op.is = "begin" THEN p ELSE owner

\* on_message: whose stream is open afterwards.
OwnerAfter(p, op) ==
  CASE op.is = "begin" -> p [] op.is = "end" -> NoOne [] OTHER -> owner

\* A message of p's, if it has a session to come over: on_message.
OnMessage(p, op) ==
  IF p \in connected
  THEN Issue(op) /\ owner' = OwnerAfter(p, op)
  ELSE UNCHANGED <<owner, order, tasks, newest>>

PeerConnected(p) ==
  /\ p \notin connected /\ connected' = connected \cup {p}
  /\ UNCHANGED <<owner, order, tasks, device, cable, phones, moves, faults>>

\* on_peer_disconnected: only the stream's own peer lifts it.
PeerDisconnected(p) ==
  /\ faults < MaxFaults /\ faults' = faults + 1
  /\ p \in connected /\ connected' = connected \ {p}
  /\ IF owner = p THEN Issue(End) /\ owner' = NoOne
     ELSE UNCHANGED <<owner, order, tasks, newest>>
  /\ UNCHANGED <<lastApplied, pad, overtaken, cable, phones, moves>>

-----------------------------------------------------------------------------
(* The effector. *)

\* Slip: equal or older operations are applied too.
ShouldApplyAlways(n) == n > 0

\* should_apply
ShouldApply(n) == n > lastApplied

\* TouchpadEffector::run, under its lock.
Run(t) ==
  /\ t \in tasks /\ tasks' = tasks \ {t}
  /\ IF ShouldApply(t.order)
     THEN lastApplied' = t.order /\ pad' = After(pad, t.op) /\ UNCHANGED overtaken
     ELSE overtaken' = (overtaken \/ t.op.is # "frame") /\ UNCHANGED <<lastApplied, pad>>
  /\ UNCHANGED <<plugin, newest, cable, phones, moves, faults>>

\* The same when uinput refuses the device: the number is used up.
RunFails(t) ==
  /\ t \in tasks /\ tasks' = tasks \ {t}
  /\ faults < MaxFaults /\ faults' = faults + 1
  /\ ShouldApply(t.order) /\ Creates(pad, t.op)
  /\ lastApplied' = t.order
  /\ overtaken' = TRUE /\ newest' = IF t.order = order THEN NoOp ELSE newest
  /\ UNCHANGED <<plugin, pad, cable, phones, moves>>

-----------------------------------------------------------------------------
(* The phone. *)

OverUsb(p) == drive = Doing("session", p) /\ ~broken

\* AppModel.touchpad and TouchpadServer.send: over the cable while it carries,
\* which ends what the session has open, else over the session.
Send(p, op) ==
  /\ p \in awake /\ moves < MaxMoves /\ moves' = moves + 1
  /\ IF OverUsb(p)
     THEN /\ queue' = Append(queue, op)
          /\ begun' = (begun \/ op.is = "begin")
          /\ over' = over \ {p}
          /\ IF p \in over THEN OnMessage(p, End) ELSE UNCHANGED <<owner, order, tasks, newest>>
     ELSE /\ over' = IF op = End THEN over \ {p} ELSE over \cup {p}
          /\ OnMessage(p, op)
          /\ UNCHANGED <<queue, begun>>
  /\ UNCHANGED <<connected, lastApplied, pad, overtaken, attached, drive, broken, down, usb,
                 awake, faults>>

\* The route has had the surface's `begin`.
Knows(p) == IF OverUsb(p) THEN begun ELSE p \in over

\* The surface is shown or turned, a gesture starts, or a route is new.
PhoneBegin(p, size) == Send(p, Begin(size)) /\ showing' = [showing EXCEPT ![p] = size]
PhoneReplay(p) ==
  /\ showing[p] # 0 /\ ~Knows(p)
  /\ Send(p, Begin(showing[p])) /\ UNCHANGED showing
PhoneFrame(p, points) ==
  /\ showing[p] # 0 /\ Knows(p)
  /\ Send(p, Frame(points)) /\ UNCHANGED showing
PhoneEnd(p) ==
  /\ showing[p] # 0 /\ Send(p, End) /\ showing' = [showing EXCEPT ![p] = 0]

\* iOS suspends the app: it goes silent and its connections stay.
PhoneSuspended(p) ==
  /\ faults < MaxFaults /\ faults' = faults + 1
  /\ p \in awake /\ awake' = awake \ {p}
  /\ UNCHANGED <<plugin, tasks, device, cable, showing, over, moves>>
PhoneResumed(p) ==
  /\ p \in Peers \ awake /\ awake' = awake \cup {p}
  /\ UNCHANGED <<plugin, tasks, device, cable, showing, over, moves, faults>>

-----------------------------------------------------------------------------
(* The cable. *)

\* watch_devices
Attached(p) ==
  /\ p \notin Range(attached) /\ attached' = Append(attached, p)
  /\ UNCHANGED <<plugin, tasks, device, drive, broken, queue, down, usb, begun, phones,
                 moves, faults>>

Detached(p) ==
  /\ faults < MaxFaults /\ faults' = faults + 1
  /\ p \in Range(attached) /\ attached' = SelectSeq(attached, LAMBDA d : d # p)
  /\ broken' = (broken \/ drive = Doing("session", p))
  /\ UNCHANGED <<plugin, tasks, device, drive, queue, down, usb, begun, phones, moves>>

\* The stream that announces devices ends, alone or with usbmuxd and the
\* session on it: nothing is attached until it is back.
MuxGone ==
  /\ faults < MaxFaults /\ faults' = faults + 1
  /\ attached # <<>> /\ attached' = <<>>
  /\ broken' \in {broken, broken \/ drive.at = "session"}
  /\ UNCHANGED <<plugin, tasks, device, drive, queue, down, usb, begun, phones, moves>>

\* drive_touchpad: the first device is opened, unless mux_open fails, as it
\* does while its app does not listen.
Open ==
  /\ drive.at = "wait" /\ attached # <<>>
  /\ LET p == Head(attached) IN
     drive' = Doing("retry", p) \/ (p \in awake /\ drive' = Doing("session", p))
  /\ broken' = FALSE /\ begun' = FALSE
  /\ UNCHANGED <<plugin, tasks, device, attached, queue, down, usb, phones, moves, faults>>

Retry ==
  /\ drive.at = "retry" /\ drive' = Driving
  /\ UNCHANGED <<plugin, tasks, device, attached, broken, queue, down, usb, begun, phones,
                 moves, faults>>

\* Slip: a begin is taken for a surface without fingers.
DownAfterCleared(op) == op.is = "frame" /\ op.points # {}

\* usb::apply's `down`.
DownAfter(op) ==
  CASE op.is = "frame" -> op.points # {} [] op.is = "end" -> FALSE [] OTHER -> down

\* The session's loop: what is due is played.
Play ==
  /\ drive.at = "session" /\ queue # <<>> /\ queue' = Tail(queue)
  /\ usb' = After(usb, Head(queue)) /\ down' = DownAfter(Head(queue))
  /\ UNCHANGED <<plugin, tasks, device, attached, drive, broken, begun, phones, moves, faults>>

\* STALL passes without a word while fingers are down.
Stall ==
  /\ drive.at = "session" /\ down /\ queue = <<>>
  /\ down' = FALSE
  /\ usb' = IF usb = NoPad THEN usb ELSE Replayed(usb, {})
  /\ UNCHANGED <<plugin, tasks, device, attached, drive, broken, queue, begun, phones, moves,
                 faults>>

\* The session returns and its device goes with it.
Over ==
  /\ drive' = Doing("retry", drive.dev) /\ queue' = <<>> /\ down' = FALSE /\ usb' = NoPad
  /\ UNCHANGED <<plugin, tasks, device, attached, begun, phones, moves>>

\* The stream ended.
SessionEnds == drive.at = "session" /\ broken /\ Over /\ UNCHANGED <<broken, faults>>

\* uinput refuses a device, or a write to it: playing and lifting both end the
\* session.
Refused == faults < MaxFaults /\ faults' = faults + 1 /\ broken' = TRUE /\ Over
PlayFails ==
  /\ drive.at = "session" /\ queue # <<>>
  /\ Creates(usb, Head(queue)) \/ (Head(queue).is = "frame" /\ usb # NoPad)
  /\ Refused
StallFails == drive.at = "session" /\ down /\ queue = <<>> /\ usb # NoPad /\ Refused

-----------------------------------------------------------------------------
Phone(p) ==
  \/ \E size \in Sizes : PhoneBegin(p, size)
  \/ PhoneReplay(p) \/ PhoneEnd(p) \/ PhoneSuspended(p) \/ PhoneResumed(p)
  \/ \E points \in Points : PhoneFrame(p, points)

Next ==
  \/ \E p \in Peers : PeerConnected(p) \/ PeerDisconnected(p) \/ Phone(p)
  \/ \E t \in tasks : Run(t) \/ RunFails(t)
  \/ \E p \in Cabled : Attached(p) \/ Detached(p)
  \/ MuxGone \/ Open \/ Retry \/ Play \/ Stall \/ SessionEnds \/ PlayFails \/ StallFails

Spec == Init /\ [][Next]_vars

(* The loop of a USB session goes on: it plays what is due, its sleeps end, *)
(* and a stream that has ended is read.                                    *)
Fairness == WF_vars(Play \/ PlayFails) /\ WF_vars(Stall \/ StallFails) /\ WF_vars(SessionEnds)

FairSpec == Spec /\ Fairness

-----------------------------------------------------------------------------
(* Whatever order the tasks ran in, the newest operation has the last word:  *)
(* after an end there is no device, after a begin one of that size, and      *)
(* after a frame no finger is down but the frame's own.                     *)
LastWordCounts ==
  tasks = {} =>
    CASE newest.is = "end" -> pad = NoPad
      [] newest.is = "begin" -> pad.size = newest.size
      [] newest.is = "frame" -> pad = NoPad \/ Contacts(pad) = newest.points
      [] OTHER -> TRUE

(* There is a device exactly while a stream is open, so a peer that goes     *)
(* leaves none behind: as long as no task was overtaken by a later one whose *)
(* begin or end it was.                                                     *)
OpenIffOwned == tasks = {} /\ ~overtaken => (pad # NoPad <=> owner # NoOne)

(* A finger that stays down keeps its slot and its tracking id, and a finger *)
(* that comes down gets an id the device has not given out: libinput tells   *)
(* a new contact from a moved one by nothing else.                         *)
KeepsContact ==
  [][\A d \in {<<pad, pad'>>, <<usb, usb'>>} : \A s \in Slots :
       (d[1].size # 0 /\ d[1].size = d[2].size /\ d[2].held[s] # 0) =>
         \/ d[2].held[s] = d[1].held[s] /\ d[2].track[s] = d[1].track[s]
         \/ d[2].held[s] \notin Contacts(d[1]) /\ d[2].track[s] \notin 1 .. d[1].next - 1]_vars

(* Fingers left down over USB come up: when the phone is suspended, or       *)
(* unplugged, in the middle of a drag.                                      *)
Talking == drive.at = "session" /\ ~broken /\ drive.dev \in awake
UsbLifts == (Contacts(usb) # {} /\ ~Talking) ~> (Contacts(usb) = {} \/ Talking)

=============================================================================
