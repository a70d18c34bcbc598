----------------------------- MODULE Clipboard ------------------------------
(***************************************************************************)
(* One clipboard on several machines: the clipboard plugin (plugins/        *)
(* clipboard.rs), the desktop's clipboard and its watcher (acrylius-linux   *)
(* clipboard.rs) and the daemon that joins them (main.rs).                 *)
(*                                                                         *)
(* Abstractions.  A value stands for a text and its hash; no text is longer *)
(* than MAX_INLINE, and a message is well formed.  A session delivers in    *)
(* order, whatever the others do, and loses what is under way when it ends. *)
(* Every effect is a task of its own, so writes may reach the clipboard in  *)
(* any order.                                                              *)
(***************************************************************************)
EXTENDS Naturals, SequencesExt

CONSTANTS
  Devices,
  Values,     \* texts
  Sends,      \* devices whose directions.send is on
  Receives,   \* devices whose directions.receive is on
  MaxCopies,  \* bound: what people do
  MaxFaults   \* bound: sessions lost, effects that fail

ASSUME ClipboardAssumption ==
  /\ IsFiniteSet(Devices) /\ Values \subseteq Nat \ {0}
  /\ Sends \subseteq Devices /\ Receives \subseteq Devices
  /\ {MaxCopies, MaxFaults} \subseteq Nat

VARIABLES
  clip,        \* clip[d]: the text on d's clipboard, or 0
  last,        \* last[d]: `last` of d's watcher
  reports,     \* reports[d]: changes on their way to d's core
  connected,   \* pairs of devices with a session
  net,         \* net[d][e]: messages on their way from e to d
  lastLocal,   \* ClipboardPlugin.last_local
  lastRemote,  \* ClipboardPlugin.last_remote
  writes,      \* writes[d]: ClipboardWrite effects that have not run
  reads,       \* reads[d]: peers whose ClipboardRead has not run
  copies, faults, \* what the bounds count
  sent,        \* history: "set" messages sent before anything was disturbed
  disturbed,   \* history: something was done while something else was under way
  repeated     \* history: a device copied what it had sent last

plugin == <<connected, net, lastLocal, lastRemote, writes, reads>>
desktop == <<clip, last, reports>>
count == <<copies, faults, sent, disturbed, repeated>>
vars == <<desktop, plugin, count>>

Message(is, value) == [is |-> is, value |-> value]
Messages == {Message("set", v) : v \in Values} \cup {Message("reply", v) : v \in Values \cup {0}}
            \cup {Message("get", 0)}

Pairs == {{d, e} : d, e \in Devices} \ {{d} : d \in Devices}

(* The fields hold what they can hold, a message comes from a device there   *)
(* is a session with, and only a watched clipboard is reported.             *)
TypeOK ==
  /\ {clip, last, lastLocal, lastRemote} \subseteq [Devices -> Values \cup {0}]
  /\ reports \in [Devices -> Seq(Values)] /\ writes \in [Devices -> Seq(Values)]
  /\ reads \in [Devices -> Seq(Devices)] /\ net \in [Devices -> [Devices -> Seq(Messages)]]
  /\ connected \subseteq Pairs
  /\ \A d, e \in Devices : net[d][e] # <<>> => {d, e} \in connected
  /\ \A d \in Devices \ Sends : reports[d] = <<>> /\ last[d] = 0
  /\ \A d \in Devices \ Receives : writes[d] = <<>> /\ lastRemote[d] = 0
  /\ copies \in 0 .. MaxCopies /\ faults \in 0 .. MaxFaults
  /\ sent \in Nat /\ {disturbed, repeated} \subseteq BOOLEAN

Init ==
  /\ clip = [d \in Devices |-> 0] /\ last = clip
  /\ lastLocal = clip /\ lastRemote = clip
  /\ reports = [d \in Devices |-> <<>>]
  /\ writes = reports /\ reads = reports /\ net = [d \in Devices |-> reports]
  /\ connected = {}
  /\ copies = 0 /\ faults = 0 /\ sent = 0 /\ disturbed = FALSE /\ repeated = FALSE

\* Nothing is under way, and every watcher has seen its clipboard.
Quiet ==
  /\ \A d \in Devices : reports[d] = <<>> /\ writes[d] = <<>> /\ reads[d] = <<>>
  /\ \A d, e \in Devices : net[d][e] = <<>>
  /\ \A d \in Sends : last[d] = clip[d]

Whole == Quiet /\ connected = Pairs

-----------------------------------------------------------------------------
(* The machine. *)

\* What a person does is counted, and whether something else was going on.
Done == copies < MaxCopies /\ copies' = copies + 1 /\ disturbed' = (disturbed \/ ~Whole)
Undone == copies < MaxCopies /\ copies' = copies + 1 /\ disturbed' = TRUE
Fault == faults < MaxFaults /\ faults' = faults + 1 /\ disturbed' = TRUE

Copy(d, v) ==
  /\ Done /\ v # clip[d] /\ clip' = [clip EXCEPT ![d] = v]
  /\ repeated' = (repeated \/ v = lastLocal[d])
  /\ UNCHANGED <<last, reports, plugin, faults, sent>>

\* The clipboard loses its text: emptied, or a picture.
Clear(d) ==
  /\ Undone /\ clip[d] # 0 /\ clip' = [clip EXCEPT ![d] = 0]
  /\ UNCHANGED <<last, reports, plugin, faults, sent, repeated>>

\* watch: each new value is reported once, the first one too.
Watch(d) ==
  /\ d \in Sends /\ clip[d] # last[d] /\ last' = [last EXCEPT ![d] = clip[d]]
  /\ reports' = IF clip[d] = 0 THEN reports ELSE [reports EXCEPT ![d] = Append(@, clip[d])]
  /\ UNCHANGED <<clip, plugin, count>>

\* The effector writes, in whatever order its tasks run, or cannot.
Write(d, i) ==
  /\ i \in DOMAIN writes[d] /\ writes' = [writes EXCEPT ![d] = RemoveAt(@, i)]
  /\ clip' = [clip EXCEPT ![d] = writes[d][i]]
  /\ UNCHANGED <<last, reports, connected, net, lastLocal, lastRemote, reads, count>>

WriteFails(d) ==
  /\ writes[d] # <<>> /\ writes' = [writes EXCEPT ![d] = Tail(@)] /\ Fault
  /\ UNCHANGED <<desktop, connected, net, lastLocal, lastRemote, reads, copies, sent, repeated>>

-----------------------------------------------------------------------------
(* The plugin. *)

\* Slip: a device that has gone is still in the list.
PeersEver(d) == Devices \ {d}

\* ClipboardPlugin.connected
Peers(d) == {e \in Devices : {d, e} \in connected}
SendTo(d, to, m) ==
  net' = [e \in Devices |-> IF e \in to THEN [net[e] EXCEPT ![d] = Append(@, m)] ELSE net[e]]

\* Slip: only what was sent is an echo.
TakeEchoLocal(d, v) == lastLocal[d] = v

\* take_echo: a value a peer just sent, once, and the value sent last.
TakeEcho(d, v) == lastRemote[d] = v \/ lastLocal[d] = v

\* Slip: what a peer sent once is an echo from then on.
OfferNever(d, v) ==
  IF TakeEcho(d, v) THEN UNCHANGED <<net, lastLocal, lastRemote, sent>>
  ELSE /\ lastLocal' = [lastLocal EXCEPT ![d] = v]
       /\ SendTo(d, Peers(d), Message("set", v))
       /\ sent' = IF disturbed THEN sent ELSE sent + Cardinality(Peers(d))
       /\ UNCHANGED lastRemote

\* offer
Offer(d, v) ==
  IF TakeEcho(d, v)
  THEN /\ lastRemote' = IF lastRemote[d] = v THEN [lastRemote EXCEPT ![d] = 0] ELSE lastRemote
       /\ UNCHANGED <<net, lastLocal, sent>>
  ELSE /\ lastLocal' = [lastLocal EXCEPT ![d] = v]
       /\ SendTo(d, Peers(d), Message("set", v))
       /\ sent' = IF disturbed THEN sent ELSE sent + Cardinality(Peers(d))
       /\ UNCHANGED lastRemote

\* on_local "changed"
Changed(d) ==
  /\ reports[d] # <<>> /\ reports' = [reports EXCEPT ![d] = Tail(@)]
  /\ Offer(d, Head(reports[d]))
  /\ UNCHANGED <<clip, last, connected, writes, reads, copies, faults, disturbed, repeated>>

\* on_local "push": a person's own words, whatever the send switch says.
Push(d, v) ==
  /\ Undone /\ Offer(d, v)
  /\ UNCHANGED <<desktop, connected, writes, reads, faults, repeated>>

\* on_local "get"
Get(d, e) ==
  /\ Done /\ e \in Peers(d) /\ SendTo(d, {e}, Message("get", 0))
  /\ UNCHANGED <<desktop, connected, lastLocal, lastRemote, writes, reads, faults, sent, repeated>>

\* directions.receive
Accepts(d) == d \in Receives

\* on_message: a "set" that answers a "get" is only shown.
OnMessage(d, e) ==
  /\ net[d][e] # <<>> /\ net' = [net EXCEPT ![d][e] = Tail(@)]
  /\ LET m == Head(net[d][e]) IN
     /\ IF m.is = "set" /\ Accepts(d)
        THEN /\ lastRemote' = [lastRemote EXCEPT ![d] = m.value]
             /\ writes' = [writes EXCEPT ![d] = Append(@, m.value)]
        ELSE UNCHANGED <<lastRemote, writes>>
     /\ reads' = IF m.is = "get" THEN [reads EXCEPT ![d] = Append(@, e)] ELSE reads
  /\ UNCHANGED <<desktop, connected, lastLocal, count>>

\* The read of a "get" is back: on_effect_result.
OnEffectResult(d) ==
  /\ reads[d] # <<>> /\ reads' = [reads EXCEPT ![d] = Tail(@)]
  /\ lastLocal' = [lastLocal EXCEPT ![d] = clip[d]]
  /\ SendTo(d, {Head(reads[d])} \cap Peers(d), Message("reply", clip[d]))
  /\ UNCHANGED <<desktop, connected, lastRemote, writes, count>>

\* Or has failed: the answer is an error, and nothing is remembered.
ReadFails(d) ==
  /\ reads[d] # <<>> /\ reads' = [reads EXCEPT ![d] = Tail(@)] /\ Fault
  /\ UNCHANGED <<desktop, connected, net, lastLocal, lastRemote, writes, copies, sent, repeated>>

\* on_peer_connected and on_peer_disconnected, at both ends.
PeerConnected(pair) ==
  /\ pair \in Pairs \ connected /\ connected' = connected \cup {pair}
  /\ UNCHANGED <<desktop, net, lastLocal, lastRemote, writes, reads, count>>

PeerDisconnected(pair) ==
  /\ pair \in connected /\ connected' = connected \ {pair} /\ Fault
  /\ net' = [d \in Devices |-> [e \in Devices |-> IF {d, e} = pair THEN <<>> ELSE net[d][e]]]
  /\ UNCHANGED <<desktop, lastLocal, lastRemote, writes, reads, copies, sent, repeated>>

-----------------------------------------------------------------------------
Settles(d) ==
  \/ Watch(d) \/ Changed(d) \/ OnEffectResult(d)
  \/ \E e \in Devices : OnMessage(d, e)
  \/ \E i \in DOMAIN writes[d] : Write(d, i)

Next ==
  \/ \E d \in Devices :
       \/ Settles(d) \/ Clear(d) \/ WriteFails(d) \/ ReadFails(d)
       \/ \E v \in Values : Copy(d, v) \/ Push(d, v)
       \/ \E e \in Devices : Get(d, e)
  \/ \E pair \in Pairs : PeerConnected(pair) \/ PeerDisconnected(pair)

Spec == Init /\ [][Next]_vars

\* Every watcher polls, and what is on its way arrives and is run.
Fairness ==
  \A d \in Devices :
    /\ WF_vars(Watch(d)) /\ WF_vars(Changed(d))
    /\ WF_vars(OnEffectResult(d)) /\ \A e \in Devices : WF_vars(OnMessage(d, e))
    /\ WF_vars(\E i \in DOMAIN writes[d] : Write(d, i))

FairSpec == Spec /\ Fairness

-----------------------------------------------------------------------------
(* Copies that do not overlap with anything else end with the same text on   *)
(* every clipboard: "copying it again is a person asking, not an echo"      *)
(* (clipboard.rs).                                                         *)
Alike == \A d, e \in Devices : clip[d] = clip[e]
EndsAlike == Whole /\ ~disturbed => Alike

(* They travel once: what a peer has just put on a clipboard does not go     *)
(* back to it.                                                             *)
SentOnce == ~disturbed => sent <= copies * (Cardinality(Devices) - 1)

(* And they do get there: while people do one thing at a time, and no device *)
(* copies again what it sent last (that stays an echo until it sends         *)
(* something else), every clipboard ends with the last text copied.          *)
ComesToRest == [](~disturbed /\ ~repeated) => <>[](Quiet /\ Alike)

=============================================================================
