------------------------------- MODULE Media --------------------------------
(***************************************************************************)
(* What is playing, shown and controlled from other devices: the media      *)
(* plugin (plugins/media.rs), the effects it asks for (acrylius-linux       *)
(* media.rs, mixer.rs, effector.rs) and the daemon's poll (main.rs).       *)
(*                                                                         *)
(* Every effect runs in a task of its own, so two readings may reach the    *)
(* plugin in another order than they were taken in.                        *)
(*                                                                         *)
(* Abstractions.  The machine's states are numbered as they happen and a    *)
(* reading is a number; it is of one moment.  A track stands for its title, *)
(* artist, album and length.  `previous` is `next`, `seek` stands for       *)
(* `position`, and the volume is the machine's: a player's own is one more   *)
(* command to it.  A reply to a device without a session is lost. *)
(***************************************************************************)
EXTENDS Integers, Sequences, FiniteSetsExt

CONSTANTS
  Peers,
  Players,      \* ordered by bus name
  Controls,     \* players that accept control
  Tracks,
  Volumes,
  Verbs,        \* what a device may ask for
  MaxChanges,   \* bound: changes of the machine
  MaxRequests,  \* bound: requests of all devices
  MaxPolls      \* bound: readings of the poll under way

ASSUME MediaAssumption ==
  /\ Players \subseteq Nat /\ Controls \subseteq Players
  /\ Verbs \subseteq {"query", "play", "pause", "playpause", "next", "stop", "seek", "volume"}
  /\ {MaxChanges, MaxRequests, MaxPolls} \subseteq Nat

VARIABLES
  host,       \* host[n]: the n-th state of the machine; the last is now
  orders,     \* calls a player has not acted on
  connected,  \* MediaPlugin.connected
  last,       \* MediaPlugin.last: a reading, or 0
  shown,      \* shown[p]: the reading p was last sent since it connected, or 0
  effect,     \* effect[r]: the task of request r
  polls,      \* effects of the poll: the reading each has taken, 0 if none runs
  request     \* request[r]: what was asked, by whom, and how it was answered

plugin == <<connected, last, shown>>
vars == <<host, orders, plugin, effect, polls, request>>

Now == Len(host)
Gone == [status |-> "gone", track |-> 0, moved |-> FALSE]
Opened == [status |-> "paused", track |-> Min(Tracks), moved |-> FALSE]
Status == {"playing", "paused", "stopped"}
Player == [status : Status, track : Tracks, moved : BOOLEAN]
HostState == [players : [Players -> Player \cup {Gone}], volume : Volumes]
Here(s) == {p \in Players : s.players[p] # Gone}

Requests == 1 .. MaxRequests
Request == [peer : Peers, verb : Verbs, player : Players \cup {0},
            is : {"asked", "state", "error"}]

\* `reading` is what a task will answer with, `before` the reading it compares.
Task == [at : {"none", "begin", "settle", "answer", "failed", "over"},
         before : 0 .. MaxChanges + 1, reading : 0 .. MaxChanges + 1, late : BOOLEAN]
NoTask == [at |-> "none", before |-> 0, reading |-> 0, late |-> FALSE]
Begun == [NoTask EXCEPT !.at = "begin"]
Failed == [NoTask EXCEPT !.at = "failed"]

(* The tables hold what their fields can hold, and no reading is of a state *)
(* the machine has not been in; every request taken has an effect.          *)
TypeOK ==
  /\ host \in Seq(HostState) /\ Now \in 1 .. MaxChanges + 1
  /\ orders \subseteq Players \X Verbs
  /\ connected \subseteq Peers
  /\ last \in 0 .. Now
  /\ shown \in [Peers -> 0 .. Now]
  /\ effect \in [Requests -> Task]
  /\ polls \in [1 .. MaxPolls -> 0 .. Now]
  /\ request \in Seq(Request) /\ Len(request) <= MaxRequests
  /\ \A r \in Requests : effect[r].at = "none" <=> r \notin DOMAIN request

Init ==
  /\ host = <<[players |-> [p \in Players |-> IF p = Min(Players) THEN Opened ELSE Gone],
               volume |-> Min(Volumes)]>>
  /\ orders = {}
  /\ connected = {} /\ last = 0
  /\ shown = [p \in Peers |-> 0]
  /\ effect = [r \in Requests |-> NoTask]
  /\ polls = [k \in 1 .. MaxPolls |-> 0]
  /\ request = <<>>

-----------------------------------------------------------------------------
(* The machine. *)

Becomes(s) == Now <= MaxChanges /\ s # host[Now] /\ host' = Append(host, s)

\* What a player does when it obeys.
Obeyed(p, verb) ==
  LET is == host[Now].players[p] IN
  CASE verb = "play" -> [is EXCEPT !.status = "playing"]
    [] verb = "pause" -> [is EXCEPT !.status = "paused"]
    [] verb = "playpause" -> [is EXCEPT !.status = IF @ = "playing" THEN "paused" ELSE "playing"]
    [] verb = "stop" -> [is EXCEPT !.status = "stopped"]
    [] verb = "next" -> [is EXCEPT !.track = CHOOSE t \in Tracks : t # @]
    [] OTHER -> [is EXCEPT !.moved = ~@]

\* A player acts on a call some time after it returned.
Obey(p, verb) ==
  /\ <<p, verb>> \in orders /\ orders' = orders \ {<<p, verb>>}
  /\ IF p \in Here(host[Now]) /\ Obeyed(p, verb) # host[Now].players[p]
     THEN Becomes([host[Now] EXCEPT !.players[p] = Obeyed(p, verb)])
     ELSE UNCHANGED host
  /\ UNCHANGED <<plugin, effect, polls, request>>

\* At the machine: a player is opened, closed or used; its position moves.
HostChange(p) ==
  /\ \E to \in IF p \in Here(host[Now])
              THEN {Gone} \cup {Obeyed(p, v) : v \in {"playpause", "seek"}} ELSE {Opened} :
       Becomes([host[Now] EXCEPT !.players[p] = to])
  /\ UNCHANGED <<orders, plugin, effect, polls, request>>

-----------------------------------------------------------------------------
(* Readings. *)

Firsts(ps) == IF ps = {} THEN 0 ELSE Min(ps)
Preferred(ps) == IF ps \cap Controls # {} THEN Firsts(ps \cap Controls) ELSE Firsts(ps)

\* pick_active
PickActive(s) ==
  LET by(st) == {p \in Players : s.players[p].status = st} IN
  IF by("playing") # {} THEN Preferred(by("playing"))
  ELSE IF by("paused") # {} THEN Preferred(by("paused"))
  ELSE Firsts(Here(s))

\* What a reading shows but for positions, which worth_announcing leaves out.
Shows(s) ==
  [active |-> PickActive(s), volume |-> s.volume,
   players |-> [p \in Here(s) |-> [status |-> s.players[p].status, track |-> s.players[p].track]]]

\* worth_announcing
WorthAnnouncing(before, now) == before = 0 \/ Shows(host[before]) # Shows(host[now])

\* landed: whether the reading `now` shows that the command was obeyed.
Landed(verb, player, before, now) ==
  LET target == IF player = 0 THEN PickActive(host[before]) ELSE player
      was == host[before].players[target]
      is == host[now].players[target]
  IN IF is = Gone THEN verb = "stop"
     ELSE CASE verb = "play" -> is.status = "playing"
            [] verb = "pause" -> is.status = "paused"
            [] verb = "stop" -> is.status = "stopped"
            [] verb = "playpause" -> was.status # is.status
            [] verb = "next" -> was.track # is.track
            [] OTHER -> TRUE

-----------------------------------------------------------------------------
(* The plugin. *)

\* broadcast_except: everybody connected is sent reading n, but for one device
\* that gets it as its answer.
Tell(ps, n) == shown' = [p \in Peers |-> IF p \in ps \cap connected THEN n ELSE shown[p]]

\* on_peer_connected
PeerConnected(p) ==
  /\ p \notin connected
  /\ connected' = connected \cup {p}
  /\ shown' = [shown EXCEPT ![p] = last]
  /\ UNCHANGED <<host, orders, last, effect, polls, request>>

\* on_peer_disconnected
PeerDisconnected(p) ==
  /\ p \in connected
  /\ connected' = connected \ {p}
  /\ shown' = [shown EXCEPT ![p] = 0]
  /\ UNCHANGED <<host, orders, last, effect, polls, request>>

\* action_for: a query and the machine's volume name no player.
Takes(verb, player) == verb \in {"query", "volume"} => player = 0

\* on_message: a verb becomes an effect and waits for its result.
OnMessage(p, verb, player) ==
  /\ p \in connected /\ Len(request) < MaxRequests /\ Takes(verb, player)
  /\ request' = Append(request, [peer |-> p, verb |-> verb, player |-> player,
                                 is |-> "asked"])
  /\ effect' = [effect EXCEPT ![Len(request) + 1] = Begun]
  /\ UNCHANGED <<host, orders, plugin, polls>>

\* The daemon's poll: on_local "notify", and the reading its effect takes.
Notify(k) ==
  /\ polls[k] = 0 /\ polls' = [polls EXCEPT ![k] = Now]
  /\ UNCHANGED <<host, orders, plugin, effect, request>>

\* Slip: only the first reading counts.
OnBroadcastOnce(k) ==
  /\ polls[k] > 0 /\ polls' = [polls EXCEPT ![k] = 0]
  /\ IF last = 0 THEN last' = polls[k] /\ Tell(Peers, polls[k]) ELSE UNCHANGED <<last, shown>>
  /\ UNCHANGED <<host, orders, connected, effect, request>>

\* on_effect_result of a reading nobody asked for.
OnBroadcast(k) ==
  /\ polls[k] > 0 /\ polls' = [polls EXCEPT ![k] = 0]
  /\ last' = polls[k]
  /\ IF WorthAnnouncing(last, polls[k]) THEN Tell(Peers, polls[k]) ELSE UNCHANGED shown
  /\ UNCHANGED <<host, orders, connected, effect, request>>

\* Slip: the others are not told what the answer showed.
OnStateAskerOnly(r) ==
  LET n == effect[r].reading
      peer == request[r].peer
  IN /\ effect[r].at = "answer"
     /\ effect' = [effect EXCEPT ![r].at = "over"]
     /\ last' = n
     /\ Tell({peer}, n)
     /\ request' = [request EXCEPT ![r].is = "state"]
     /\ UNCHANGED <<host, orders, connected, polls>>

\* on_effect_result of a reading that answers a request.
OnState(r) ==
  LET n == effect[r].reading
      peer == request[r].peer
  IN /\ effect[r].at = "answer"
     /\ effect' = [effect EXCEPT ![r].at = "over"]
     /\ last' = n
     /\ Tell(IF WorthAnnouncing(last, n) THEN Peers ELSE {peer}, n)
     /\ request' = [request EXCEPT ![r].is = "state"]
     /\ UNCHANGED <<host, orders, connected, polls>>

\* on_effect_result of an effect that failed.
OnFailed(r) ==
  /\ effect[r].at = "failed"
  /\ effect' = [effect EXCEPT ![r].at = "over"]
  /\ request' = [request EXCEPT ![r].is = "error"]
  /\ UNCHANGED <<host, orders, plugin, polls>>

-----------------------------------------------------------------------------
(* The effects. *)

\* MediaQuery: state()
Query(r) ==
  /\ effect[r].at = "begin" /\ request[r].verb = "query"
  /\ effect' = [effect EXCEPT ![r].at = "answer", ![r].reading = Now]
  /\ UNCHANGED <<host, orders, plugin, polls, request>>

\* The machine's own volume: mixer::set_volume, and a reading of whatever is
\* there afterwards.  It fails where nothing can set it, and also once it is set
\* if it cannot be read back.
SetVolume(r) ==
  /\ effect[r].at = "begin" /\ request[r].verb = "volume"
  /\ \E v \in Volumes :
       IF v = host[Now].volume THEN UNCHANGED host
       ELSE Becomes([host[Now] EXCEPT !.volume = v])
  /\ \/ effect' = [effect EXCEPT ![r] = [NoTask EXCEPT !.at = "settle"]]
     \/ effect' = [effect EXCEPT ![r] = Failed]
  /\ UNCHANGED <<orders, plugin, polls, request>>

\* control: the player a command is for, and the call to it.
Target(r) == IF request[r].player = 0 THEN PickActive(host[Now]) ELSE request[r].player

\* A player that is not there or accepts no control is not called; a call that
\* fails may have reached it all the same.
Control(r) ==
  /\ effect[r].at = "begin" /\ request[r].verb \notin {"query", "volume"}
  /\ \/ /\ Target(r) \in Here(host[Now]) \cap Controls
        /\ orders' = orders \cup {<<Target(r), request[r].verb>>}
        /\ \/ effect' = [effect EXCEPT ![r].at = "settle", ![r].before = Now]
           \/ effect' = [effect EXCEPT ![r] = Failed]
     \/ UNCHANGED orders /\ effect' = [effect EXCEPT ![r] = Failed]
  /\ UNCHANGED <<host, plugin, polls, request>>

\* CONTROL_CONFIRM_MS passes.
WindowCloses(r) ==
  /\ effect[r].at = "settle" /\ ~effect[r].late
  /\ effect' = [effect EXCEPT ![r].late = TRUE]
  /\ UNCHANGED <<host, orders, plugin, polls, request>>

\* Slip: the loop ends only once the command has landed.
ReadyIfLanded(r) ==
  LET e == effect[r] IN
  IF e.before = 0 THEN TRUE
  ELSE Landed(request[r].verb, request[r].player, e.before, Now)

\* What ends the loop of control_and_settle.
Ready(r) ==
  LET e == effect[r] IN
  IF e.before = 0 \/ e.late THEN TRUE
  ELSE Landed(request[r].verb, request[r].player, e.before, Now)

\* control_and_settle: a reading that shows the command, or the last one.
Settled(r) ==
  /\ effect[r].at = "settle" /\ Ready(r)
  /\ effect' = [effect EXCEPT ![r].at = "answer", ![r].reading = Now]
  /\ UNCHANGED <<host, orders, plugin, polls, request>>

-----------------------------------------------------------------------------
Work(r) == Query(r) \/ SetVolume(r) \/ Control(r) \/ Settled(r) \/ OnState(r) \/ OnFailed(r)
Poll(k) == Notify(k) \/ OnBroadcast(k)

Next ==
  \/ \E p \in Players : HostChange(p) \/ \E verb \in Verbs : Obey(p, verb)
  \/ \E p \in Peers : PeerConnected(p) \/ PeerDisconnected(p)
  \/ \E p \in Peers, verb \in Verbs, player \in Players \cup {0} : OnMessage(p, verb, player)
  \/ \E r \in DOMAIN request : Work(r) \/ WindowCloses(r)
  \/ \E k \in 1 .. MaxPolls : Poll(k)

Spec == Init /\ [][Next]_vars

(* An effect is a task nothing else holds up, the poll ticks every two      *)
(* seconds and a window closes.  That a task goes on assumes that each call  *)
(* over the bus returns: control_and_settle looks at its deadline only       *)
(* between two readings, and a player that never replies holds its task up.  *)
Fairness ==
  /\ \A r \in Requests : WF_vars(r \in DOMAIN request /\ Work(r))
                         /\ WF_vars(r \in DOMAIN request /\ WindowCloses(r))
  /\ \A k \in 1 .. MaxPolls : WF_vars(Poll(k))

FairSpec == Spec /\ Fairness

-----------------------------------------------------------------------------
(* Every connected device was last shown what the plugin remembers having    *)
(* shown, but for positions: a reading that answers one device is news to    *)
(* the others, and readings that arrive out of order leave no two devices    *)
(* apart.                                                                  *)
InStep ==
  \A p \in connected : last # 0 => shown[p] # 0 /\ Shows(host[shown[p]]) = Shows(host[last])

(* Each request is answered, by a state or an error, also one whose command   *)
(* never lands.                                                            *)
Answered ==
  \A r \in Requests : (r \in DOMAIN request) ~> (r \in DOMAIN request /\ request[r].is # "asked")

(* A connected device comes to show what the machine is doing, although      *)
(* readings overtake each other and nobody asks.                           *)
EveryoneCurrent ==
  \A p \in Peers :
    (p \in connected) ~> (p \notin connected \/ (shown[p] # 0 /\ Shows(host[shown[p]]) = Shows(host[Now])))

=============================================================================
