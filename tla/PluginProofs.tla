---------------------------- MODULE PluginProofs ----------------------------
(***************************************************************************)
(* Proofs about the plugins that keep several machines alike, for every set *)
(* of peers and every bound: Locking for every set of sessions, Media (M)   *)
(* for every set of players and verbs, Clipboard (C) for every set of       *)
(* devices and texts.                                                      *)
(*                                                                         *)
(* Media and Clipboard are instantiated beside Locking and nothing here     *)
(* relates one to another.  What they assume of their constants is a        *)
(* hypothesis of each result about them.                                   *)
(***************************************************************************)
EXTENDS Locking, Integers, FiniteSetTheorems, SequenceTheorems, WellFoundedInduction, TLAPS

CONSTANTS Players, Controls, Tracks, Volumes, Verbs, Devices, Values, Sends,
          Receives, MaxCopies, MaxFaults
VARIABLES orders, clip, reports, net, lastLocal, lastRemote, writes, reads,
          copies, faults, sent, disturbed, repeated
M == INSTANCE Media
C == INSTANCE Clipboard

-----------------------------------------------------------------------------
(* Media. *)

USE DEF M!MediaAssumption

(* Why InStep holds.  It is not inductive: the readings it compares, and     *)
(* the ones under way, must be of states the machine has been in, or a       *)
(* change of the machine could change what they show.  Which states those    *)
(* are does not matter.                                                     *)

\* The machine's past is a sequence.
IsPast == \E S : host \in Seq(S)

Taken(n) == n \in 1 .. Len(host)

Tables ==
  /\ M!Now \in 1 .. MaxChanges + 1
  /\ connected \subseteq Peers
  /\ last \in 0 .. M!Now
  /\ shown \in [Peers -> 0 .. M!Now]
  /\ effect \in [M!Requests -> M!Task]
  /\ polls \in [1 .. MaxPolls -> 0 .. M!Now]
  /\ request \in Seq(M!Request) /\ Len(request) <= MaxRequests

AnswersTaken == \A r \in M!Requests : effect[r].at = "answer" => Taken(effect[r].reading)

MediaInv == IsPast /\ Tables /\ AnswersTaken /\ M!InStep

(* The forms a task starts and fails in.                                   *)
LEMMA TaskForms ==
  ASSUME M!MediaAssumption
  PROVE  /\ M!NoTask \in M!Task /\ M!Begun \in M!Task /\ M!Failed \in M!Task
         /\ M!Begun.at = "begin" /\ M!Failed.at = "failed"
         /\ \A t \in M!Task : LET e == [t EXCEPT !.at = "settle"] IN e \in M!Task /\ e.at = "settle"
<1>1. M!NoTask \in M!Task
  BY DEF M!NoTask, M!Task
<1>2. \A t \in M!Task, a \in {"begin", "failed", "settle"} :
        [t EXCEPT !.at = a] \in M!Task /\ [t EXCEPT !.at = a].at = a
  BY DEF M!Task
<1> QED
  BY <1>1, <1>2 DEF M!Begun, M!Failed

(* The initial state satisfies the invariant.                              *)
LEMMA InitMedia ==
  ASSUME M!MediaAssumption
  PROVE  M!Init => MediaInv
<1> SUFFICES ASSUME M!Init PROVE MediaInv
  OBVIOUS
<1>1. Len(host) = 1 /\ IsPast
  <2>1. PICK s : host = <<s>>
    BY DEF M!Init
  <2>2. host \in Seq({s}) /\ Len(host) = 1
    BY <2>1
  <2> QED
    BY <2>2 DEF IsPast
<1>3. Tables
  <2>1. effect \in [M!Requests -> M!Task]
    BY TaskForms DEF M!Init
  <2>2. request \in Seq(M!Request) /\ Len(request) <= MaxRequests
    BY DEF M!Init
  <2>3. M!Now \in 1 .. MaxChanges + 1
    BY <1>1 DEF M!Now
  <2> QED
    BY <2>1, <2>2, <2>3 DEF M!Init, Tables
<1>4. AnswersTaken /\ M!InStep
  BY DEF M!Init, AnswersTaken, M!InStep, M!NoTask
<1> QED
  BY <1>1, <1>3, <1>4 DEF MediaInv

(* A step that leaves the plugin, the poll and the requests alone keeps the  *)
(* invariant, also when the machine changes, if the effects do.             *)
LEMMA HostKeeps ==
  ASSUME M!MediaAssumption,
         MediaInv, UNCHANGED <<connected, last, shown, polls, request>>,
         host' = host \/ \E s : M!Becomes(s),
         effect' \in [M!Requests -> M!Task],
         \A r \in M!Requests : effect'[r].at = "answer" =>
           effect'[r] = effect[r] \/ effect'[r].reading = M!Now
  PROVE  MediaInv'
<1>1. IsPast /\ Tables /\ AnswersTaken /\ M!InStep
  BY DEF MediaInv
<1>2. /\ Len(host) \in Nat /\ Len(host) <= Len(host') /\ Len(host') \in 1 .. MaxChanges + 1
      /\ \A n \in 1 .. Len(host) : host'[n] = host[n]
      /\ IsPast'
  <2>1. PICK S : host \in Seq(S)
    BY <1>1 DEF IsPast
  <2>2. CASE host' = host
    BY <1>1, <2>1, <2>2 DEF Tables, M!Now, IsPast
  <2>3. CASE \E s : M!Becomes(s)
    <3>1. PICK s : Len(host) <= MaxChanges /\ host' = Append(host, s)
      BY <2>3 DEF M!Becomes, M!Now
    <3>2. host \in Seq(S \cup {s})
      BY <2>1
    <3>3. host' \in Seq(S \cup {s}) /\ Len(host') = Len(host) + 1 /\ Len(host) \in Nat
          /\ \A n \in 1 .. Len(host) : host'[n] = host[n]
      BY <3>1, <3>2
    <3> QED
      BY <3>1, <3>3 DEF IsPast
  <2> QED
    BY <2>2, <2>3
<1>3. Tables'
  BY <1>1, <1>2 DEF Tables, M!Now
<1>4. AnswersTaken'
  BY <1>1, <1>2 DEF AnswersTaken, Taken, Tables, M!Now
<1>5. M!InStep'
  <2> SUFFICES ASSUME NEW p \in connected, last # 0
               PROVE  shown[p] # 0 /\ M!Shows(host'[shown[p]]) = M!Shows(host'[last])
    BY DEF M!InStep
  <2>1. shown[p] # 0 /\ M!Shows(host[shown[p]]) = M!Shows(host[last])
    BY <1>1 DEF M!InStep
  <2>2. shown[p] \in 1 .. Len(host) /\ last \in 1 .. Len(host)
    BY <1>1, <1>2, <2>1 DEF Tables, M!Now
  <2> QED
    BY <1>2, <2>1, <2>2
<1> QED
  BY <1>2, <1>3, <1>4, <1>5 DEF MediaInv

(* The plugin: connections, requests, and readings nobody asked for.         *)
LEMMA MediaPluginKeeps ==
  ASSUME M!MediaAssumption,
         MediaInv,
         \/ \E p \in Peers : M!PeerConnected(p) \/ M!PeerDisconnected(p)
         \/ \E p \in Peers, verb \in Verbs, player \in Players \cup {0} : M!OnMessage(p, verb, player)
         \/ \E k \in 1 .. MaxPolls : M!Poll(k)
  PROVE  MediaInv'
<1> USE DEF MediaInv
<1>1. ASSUME host' = host PROVE IsPast'
  BY <1>1 DEF IsPast
<1>2. ASSUME NEW p \in Peers, M!PeerConnected(p) PROVE MediaInv'
  BY <1>1, <1>2 DEF M!PeerConnected, Tables, AnswersTaken, Taken, M!InStep, M!Now
<1>3. ASSUME NEW p \in Peers, M!PeerDisconnected(p) PROVE MediaInv'
  BY <1>1, <1>3 DEF M!PeerDisconnected, Tables, AnswersTaken, Taken, M!InStep, M!Now
<1>4. ASSUME NEW p \in Peers, NEW verb \in Verbs, NEW player \in Players \cup {0},
             M!OnMessage(p, verb, player)
      PROVE  MediaInv'
  <2> DEFINE q == [peer |-> p, verb |-> verb, player |-> player, is |-> "asked"]
             n == Len(request) + 1
  <2>1. /\ request' = Append(request, q) /\ effect' = [effect EXCEPT ![n] = M!Begun]
        /\ UNCHANGED <<host, connected, last, shown, polls>>
        /\ Len(request) < MaxRequests
    BY <1>4 DEF M!OnMessage, M!plugin
  <2>2. q \in M!Request
    BY DEF M!Request
  <2>3. /\ request' \in Seq(M!Request) /\ Len(request') <= MaxRequests /\ n \in M!Requests
    BY <2>1, <2>2 DEF Tables, M!Requests
  <2>4. effect' \in [M!Requests -> M!Task]
        /\ \A r \in M!Requests : effect'[r].at = "answer" => effect'[r] = effect[r]
    BY <2>1, <2>3, TaskForms DEF Tables
  <2>5. Tables'
    BY <2>1, <2>3, <2>4 DEF Tables, M!Now
  <2>6. AnswersTaken' /\ M!InStep'
    BY <2>1, <2>4 DEF AnswersTaken, Taken, M!InStep
  <2> QED
    BY <1>1, <2>1, <2>5, <2>6
<1>5. ASSUME NEW k \in 1 .. MaxPolls, M!Notify(k) PROVE MediaInv'
  BY <1>1, <1>5 DEF M!Notify, M!plugin, Tables, AnswersTaken, Taken, M!InStep, M!Now
<1>6. ASSUME NEW k \in 1 .. MaxPolls, M!OnBroadcast(k) PROVE MediaInv'
  <2>0. polls[k] \in 0 .. M!Now /\ M!Now \in Nat
    BY DEF Tables
  <2>1. /\ UNCHANGED <<host, connected, effect, request>>
        /\ polls[k] \in 1 .. M!Now /\ last' = polls[k]
        /\ polls' = [polls EXCEPT ![k] = 0]
        /\ IF M!WorthAnnouncing(last, polls[k]) THEN M!Tell(Peers, polls[k]) ELSE UNCHANGED shown
    BY <1>6, <2>0 DEF M!OnBroadcast
  <2>2. Tables' /\ AnswersTaken'
    <3>1. shown' \in [Peers -> 0 .. M!Now]
      BY <2>1 DEF Tables, M!Tell
    <3>2. polls' \in [1 .. MaxPolls -> 0 .. M!Now]
      BY <2>0, <2>1 DEF Tables
    <3>3. Tables'
      BY <2>1, <3>1, <3>2 DEF Tables, M!Now
    <3> QED
      BY <2>1, <3>3 DEF AnswersTaken, Taken
  <2>3. M!InStep'
    BY <2>1 DEF M!InStep, M!Tell, M!WorthAnnouncing, Tables
  <2> QED
    BY <1>1, <2>1, <2>2, <2>3
<1> QED
  BY <1>2, <1>3, <1>4, <1>5, <1>6 DEF M!Poll

(* The effects, and what the plugin does with their results.                *)
LEMMA MediaWorkKeeps ==
  ASSUME M!MediaAssumption,
         MediaInv, NEW r \in DOMAIN request, M!Work(r) \/ M!WindowCloses(r)
  PROVE  MediaInv'
<1>1. /\ IsPast /\ Tables /\ AnswersTaken /\ M!InStep
      /\ r \in M!Requests /\ effect \in [M!Requests -> M!Task] /\ effect[r] \in M!Task
      /\ M!Now \in 0 .. MaxChanges + 1
  BY DEF MediaInv, Tables, M!Requests
<1>2. ASSUME NEW e \in M!Task, effect' = [effect EXCEPT ![r] = e],
             e.at = "answer" => e.reading = M!Now,
             host' = host \/ \E s : M!Becomes(s),
             UNCHANGED <<connected, last, shown, polls, request>>
      PROVE  MediaInv'
  <2>1. effect' \in [M!Requests -> M!Task] /\ effect'[r] = e
        /\ \A t \in M!Requests : t # r => effect'[t] = effect[t]
    BY <1>1, <1>2
  <2>2. \A t \in M!Requests : effect'[t].at = "answer" =>
          effect'[t] = effect[t] \/ effect'[t].reading = M!Now
    BY <1>2, <2>1
  <2> QED
    BY <1>2, <2>1, <2>2, HostKeeps
<1>3. CASE M!Query(r) \/ M!Settled(r)
  <2> DEFINE e == [effect[r] EXCEPT !.at = "answer", !.reading = M!Now]
  <2>1. e \in M!Task /\ e.reading = M!Now
    BY <1>1 DEF M!Task
  <2>2. effect' = [effect EXCEPT ![r] = e]
    BY <1>1, <1>3 DEF M!Query, M!Settled
  <2> QED
    BY <1>2, <1>3, <2>1, <2>2 DEF M!Query, M!Settled, M!plugin
<1>4. CASE M!SetVolume(r)
  <2> DEFINE e == [M!NoTask EXCEPT !.at = "settle"]
  <2>2. e \in M!Task /\ e.at # "answer"
    BY TaskForms
  <2>3. \/ effect' = [effect EXCEPT ![r] = e]
        \/ effect' = [effect EXCEPT ![r] = M!Failed]
    BY <1>4 DEF M!SetVolume
  <2>4. host' = host \/ \E s : M!Becomes(s)
    BY <1>4 DEF M!SetVolume
  <2>5. UNCHANGED <<connected, last, shown, polls, request>>
    BY <1>4 DEF M!SetVolume, M!plugin
  <2> HIDE DEF e
  <2> QED
    BY <1>2, <2>2, <2>3, <2>4, <2>5, TaskForms
<1>5. CASE M!Control(r)
  <2> DEFINE e == [effect[r] EXCEPT !.at = "settle", !.before = M!Now]
  <2>1. e \in M!Task /\ e.at # "answer"
    BY <1>1 DEF M!Task
  <2>2. \/ effect' = [effect EXCEPT ![r] = e]
        \/ effect' = [effect EXCEPT ![r] = M!Failed]
    BY <1>1, <1>5 DEF M!Control
  <2>3. host' = host /\ UNCHANGED <<connected, last, shown, polls, request>>
    BY <1>5 DEF M!Control, M!plugin
  <2> HIDE DEF e
  <2> QED
    BY <1>2, <2>1, <2>2, <2>3, TaskForms
<1>6. CASE M!WindowCloses(r)
  <2> DEFINE e == [effect[r] EXCEPT !.late = TRUE]
  <2>1. e \in M!Task /\ e.at # "answer"
    BY <1>1, <1>6 DEF M!Task, M!WindowCloses
  <2>2. effect' = [effect EXCEPT ![r] = e]
    BY <1>1, <1>6 DEF M!WindowCloses
  <2> QED
    BY <1>2, <1>6, <2>1, <2>2 DEF M!WindowCloses, M!plugin
<1>7. ASSUME NEW is \in {"state", "error"}, request' = [request EXCEPT ![r].is = is],
             effect' = [effect EXCEPT ![r].at = "over"],
             UNCHANGED <<host, connected, polls>>,
             last' \in 0 .. M!Now, shown' \in [Peers -> 0 .. M!Now]
      PROVE  IsPast' /\ Tables' /\ AnswersTaken'
  <2>0. request[r] \in M!Request
    BY <1>1 DEF Tables
  <2>1. [request[r] EXCEPT !.is = is] \in M!Request
    BY <2>0 DEF M!Request
  <2>2. request' \in Seq(M!Request) /\ Len(request') <= MaxRequests
    BY <1>1, <1>7, <2>1 DEF Tables
  <2>3. [effect[r] EXCEPT !.at = "over"] \in M!Task
        /\ [effect[r] EXCEPT !.at = "over"].at = "over"
    BY <1>1 DEF M!Task
  <2>4. effect' \in [M!Requests -> M!Task] /\ effect'[r].at = "over"
        /\ \A t \in M!Requests : t # r => effect'[t] = effect[t]
    BY <1>1, <1>7, <2>3
  <2>5. IsPast'
    BY <1>1, <1>7 DEF IsPast
  <2>6. Tables'
    BY <1>1, <1>7, <2>2, <2>4 DEF Tables, M!Now
  <2>7. AnswersTaken'
    BY <1>1, <1>7, <2>4 DEF AnswersTaken, Taken
  <2> QED
    BY <2>5, <2>6, <2>7
<1>8. CASE M!OnFailed(r)
  <2>1. M!InStep' /\ last' \in 0 .. M!Now /\ shown' \in [Peers -> 0 .. M!Now]
    BY <1>1, <1>8 DEF M!OnFailed, M!plugin, M!InStep, Tables
  <2> QED
    BY <1>7, <1>8, <2>1 DEF M!OnFailed, M!plugin, MediaInv
<1>9. CASE M!OnState(r)
  <2> DEFINE n == effect[r].reading
  <2>1. n \in 1 .. M!Now
    BY <1>1, <1>9 DEF M!OnState, AnswersTaken, Taken, M!Now
  <2>2. /\ UNCHANGED <<host, connected, polls>> /\ last' = n
        /\ M!Tell(IF M!WorthAnnouncing(last, n) THEN Peers ELSE {request[r].peer}, n)
    BY <1>9 DEF M!OnState
  <2> HIDE DEF n
  <2>3. last' \in 0 .. M!Now /\ shown' \in [Peers -> 0 .. M!Now]
    BY <1>1, <2>1, <2>2 DEF M!Tell, Tables
  <2>4. M!InStep'
    BY <1>1, <2>1, <2>2 DEF M!InStep, M!Tell, M!WorthAnnouncing, Tables
  <2> QED
    BY <1>7, <1>9, <2>3, <2>4 DEF M!OnState, MediaInv
<1> QED
  BY <1>3, <1>4, <1>5, <1>6, <1>8, <1>9 DEF M!Work

(* Every step preserves the invariant.                                     *)
LEMMA StepMedia ==
  ASSUME M!MediaAssumption
  PROVE  MediaInv /\ [M!Next]_M!vars => MediaInv'
<1> SUFFICES ASSUME MediaInv, [M!Next]_M!vars PROVE MediaInv'
  OBVIOUS
<1>1. effect \in [M!Requests -> M!Task]
  BY DEF MediaInv, Tables
<1>2. ASSUME NEW p \in Players, M!HostChange(p) PROVE MediaInv'
  BY <1>1, <1>2, HostKeeps DEF M!HostChange, M!plugin
<1>3. ASSUME NEW p \in Players, NEW verb \in Verbs, M!Obey(p, verb) PROVE MediaInv'
  BY <1>1, <1>3, HostKeeps DEF M!Obey, M!plugin
<1>4. CASE UNCHANGED M!vars
  BY <1>1, <1>4, HostKeeps DEF M!vars, M!plugin
<1> QED
  BY <1>2, <1>3, <1>4, MediaPluginKeeps, MediaWorkKeeps DEF M!Next

-----------------------------------------------------------------------------
(* All devices connected to a desktop show the same players, the ones its    *)
(* media plugin remembers, in whatever order readings and answers arrive.    *)
THEOREM MediaInStep ==
  ASSUME M!MediaAssumption
  PROVE  M!Spec => []M!InStep
<1>1. MediaInv => M!InStep
  BY DEF MediaInv
<1> QED
  BY InitMedia, StepMedia, <1>1, PTL DEF M!Spec

-----------------------------------------------------------------------------
(* Clipboard. *)

USE DEF C!ClipboardAssumption

(* The library Clipboard uses is the one used here.                         *)
LEMMA SameLibrary ==
  ASSUME C!ClipboardAssumption
  PROVE  \A S : (C!IsFiniteSet(S) <=> IsFiniteSet(S)) /\ C!Cardinality(S) = Cardinality(S)
  BY DEF C!IsFiniteSet, IsFiniteSet, C!Cardinality, Cardinality

(* The forms of a message.                                                  *)
LEMMA MessageForms ==
  ASSUME C!ClipboardAssumption
  PROVE  /\ \A v \in Values : /\ C!Message("set", v) \in C!Messages
                              /\ C!Message("set", v).is = "set" /\ C!Message("set", v).value = v
         /\ \A v \in Values \cup {0} : /\ C!Message("reply", v) \in C!Messages
                                       /\ C!Message("reply", v).is = "reply"
         /\ C!Message("get", 0) \in C!Messages /\ C!Message("get", 0).is = "get"
         /\ \A m \in C!Messages : m.is = "set" => m.value \in Values
<1>1. \A v : /\ C!Message("set", v).is = "set" /\ C!Message("set", v).value = v
             /\ C!Message("reply", v).is = "reply" /\ C!Message("get", v).is = "get"
  BY DEF C!Message
<1> QED
  BY <1>1 DEF C!Messages

\* How much one copy may send.
Fanout == Cardinality(Devices) - 1

(* A device has at most the others as its peers.                            *)
LEMMA PeersCount ==
  ASSUME C!ClipboardAssumption,
         connected \subseteq C!Pairs, NEW d \in Devices
  PROVE  /\ Cardinality(C!Peers(d)) \in Nat /\ Fanout \in Nat /\ Cardinality(C!Peers(d)) <= Fanout
         /\ d \notin C!Peers(d) /\ C!Peers(d) \subseteq Devices
<1>1. d \notin C!Peers(d) /\ C!Peers(d) \subseteq Devices
  <2>1. {d, d} \notin C!Pairs
    BY DEF C!Pairs
  <2> QED
    BY <2>1 DEF C!Peers
<1>2. IsFiniteSet(Devices \ {d}) /\ Cardinality(Devices \ {d}) = Fanout
  <2>1. IsFiniteSet(Devices)
    BY SameLibrary
  <2> QED
    BY <2>1, FS_RemoveElement DEF Fanout
<1>3. C!Peers(d) \in SUBSET (Devices \ {d})
  BY <1>1
<1>4. IsFiniteSet(C!Peers(d)) /\ Cardinality(C!Peers(d)) <= Fanout
  BY <1>2, <1>3, FS_Subset
<1> QED
  BY <1>1, <1>2, <1>4, FS_CardinalityType

\* What travels, and that there is a session for it.
Travelling ==
  /\ net \in [Devices -> [Devices -> Seq(C!Messages)]]
  /\ \A d, e \in Devices : net[d][e] # <<>> => {d, e} \in connected

(* A message goes to the peers it is for and to nobody else.                 *)
LEMMA SendForm ==
  ASSUME C!ClipboardAssumption,
         Travelling, UNCHANGED connected, NEW d \in Devices, NEW to \in SUBSET C!Peers(d),
         NEW m \in C!Messages, C!SendTo(d, to, m)
  PROVE  /\ Travelling'
         /\ \A x, y \in Devices :
              net'[x][y] = IF x \in to /\ y = d THEN Append(net[x][y], m) ELSE net[x][y]
<1>1. net \in [Devices -> [Devices -> Seq(C!Messages)]]
  BY DEF Travelling
<1>2. ASSUME NEW x \in Devices
      PROVE  /\ net'[x] = IF x \in to THEN [net[x] EXCEPT ![d] = Append(net[x][d], m)] ELSE net[x]
             /\ net[x] \in [Devices -> Seq(C!Messages)]
  BY <1>1 DEF C!SendTo
<1>3. ASSUME NEW x \in Devices, NEW y \in Devices
      PROVE  net'[x][y] = IF x \in to /\ y = d THEN Append(net[x][y], m) ELSE net[x][y]
  BY <1>2
<1>4. ASSUME NEW x \in Devices, NEW y \in Devices
      PROVE  net'[x][y] \in Seq(C!Messages) /\ (net'[x][y] # <<>> => {x, y} \in connected')
  <2>1. net[x][y] \in Seq(C!Messages) /\ (net[x][y] # <<>> => {x, y} \in connected)
    BY <1>1 DEF Travelling
  <2>2. x \in to /\ y = d => {x, y} \in connected
    <3>1. x \in to => {d, x} \in connected
      BY DEF C!Peers
    <3>2. {d, x} = {x, d}
      OBVIOUS
    <3> QED
      BY <3>1, <3>2
  <2>3. Append(net[x][y], m) \in Seq(C!Messages)
    BY <2>1
  <2>4. CASE x \in to /\ y = d
    BY <1>3, <2>2, <2>3, <2>4
  <2>5. CASE ~(x \in to /\ y = d)
    BY <1>3, <2>1, <2>5
  <2> QED
    BY <2>4, <2>5
<1>5. net' \in [Devices -> [Devices -> Seq(C!Messages)]]
  <2>1. ASSUME NEW x \in Devices PROVE net'[x] \in [Devices -> Seq(C!Messages)]
    <3>1. net[x][d] \in Seq(C!Messages)
      BY <1>2
    <3>2. Append(net[x][d], m) \in Seq(C!Messages)
      BY <3>1
    <3> QED
      BY <1>2, <3>2
  <2>2. net' = [x \in Devices |-> net'[x]]
    BY DEF C!SendTo
  <2> QED
    BY <2>1, <2>2
<1> QED
  BY <1>3, <1>4, <1>5 DEF Travelling

(* Taking one element out of a sequence.                                   *)
LEMMA RemoveType ==
  ASSUME C!ClipboardAssumption,
         NEW S, NEW q \in Seq(S), NEW i \in DOMAIN q
  PROVE  C!RemoveAt(q, i) \in Seq(S) /\ Len(C!RemoveAt(q, i)) = Len(q) - 1
<1>1. i \in 1 .. Len(q) /\ Len(q) \in Nat
  OBVIOUS
<1>2. /\ SubSeq(q, 1, i - 1) \in Seq(S) /\ Len(SubSeq(q, 1, i - 1)) = i - 1
      /\ SubSeq(q, i + 1, Len(q)) \in Seq(S) /\ Len(SubSeq(q, i + 1, Len(q))) = Len(q) - i
  BY <1>1
<1> DEFINE a == SubSeq(q, 1, i - 1)
           b == SubSeq(q, i + 1, Len(q))
<1>3. C!RemoveAt(q, i) = a \o b
  BY DEF C!RemoveAt
<1> HIDE DEF a, b
<1>4. a \in Seq(S) /\ b \in Seq(S) /\ Len(a) = i - 1 /\ Len(b) = Len(q) - i
  BY <1>2 DEF a, b
<1>5. a \o b \in Seq(S) /\ Len(a \o b) = Len(a) + Len(b)
  BY <1>4, ConcatProperties
<1> QED
  BY <1>1, <1>3, <1>4, <1>5

-----------------------------------------------------------------------------
(* The fields. *)

Texts == [Devices -> Values \cup {0}]

Desk ==
  /\ clip \in Texts /\ last \in Texts /\ reports \in [Devices -> Seq(Values)]
  /\ \A d \in Devices \ Sends : reports[d] = <<>> /\ last[d] = 0

Plugged ==
  /\ lastLocal \in Texts /\ lastRemote \in Texts
  /\ writes \in [Devices -> Seq(Values)] /\ reads \in [Devices -> Seq(Devices)]
  /\ connected \subseteq C!Pairs
  /\ \A d \in Devices \ Receives : writes[d] = <<>> /\ lastRemote[d] = 0

Counted ==
  /\ copies \in 0 .. MaxCopies /\ faults \in 0 .. MaxFaults
  /\ sent \in Nat /\ disturbed \in BOOLEAN /\ repeated \in BOOLEAN

FieldsInv == Desk /\ Plugged /\ Travelling /\ Counted

(* What offer does: an echo goes nowhere, anything else to every peer.       *)
LEMMA OfferForm ==
  ASSUME C!ClipboardAssumption,
         FieldsInv, NEW d \in Devices, NEW v \in Values, C!Offer(d, v), UNCHANGED connected
  PROVE  /\ lastLocal' \in Texts /\ lastRemote' \in Texts /\ Travelling' /\ sent' \in Nat
         /\ \A e \in Devices \ Receives : lastRemote'[e] = 0
         /\ \/ C!TakeEcho(d, v) /\ UNCHANGED <<net, sent>>
            \/ /\ ~C!TakeEcho(d, v) /\ sent' <= sent + Fanout /\ UNCHANGED lastRemote
               /\ \A x, y \in Devices :
                    net'[x][y] = IF x \in C!Peers(d) /\ y = d THEN Append(net[x][y], C!Message("set", v))
                                 ELSE net[x][y]
<1>1. /\ lastLocal \in Texts /\ lastRemote \in Texts /\ Travelling /\ sent \in Nat
      /\ connected \subseteq C!Pairs /\ \A e \in Devices \ Receives : lastRemote[e] = 0
  BY DEF FieldsInv, Plugged, Counted
<1>2. CASE C!TakeEcho(d, v)
  <2>1. /\ lastRemote' = IF lastRemote[d] = v THEN [lastRemote EXCEPT ![d] = 0] ELSE lastRemote
        /\ UNCHANGED <<net, lastLocal, sent>>
    BY <1>2 DEF C!Offer
  <2>2. Travelling'
    BY <1>1, <2>1 DEF Travelling
  <2>3. lastRemote' \in Texts /\ \A e \in Devices \ Receives : lastRemote'[e] = 0
    BY <1>1, <2>1 DEF Texts
  <2> QED
    BY <1>1, <1>2, <2>1, <2>2, <2>3
<1>3. CASE ~C!TakeEcho(d, v)
  <2>1. /\ lastLocal' = [lastLocal EXCEPT ![d] = v]
        /\ C!SendTo(d, C!Peers(d), C!Message("set", v)) /\ UNCHANGED lastRemote
        /\ sent' = IF disturbed THEN sent ELSE sent + Cardinality(C!Peers(d))
    BY <1>3, SameLibrary DEF C!Offer
  <2>2. lastLocal' \in Texts
    BY <1>1, <2>1 DEF Texts
  <2>3. C!Message("set", v) \in C!Messages
    BY MessageForms
  <2>4. /\ Travelling'
        /\ \A x, y \in Devices :
             net'[x][y] = IF x \in C!Peers(d) /\ y = d THEN Append(net[x][y], C!Message("set", v))
                          ELSE net[x][y]
    <3> DEFINE m == C!Message("set", v)
               to == C!Peers(d)
    <3>1. C!SendTo(d, to, m) /\ m \in C!Messages /\ to \in SUBSET C!Peers(d)
      BY <2>1, <2>3
    <3> HIDE DEF m, to
    <3>2. Travelling
      BY <1>1
    <3>3. /\ Travelling'
          /\ \A x, y \in Devices :
               net'[x][y] = IF x \in to /\ y = d THEN Append(net[x][y], m) ELSE net[x][y]
      BY <3>1, <3>2, SendForm
    <3> QED
      BY <3>3 DEF m, to
  <2>5. sent' \in Nat /\ sent' <= sent + Fanout
    <3>1. Cardinality(C!Peers(d)) \in Nat /\ Fanout \in Nat /\ Cardinality(C!Peers(d)) <= Fanout
      BY <1>1, PeersCount
    <3> QED
      BY <1>1, <2>1, <3>1
  <2> QED
    BY <1>1, <1>3, <2>1, <2>2, <2>4, <2>5
<1> QED
  BY <1>2, <1>3

(* The initial state.                                                      *)
LEMMA InitFields ==
  ASSUME C!ClipboardAssumption
  PROVE  C!Init => FieldsInv
<1> SUFFICES ASSUME C!Init PROVE FieldsInv
  OBVIOUS
<1>1. Desk
  BY DEF C!Init, Desk, Texts
<1>2. Plugged
  BY DEF C!Init, Plugged, Texts
<1>3. Travelling
  <2>1. net = [d \in Devices |-> [e \in Devices |-> <<>>]]
    BY DEF C!Init
  <2> QED
    BY <2>1 DEF Travelling
<1>4. Counted
  <2>1. MaxCopies \in Nat /\ MaxFaults \in Nat
    OBVIOUS
  <2>2. 0 \in 0 .. MaxCopies /\ 0 \in 0 .. MaxFaults /\ 0 \in Nat
    BY <2>1
  <2> QED
    BY <2>2, Zenon DEF C!Init, Counted
<1> QED
  BY <1>1, <1>2, <1>3, <1>4 DEF FieldsInv

(* Every step leaves the fields what they can be.                           *)
LEMMA StepFields ==
  ASSUME C!ClipboardAssumption
  PROVE  FieldsInv /\ [C!Next]_C!vars => FieldsInv'
<1> SUFFICES ASSUME FieldsInv, [C!Next]_C!vars PROVE FieldsInv'
  OBVIOUS
<1>1. Desk /\ Plugged /\ Travelling /\ Counted
  BY DEF FieldsInv
<1>2. UNCHANGED C!desktop => Desk'
  BY <1>1 DEF Desk, C!desktop
<1>3. UNCHANGED <<connected, lastLocal, lastRemote, writes, reads>> => Plugged'
  BY <1>1 DEF Plugged
<1>4. UNCHANGED <<connected, net>> => Travelling'
  BY <1>1 DEF Travelling
<1>5. /\ UNCHANGED C!count => Counted'
      /\ C!Done /\ UNCHANGED <<faults, sent>> /\ repeated' \in BOOLEAN => Counted'
      /\ C!Undone /\ UNCHANGED <<faults, repeated>> /\ sent' \in Nat => Counted'
      /\ C!Fault /\ UNCHANGED <<copies, sent, repeated>> => Counted'
  <2>1. /\ copies \in 0 .. MaxCopies /\ faults \in 0 .. MaxFaults /\ MaxCopies \in Nat /\ MaxFaults \in Nat
        /\ sent \in Nat /\ disturbed \in BOOLEAN /\ repeated \in BOOLEAN
    BY <1>1 DEF Counted
  <2>2. copies < MaxCopies => copies + 1 \in 0 .. MaxCopies
    BY <2>1
  <2>3. faults < MaxFaults => faults + 1 \in 0 .. MaxFaults
    BY <2>1
  <2>4. UNCHANGED C!count => Counted'
    BY <2>1 DEF Counted, C!count
  <2>5. C!Done /\ UNCHANGED <<faults, sent>> /\ repeated' \in BOOLEAN => Counted'
    BY <2>1, <2>2, Zenon DEF Counted, C!Done
  <2>6. C!Undone /\ UNCHANGED <<faults, repeated>> /\ sent' \in Nat => Counted'
    BY <2>1, <2>2 DEF Counted, C!Undone
  <2>7. C!Fault /\ UNCHANGED <<copies, sent, repeated>> => Counted'
    BY <2>1, <2>3 DEF Counted, C!Fault
  <2> QED
    BY <2>4, <2>5, <2>6, <2>7
<1>6. ASSUME NEW d \in Devices, NEW v \in Values, C!Copy(d, v) PROVE FieldsInv'
  <2>1. Desk'
    BY <1>1, <1>6 DEF Desk, C!Copy, Texts
  <2>2. Plugged' /\ Travelling' /\ Counted'
    BY <1>3, <1>4, <1>5, <1>6, Zenon DEF C!Copy, C!plugin
  <2> QED
    BY <2>1, <2>2 DEF FieldsInv
<1>7. ASSUME NEW d \in Devices, C!Clear(d) PROVE FieldsInv'
  <2>1. Desk'
    BY <1>1, <1>7 DEF Desk, C!Clear, Texts
  <2>2. sent' \in Nat
    BY <1>1, <1>7 DEF C!Clear, Counted
  <2>3. Plugged' /\ Travelling' /\ Counted'
    BY <1>3, <1>4, <1>5, <1>7, <2>2 DEF C!Clear, C!plugin
  <2> QED
    BY <2>1, <2>3 DEF FieldsInv
<1>8. ASSUME NEW d \in Devices, C!Watch(d) PROVE FieldsInv'
  <2>1. /\ d \in Sends /\ last' = [last EXCEPT ![d] = clip[d]] /\ UNCHANGED clip
        /\ reports' = IF clip[d] = 0 THEN reports ELSE [reports EXCEPT ![d] = Append(reports[d], clip[d])]
    BY <1>8 DEF C!Watch
  <2>2. reports' \in [Devices -> Seq(Values)]
    <3>1. clip[d] # 0 => Append(reports[d], clip[d]) \in Seq(Values)
      <4>1. reports[d] \in Seq(Values) /\ clip[d] \in Values \cup {0}
        BY <1>1 DEF Desk, Texts
      <4> QED
        BY <4>1
    <3> QED
      BY <1>1, <2>1, <3>1 DEF Desk
  <2>3. Desk'
    BY <1>1, <2>1, <2>2 DEF Desk, Texts
  <2>4. Plugged' /\ Travelling' /\ Counted'
    BY <1>3, <1>4, <1>5, <1>8 DEF C!Watch, C!plugin
  <2> QED
    BY <2>3, <2>4 DEF FieldsInv
<1>9. ASSUME NEW d \in Devices, NEW i \in DOMAIN writes[d], C!Write(d, i) PROVE FieldsInv'
  <2>1. writes[d] \in Seq(Values) /\ d \in Receives
    BY <1>1, <1>9 DEF Plugged
  <2>2. C!RemoveAt(writes[d], i) \in Seq(Values) /\ writes[d][i] \in Values
    BY <2>1, RemoveType
  <2>3. /\ writes' = [writes EXCEPT ![d] = C!RemoveAt(writes[d], i)]
        /\ clip' = [clip EXCEPT ![d] = writes[d][i]]
        /\ UNCHANGED <<last, reports, connected, net, lastLocal, lastRemote, reads, C!count>>
    BY <1>9 DEF C!Write
  <2>4. Desk'
    BY <1>1, <2>2, <2>3 DEF Desk, Texts
  <2>5. Plugged'
    BY <1>1, <2>1, <2>2, <2>3 DEF Plugged
  <2> QED
    BY <1>4, <1>5, <2>3, <2>4, <2>5 DEF FieldsInv
<1>10. ASSUME NEW d \in Devices, C!WriteFails(d) PROVE FieldsInv'
  <2>1. writes[d] \in Seq(Values) /\ writes[d] # <<>>
    BY <1>1, <1>10 DEF Plugged, C!WriteFails
  <2>2. Tail(writes[d]) \in Seq(Values) /\ d \in Receives
    BY <1>1, <2>1 DEF Plugged
  <2>3. Plugged'
    BY <1>1, <1>10, <2>2 DEF Plugged, C!WriteFails
  <2> QED
    BY <1>2, <1>4, <1>5, <1>10, <2>3 DEF C!WriteFails, FieldsInv
<1>11. ASSUME NEW d \in Devices, NEW v \in Values, C!Offer(d, v),
              UNCHANGED <<connected, writes, reads>>
       PROVE  Plugged' /\ Travelling' /\ sent' \in Nat
  BY <1>1, <1>11, OfferForm DEF Plugged
<1>12. ASSUME NEW d \in Devices, C!Changed(d) PROVE FieldsInv'
  <2>1. reports[d] \in Seq(Values) /\ reports[d] # <<>>
    BY <1>1, <1>12 DEF Desk, C!Changed
  <2>2. Tail(reports[d]) \in Seq(Values) /\ Head(reports[d]) \in Values /\ d \in Sends
    BY <1>1, <2>1 DEF Desk
  <2>3. Desk'
    BY <1>1, <1>12, <2>2 DEF Desk, C!Changed
  <2>4. Plugged' /\ Travelling' /\ sent' \in Nat
    BY <1>11, <1>12, <2>2 DEF C!Changed
  <2>5. Counted'
    BY <1>1, <1>12, <2>4 DEF C!Changed, Counted
  <2> QED
    BY <2>3, <2>4, <2>5 DEF FieldsInv
<1>13. ASSUME NEW d \in Devices, NEW v \in Values, C!Push(d, v) PROVE FieldsInv'
  <2>1. Plugged' /\ Travelling' /\ sent' \in Nat
    BY <1>11, <1>13 DEF C!Push
  <2> QED
    BY <1>2, <1>5, <1>13, <2>1 DEF C!Push, FieldsInv
<1>14. ASSUME NEW d \in Devices, NEW e \in Devices, C!Get(d, e) PROVE FieldsInv'
  <2>1. /\ {e} \in SUBSET C!Peers(d) /\ C!SendTo(d, {e}, C!Message("get", 0)) /\ UNCHANGED connected
        /\ C!Message("get", 0) \in C!Messages
    BY <1>14, MessageForms DEF C!Get
  <2>2. Travelling'
    BY <1>1, <2>1, SendForm
  <2>3. Counted'
    <3>1. repeated \in BOOLEAN
      BY <1>1 DEF Counted
    <3> QED
      BY <1>5, <1>14, <3>1 DEF C!Get
  <2> QED
    BY <1>2, <1>3, <1>14, <2>2, <2>3 DEF C!Get, FieldsInv
<1>15. ASSUME NEW d \in Devices, NEW e \in Devices, C!OnMessage(d, e) PROVE FieldsInv'
  <2> DEFINE m == Head(net[d][e])
  <2>1. net[d][e] \in Seq(C!Messages) /\ net[d][e] # <<>>
    BY <1>1, <1>15 DEF Travelling, C!OnMessage
  <2>2. m \in C!Messages /\ Tail(net[d][e]) \in Seq(C!Messages)
    BY <2>1
  <2>3. Travelling'
    <3>1. net' = [net EXCEPT ![d][e] = Tail(net[d][e])] /\ UNCHANGED connected
      BY <1>15 DEF C!OnMessage
    <3>2. net' \in [Devices -> [Devices -> Seq(C!Messages)]]
      BY <1>1, <2>2, <3>1 DEF Travelling
    <3>3. \A x, y \in Devices : net'[x][y] = net[x][y] \/ (x = d /\ y = e)
      BY <1>1, <3>1 DEF Travelling
    <3>4. {d, e} \in connected
      BY <1>1, <2>1 DEF Travelling
    <3> QED
      BY <1>1, <3>1, <3>2, <3>3, <3>4 DEF Travelling
  <2>4. Plugged'
    <3>1. /\ IF m.is = "set" /\ d \in Receives
             THEN /\ lastRemote' = [lastRemote EXCEPT ![d] = m.value]
                  /\ writes' = [writes EXCEPT ![d] = Append(writes[d], m.value)]
             ELSE UNCHANGED <<lastRemote, writes>>
          /\ reads' = IF m.is = "get" THEN [reads EXCEPT ![d] = Append(reads[d], e)] ELSE reads
          /\ UNCHANGED <<connected, lastLocal>>
      BY <1>15 DEF C!OnMessage, C!Accepts
    <3>2. m.is = "set" => m.value \in Values
      BY <2>2, MessageForms
    <3> HIDE DEF m
    <3>3. m.is = "set" => Append(writes[d], m.value) \in Seq(Values)
      BY <1>1, <3>2 DEF Plugged
    <3>4. Append(reads[d], e) \in Seq(Devices)
      BY <1>1 DEF Plugged
    <3>5. /\ lastRemote' \in Texts /\ writes' \in [Devices -> Seq(Values)]
          /\ \A x \in Devices \ Receives : writes'[x] = <<>> /\ lastRemote'[x] = 0
      BY <1>1, <3>1, <3>2, <3>3 DEF Plugged, Texts
    <3>6. reads' \in [Devices -> Seq(Devices)]
      BY <1>1, <3>1, <3>4 DEF Plugged
    <3> QED
      BY <1>1, <3>1, <3>5, <3>6 DEF Plugged
  <2> QED
    BY <1>2, <1>5, <1>15, <2>3, <2>4 DEF C!OnMessage, FieldsInv
<1>16. ASSUME NEW d \in Devices, C!OnEffectResult(d) PROVE FieldsInv'
  <2>1. reads[d] \in Seq(Devices) /\ reads[d] # <<>> /\ clip[d] \in Values \cup {0}
    BY <1>1, <1>16 DEF Plugged, C!OnEffectResult, Desk, Texts
  <2>2. Tail(reads[d]) \in Seq(Devices)
    BY <2>1
  <2>3. Plugged'
    BY <1>1, <1>16, <2>1, <2>2 DEF Plugged, Texts, C!OnEffectResult
  <2>4. Travelling'
    <3>0. Travelling /\ d \in Devices
      BY <1>1
    <3>1. /\ C!SendTo(d, {Head(reads[d])} \cap C!Peers(d), C!Message("reply", clip[d]))
          /\ UNCHANGED connected
      BY <1>16 DEF C!OnEffectResult
    <3>2. C!Message("reply", clip[d]) \in C!Messages
      BY <2>1, MessageForms
    <3>3. {Head(reads[d])} \cap C!Peers(d) \in SUBSET C!Peers(d)
      OBVIOUS
    <3> DEFINE m == C!Message("reply", clip[d])
               to == {Head(reads[d])} \cap C!Peers(d)
    <3>4. C!SendTo(d, to, m) /\ m \in C!Messages /\ to \in SUBSET C!Peers(d)
      BY <3>1, <3>2, <3>3
    <3> HIDE DEF m, to
    <3> QED
      BY <3>0, <3>1, <3>4, SendForm
  <2> QED
    BY <1>2, <1>5, <1>16, <2>3, <2>4 DEF C!OnEffectResult, FieldsInv
<1>17. ASSUME NEW d \in Devices, C!ReadFails(d) PROVE FieldsInv'
  <2>1. reads[d] \in Seq(Devices) /\ reads[d] # <<>>
    BY <1>1, <1>17 DEF Plugged, C!ReadFails
  <2>2. Tail(reads[d]) \in Seq(Devices)
    BY <2>1
  <2>3. Plugged'
    BY <1>1, <1>17, <2>2 DEF Plugged, C!ReadFails
  <2> QED
    BY <1>2, <1>4, <1>5, <1>17, <2>3 DEF C!ReadFails, FieldsInv
<1>18. ASSUME NEW pair \in C!Pairs, C!PeerConnected(pair) PROVE FieldsInv'
  <2>1. Plugged' /\ Travelling'
    BY <1>1, <1>18 DEF Plugged, Travelling, C!PeerConnected
  <2> QED
    BY <1>2, <1>5, <1>18, <2>1 DEF C!PeerConnected, FieldsInv
<1>19. ASSUME NEW pair \in C!Pairs, C!PeerDisconnected(pair) PROVE FieldsInv'
  <2>1. Plugged'
    BY <1>1, <1>19 DEF Plugged, C!PeerDisconnected
  <2>2. /\ net' = [d \in Devices |-> [e \in Devices |-> IF {d, e} = pair THEN <<>> ELSE net[d][e]]]
        /\ connected' = connected \ {pair}
    BY <1>19 DEF C!PeerDisconnected
  <2>3. Travelling'
    <3>1. net \in [Devices -> [Devices -> Seq(C!Messages)]]
      BY <1>1 DEF Travelling
    <3>2. net' \in [Devices -> [Devices -> Seq(C!Messages)]]
      BY <2>2, <3>1
    <3>3. \A x, y \in Devices : net'[x][y] = IF {x, y} = pair THEN <<>> ELSE net[x][y]
      BY <2>2
    <3>4. \A x, y \in Devices : net[x][y] # <<>> => {x, y} \in connected
      BY <1>1 DEF Travelling
    <3>5. ASSUME NEW x \in Devices, NEW y \in Devices, net'[x][y] # <<>>
          PROVE  {x, y} \in connected'
      <4>1. {x, y} # pair /\ net[x][y] # <<>>
        BY <3>3, <3>5
      <4> QED
        BY <2>2, <3>4, <4>1
    <3> QED
      BY <3>2, <3>5 DEF Travelling
  <2> QED
    BY <1>2, <1>5, <1>19, <2>1, <2>3 DEF C!PeerDisconnected, FieldsInv
<1>20. CASE UNCHANGED C!vars
  BY <1>2, <1>3, <1>4, <1>5, <1>20 DEF C!vars, C!plugin, FieldsInv
<1> QED
  BY <1>6, <1>7, <1>8, <1>9, <1>10, <1>12, <1>13, <1>14, <1>15, <1>16, <1>17, <1>18, <1>19, <1>20
     DEF C!Next, C!Settles


(* The fields are what they are declared to hold.                           *)
LEMMA FieldsGiveType ==
  ASSUME C!ClipboardAssumption
  PROVE  FieldsInv => C!TypeOK
  BY DEF FieldsInv, Desk, Plugged, Travelling, Counted, Texts, C!TypeOK

(* The fields of the plugin, the watcher and the sessions hold what they can *)
(* hold, a message comes from a device there is a session with, and only a  *)
(* watched clipboard is reported.                                          *)
THEOREM ClipboardTypes ==
  ASSUME C!ClipboardAssumption
  PROVE  C!Spec => []C!TypeOK
<1>1. C!Init => FieldsInv
  BY InitFields
<1>2. FieldsInv /\ [C!Next]_C!vars => FieldsInv'
  BY StepFields
<1>3. FieldsInv => C!TypeOK
  BY FieldsGiveType
<1> QED
  BY <1>1, <1>2, <1>3, PTL DEF C!Spec

-----------------------------------------------------------------------------
(* What one copy sets off.  While nothing overlaps, the devices are in one  *)
(* of three phases.                                                        *)

Unaddressed(e) == \A f \in Devices : net[e][f] = <<>>
Watched(e) == e \in Sends => last[e] = clip[e]
Calm(e) == writes[e] = <<>> /\ reports[e] = <<>> /\ Watched(e)

\* Exactly one text is on its way to e.
Coming(e) ==
  \E f \in Devices : /\ \A g \in Devices \ {f} : net[e][g] = <<>>
                     /\ \E v \in Values : net[e][f] = <<C!Message("set", v)>>

\* A person has copied something at d, and its core has not heard of it.
Copying(d) ==
  /\ copies >= 1 /\ sent <= (copies - 1) * Fanout
  /\ \A e \in Devices : Unaddressed(e) /\ writes[e] = <<>> /\ reads[e] = <<>>
  /\ \A e \in Devices \ {d} : Calm(e)
  /\ reports[d] = <<>> \/ (Len(reports[d]) = 1 /\ Watched(d))

\* A text on its way to e, to its clipboard, to its watcher or back to its core.
Echo(e) ==
  \/ Calm(e) /\ (Unaddressed(e) \/ Coming(e))
  \/ Unaddressed(e) /\ writes[e] = <<lastRemote[e]>> /\ reports[e] = <<>> /\ Watched(e)
  \/ Unaddressed(e) /\ writes[e] = <<>> /\ reports[e] = <<>> /\ clip[e] = lastRemote[e]
  \/ Unaddressed(e) /\ writes[e] = <<>> /\ reports[e] = <<lastRemote[e]>> /\ Watched(e)

Spreading ==
  /\ sent <= copies * Fanout
  /\ \A e \in Devices : reads[e] = <<>> /\ Echo(e)

\* Somebody asked for a text: what travels is not to be taken.
OnlyAsked(e) == Calm(e) /\ \A f \in Devices : \A i \in DOMAIN net[e][f] : net[e][f][i].is # "set"

Asking ==
  /\ sent <= copies * Fanout
  /\ \A e \in Devices : OnlyAsked(e)

Phase == (\E d \in Devices : Copying(d)) \/ Spreading \/ Asking

PhaseInv == FieldsInv /\ (~disturbed => Phase)

(* A copy adds what one more copy may send.                                 *)
LEMMA Fans ==
  ASSUME C!ClipboardAssumption,
         FieldsInv, NEW d \in Devices
  PROVE  /\ Fanout \in Nat /\ copies \in Nat /\ sent \in Nat /\ copies * Fanout \in Nat
         /\ (copies + 1) * Fanout = copies * Fanout + Fanout
         /\ copies >= 1 => /\ (copies - 1) * Fanout \in Nat
                           /\ (copies - 1) * Fanout + Fanout = copies * Fanout
<1>1. Fanout \in Nat /\ copies \in Nat /\ sent \in Nat
  BY PeersCount DEF FieldsInv, Plugged, Counted
<1>2. \A a, b \in Nat : a * b \in Nat /\ (a + 1) * b = a * b + b
  OBVIOUS
<1>3. copies >= 1 => copies - 1 \in Nat /\ (copies - 1) + 1 = copies
  BY <1>1
<1> HIDE DEF Fanout
<1>4. copies * Fanout \in Nat /\ (copies + 1) * Fanout = copies * Fanout + Fanout
  BY <1>1, <1>2
<1>5. ASSUME copies >= 1 PROVE /\ (copies - 1) * Fanout \in Nat
                               /\ (copies - 1) * Fanout + Fanout = copies * Fanout
  <2> DEFINE a == copies - 1
  <2>1. a \in Nat /\ a + 1 = copies
    BY <1>3, <1>5
  <2> HIDE DEF a
  <2>2. a * Fanout \in Nat /\ (a + 1) * Fanout = a * Fanout + Fanout
    BY <1>1, <1>2, <2>1
  <2> QED
    BY <2>1, <2>2 DEF a
<1> QED
  BY <1>1, <1>4, <1>5

(* In every phase no more was sent than the copies made may send.            *)
LEMMA PhaseBound ==
  ASSUME C!ClipboardAssumption,
         FieldsInv, Phase PROVE sent <= copies * Fanout
<1>1. CASE Spreading \/ Asking
  BY <1>1 DEF Spreading, Asking
<1>2. ASSUME NEW d \in Devices, Copying(d) PROVE sent <= copies * Fanout
  <2>1. copies >= 1 /\ sent <= (copies - 1) * Fanout
    BY <1>2 DEF Copying
  <2>2. /\ Fanout \in Nat /\ sent \in Nat /\ copies * Fanout \in Nat
        /\ (copies - 1) * Fanout \in Nat /\ (copies - 1) * Fanout + Fanout = copies * Fanout
    BY <2>1, Fans
  <2> QED
    BY <2>1, <2>2
<1> QED
  BY <1>1, <1>2 DEF Phase

(* A device to which nothing happens stays where it is.                     *)
LEMMA EchoFrame ==
  ASSUME C!ClipboardAssumption,
         NEW e \in Devices, Echo(e), net'[e] = net[e], writes'[e] = writes[e], reports'[e] = reports[e],
         last'[e] = last[e], clip'[e] = clip[e], lastRemote'[e] = lastRemote[e]
  PROVE  Echo(e)'
<1>1. Unaddressed(e)' = Unaddressed(e) /\ Coming(e)' = Coming(e)
  BY DEF Unaddressed, Coming
<1>2. Watched(e)' = Watched(e) /\ Calm(e)' = Calm(e)
  BY DEF Calm, Watched
<1> QED
  BY <1>1, <1>2 DEF Echo


(* A copy made while nothing else is under way starts a phase of its own.    *)
LEMMA CopyPhase ==
  ASSUME C!ClipboardAssumption,
         PhaseInv, NEW d \in Devices, NEW v \in Values, C!Copy(d, v), ~disturbed'
  PROVE  Phase'
<1>1. /\ C!Quiet /\ ~disturbed /\ copies' = copies + 1 /\ clip' = [clip EXCEPT ![d] = v]
      /\ UNCHANGED <<last, reports, net, writes, reads, sent>>
  BY DEF C!Copy, C!Done, C!Whole, C!plugin
<1>2. FieldsInv /\ sent <= copies * Fanout
  BY <1>1, PhaseBound DEF PhaseInv
<1>3. copies \in Nat /\ copies' >= 1 /\ copies' - 1 = copies
  BY <1>1, <1>2, Fans
<1>4. sent' <= (copies' - 1) * Fanout
  BY <1>1, <1>2, <1>3
<1>5. \A e \in Devices : Unaddressed(e)' /\ writes'[e] = <<>> /\ reads'[e] = <<>> /\ reports'[e] = <<>>
  BY <1>1 DEF C!Quiet, Unaddressed
<1>6. \A e \in Devices \ {d} : clip'[e] = clip[e]
  BY <1>1, <1>2 DEF FieldsInv, Desk, Texts
<1>7. \A e \in Devices \ {d} : Calm(e)'
  BY <1>1, <1>5, <1>6 DEF Calm, Watched, C!Quiet
<1>8. Copying(d)'
  BY <1>3, <1>4, <1>5, <1>7 DEF Copying, Fanout
<1> QED
  BY <1>8 DEF Phase

(* So does a question.                                                     *)
LEMMA GetPhase ==
  ASSUME C!ClipboardAssumption,
         PhaseInv, NEW d \in Devices, NEW e \in Devices, C!Get(d, e), ~disturbed'
  PROVE  Phase'
<1> DEFINE m == C!Message("get", 0)
           to == {e}
<1>1. /\ C!Quiet /\ ~disturbed /\ copies' = copies + 1 /\ to \in SUBSET C!Peers(d) /\ C!SendTo(d, to, m)
      /\ UNCHANGED <<connected, last, clip, reports, writes, reads, sent>>
  BY DEF C!Get, C!Done, C!Whole, C!desktop
<1>2. FieldsInv /\ Travelling /\ sent <= copies * Fanout
  BY <1>1, PhaseBound DEF PhaseInv, FieldsInv
<1>3. m \in C!Messages /\ m.is = "get"
  BY MessageForms
<1>4. sent' <= copies' * Fanout'
  <2>1. /\ Fanout \in Nat /\ sent \in Nat /\ copies * Fanout \in Nat
        /\ (copies + 1) * Fanout = copies * Fanout + Fanout
    BY <1>2, Fans
  <2>2. Fanout' = Fanout
    BY DEF Fanout
  <2> QED
    BY <1>1, <1>2, <2>1, <2>2
<1> HIDE DEF m, to
<1>5. \A x, y \in Devices : net'[x][y] = IF x \in to /\ y = d THEN Append(net[x][y], m) ELSE net[x][y]
  BY <1>1, <1>2, <1>3, SendForm
<1>6. \A x, y \in Devices : net[x][y] = <<>>
  BY <1>1 DEF C!Quiet
<1>7. \A x \in Devices : Calm(x)'
  BY <1>1 DEF C!Quiet, Calm, Watched
<1>8. ASSUME NEW x \in Devices, NEW y \in Devices, NEW i \in DOMAIN net'[x][y]
      PROVE  net'[x][y][i].is # "set"
  <2>1. Append(<<>>, m) = <<m>>
    OBVIOUS
  <2>2. net'[x][y] = <<m>> \/ net'[x][y] = <<>>
    BY <1>5, <1>6, <2>1, Zenon
  <2> QED
    BY <1>3, <1>8, <2>2
<1>9. Asking'
  BY <1>4, <1>7, <1>8 DEF Asking, OnlyAsked
<1> QED
  BY <1>9 DEF Phase

(* The watcher sees the one clipboard that has changed.                     *)
LEMMA WatchPhase ==
  ASSUME C!ClipboardAssumption,
         FieldsInv, Phase, NEW d \in Devices, C!Watch(d)
  PROVE  Phase'
<1>1. /\ d \in Sends /\ clip[d] # last[d] /\ last' = [last EXCEPT ![d] = clip[d]]
      /\ reports' = IF clip[d] = 0 THEN reports ELSE [reports EXCEPT ![d] = Append(reports[d], clip[d])]
      /\ UNCHANGED <<clip, net, writes, reads, lastRemote, copies, sent>>
  BY DEF C!Watch, C!plugin, C!count
<1>2. /\ clip \in Texts /\ last \in Texts /\ reports \in [Devices -> Seq(Values)]
  BY DEF FieldsInv, Desk
<1>3. ~Watched(d) /\ Watched(d)'
  BY <1>1, <1>2 DEF Watched, Texts
<1>4. \A e \in Devices \ {d} : reports'[e] = reports[e] /\ last'[e] = last[e]
  BY <1>1, <1>2 DEF Texts
<1>5. reports[d] = <<>> => reports'[d] = IF clip[d] = 0 THEN <<>> ELSE <<clip[d]>>
  BY <1>1, <1>2
<1>6. Fanout' = Fanout
  BY DEF Fanout
<1>7. \A e \in Devices : Unaddressed(e)' = Unaddressed(e)
  BY <1>1 DEF Unaddressed
<1>8. ASSUME NEW x \in Devices, Copying(x) PROVE Phase'
  <2>1. x = d
    BY <1>3, <1>8 DEF Copying, Calm
  <2>2. reports[d] = <<>>
    BY <1>3, <1>8, <2>1 DEF Copying
  <2>3. reports'[d] = <<>> \/ Len(reports'[d]) = 1
    BY <1>5, <2>2
  <2>4. \A e \in Devices \ {d} : Calm(e)'
    BY <1>1, <1>4, <1>8, <2>1 DEF Copying, Calm, Watched
  <2>5. Copying(d)'
    BY <1>1, <1>3, <1>6, <1>7, <1>8, <2>1, <2>3, <2>4 DEF Copying
  <2> QED
    BY <2>5 DEF Phase
<1>9. CASE Spreading
  <2>1. \A e \in Devices \ {d} : Echo(e)'
    BY <1>1, <1>4, <1>9, EchoFrame DEF Spreading
  <2>2. Unaddressed(d) /\ writes[d] = <<>> /\ reports[d] = <<>> /\ clip[d] = lastRemote[d]
    BY <1>3, <1>9 DEF Spreading, Echo, Calm
  <2>3. Echo(d)'
    BY <1>1, <1>3, <1>5, <1>7, <2>2 DEF Echo, Calm
  <2>4. Spreading'
    BY <1>1, <1>6, <1>9, <2>1, <2>3 DEF Spreading
  <2> QED
    BY <2>4 DEF Phase
<1>10. ~Asking
  BY <1>3 DEF Asking, OnlyAsked, Calm
<1> QED
  BY <1>8, <1>9, <1>10 DEF Phase

(* A write that came from a peer reaches the clipboard.                     *)
LEMMA WritePhase ==
  ASSUME C!ClipboardAssumption,
         FieldsInv, Phase, NEW d \in Devices, NEW i \in DOMAIN writes[d], C!Write(d, i)
  PROVE  Phase'
<1>1. /\ writes' = [writes EXCEPT ![d] = C!RemoveAt(writes[d], i)]
      /\ clip' = [clip EXCEPT ![d] = writes[d][i]]
      /\ UNCHANGED <<last, reports, net, reads, lastRemote, copies, sent>>
  BY DEF C!Write, C!count
<1>2. clip \in Texts /\ writes \in [Devices -> Seq(Values)] /\ writes[d] # <<>>
  BY DEF FieldsInv, Desk, Plugged
<1>3. Spreading
  BY <1>2 DEF Phase, Copying, Asking, OnlyAsked, Calm
<1>4. Unaddressed(d) /\ writes[d] = <<lastRemote[d]>> /\ reports[d] = <<>>
  BY <1>2, <1>3 DEF Spreading, Echo, Calm
<1>5. i = 1 /\ writes[d][i] = lastRemote[d]
  BY <1>4
<1>6. C!RemoveAt(writes[d], i) = <<>>
  <2>1. C!RemoveAt(writes[d], i) \in Seq(Values) /\ Len(C!RemoveAt(writes[d], i)) = Len(writes[d]) - 1
    BY <1>2, RemoveType
  <2>2. Len(writes[d]) = 1
    BY <1>4
  <2> HIDE DEF C!RemoveAt
  <2> QED
    BY <2>1, <2>2
<1>7. /\ clip'[d] = lastRemote[d] /\ writes'[d] = <<>>
      /\ \A e \in Devices \ {d} : clip'[e] = clip[e] /\ writes'[e] = writes[e]
  BY <1>1, <1>2, <1>5, <1>6 DEF Texts
<1>8. Echo(d)'
  BY <1>1, <1>4, <1>7 DEF Echo, Unaddressed
<1>9. \A e \in Devices \ {d} : Echo(e)'
  BY <1>1, <1>3, <1>7, EchoFrame DEF Spreading
<1>10. Spreading'
  BY <1>1, <1>3, <1>8, <1>9 DEF Spreading, Fanout
<1> QED
  BY <1>10 DEF Phase


(* The core hears what the watcher saw: it sends the text a person copied to *)
(* every peer, and drops the text a peer has put there.                      *)
LEMMA ChangedPhase ==
  ASSUME C!ClipboardAssumption,
         FieldsInv, Phase, ~disturbed, NEW d \in Devices, C!Changed(d)
  PROVE  Phase'
<1> DEFINE v == Head(reports[d])
<1>1. /\ reports[d] # <<>> /\ reports' = [reports EXCEPT ![d] = Tail(reports[d])] /\ C!Offer(d, v)
      /\ UNCHANGED <<clip, last, connected, writes, reads, copies>>
  BY DEF C!Changed
<1>2. reports \in [Devices -> Seq(Values)] /\ reports[d] \in Seq(Values) /\ v \in Values
  BY <1>1 DEF FieldsInv, Desk
<1>3. Fanout' = Fanout
  BY DEF Fanout
<1>4. \A e \in Devices \ {d} : reports'[e] = reports[e]
  BY <1>1, <1>2
<1>5. Len(reports[d]) = 1 => reports'[d] = <<>>
  BY <1>1, <1>2
<1>6. lastRemote \in Texts
  BY DEF FieldsInv, Plugged
<1>7. \/ C!TakeEcho(d, v) /\ UNCHANGED <<net, sent>>
      \/ /\ ~C!TakeEcho(d, v) /\ sent' <= sent + Fanout
         /\ \A x, y \in Devices :
              net'[x][y] = IF x \in C!Peers(d) /\ y = d THEN Append(net[x][y], C!Message("set", v))
                           ELSE net[x][y]
  <2> HIDE DEF v
  <2> QED
    BY <1>1, <1>2, OfferForm
<1>8. ASSUME NEW x \in Devices, Copying(x) PROVE Phase'
  <2>1. x = d
    BY <1>1, <1>8 DEF Copying, Calm
  <2>2. /\ Len(reports[d]) = 1 /\ Watched(d) /\ copies >= 1 /\ sent <= (copies - 1) * Fanout
        /\ \A e \in Devices : Unaddressed(e) /\ writes[e] = <<>> /\ reads[e] = <<>>
        /\ \A e \in Devices \ {d} : Calm(e)
    BY <1>1, <1>8, <2>1 DEF Copying
  <2>3. \A e \in Devices : Calm(e)' /\ reads'[e] = <<>>
    BY <1>1, <1>4, <1>5, <2>2 DEF Calm, Watched
  <2>4. /\ Fanout \in Nat /\ sent \in Nat /\ copies * Fanout \in Nat /\ copies \in Nat
        /\ (copies - 1) * Fanout \in Nat /\ (copies - 1) * Fanout + Fanout = copies * Fanout
    BY <2>2, Fans
  <2>5. sent' \in Nat
    <3> HIDE DEF v
    <3> QED
      BY <1>1, <1>2, OfferForm
  <2>6. sent' <= copies' * Fanout'
    <3> DEFINE a == (copies - 1) * Fanout
               b == copies * Fanout
    <3>1. sent <= a /\ a \in Nat /\ b \in Nat /\ a + Fanout = b
      BY <2>2, <2>4
    <3>2. sent' <= sent + Fanout
      BY <1>7, <2>4
    <3> HIDE DEF a, b
    <3>3. sent' <= b
      BY <2>4, <2>5, <3>1, <3>2
    <3> QED
      BY <1>1, <1>3, <3>3 DEF b
  <2>7. ASSUME NEW e \in Devices PROVE Unaddressed(e)' \/ Coming(e)'
    <3>1. CASE C!TakeEcho(d, v) /\ UNCHANGED <<net, sent>>
      BY <2>2, <3>1 DEF Unaddressed
    <3> DEFINE m == C!Message("set", v)
    <3>2. CASE \A p, q \in Devices :
                 net'[p][q] = IF p \in C!Peers(d) /\ q = d THEN Append(net[p][q], m) ELSE net[p][q]
      <4>1. \A q \in Devices : net[e][q] = <<>>
        BY <2>2 DEF Unaddressed
      <4>2. Append(<<>>, m) = <<m>>
        OBVIOUS
      <4>3. \A q \in Devices \ {d} : net'[e][q] = <<>>
        BY <3>2, <4>1
      <4>4. net'[e][d] = <<m>> \/ net'[e][d] = <<>>
        <5> HIDE DEF m
        <5> QED
          BY <3>2, <4>1, <4>2, Zenon
      <4> QED
        BY <1>2, <4>3, <4>4 DEF Unaddressed, Coming
    <3> QED
      BY <1>7, <3>1, <3>2
  <2>8. \A e \in Devices : Echo(e)'
    BY <2>3, <2>7 DEF Echo
  <2>9. Spreading'
    BY <2>3, <2>6, <2>8 DEF Spreading
  <2> QED
    BY <2>9 DEF Phase
<1>9. CASE Spreading
  <2>1. Unaddressed(d) /\ writes[d] = <<>> /\ reports[d] = <<lastRemote[d]>> /\ Watched(d)
    BY <1>1, <1>9 DEF Spreading, Echo, Calm
  <2>2. v = lastRemote[d] /\ Len(reports[d]) = 1
    BY <2>1
  <2>3. C!TakeEcho(d, v)
    BY <2>2 DEF C!TakeEcho
  <2>4. UNCHANGED <<net, sent>> /\ \A e \in Devices \ {d} : lastRemote'[e] = lastRemote[e]
    BY <1>1, <1>6, <2>3 DEF C!Offer, Texts
  <2>5. Echo(d)'
    BY <1>1, <1>5, <2>1, <2>2, <2>4 DEF Echo, Calm, Watched, Unaddressed
  <2>6. \A e \in Devices \ {d} : Echo(e)'
    BY <1>1, <1>4, <1>9, <2>4, EchoFrame DEF Spreading
  <2>7. Spreading'
    BY <1>1, <1>3, <1>9, <2>4, <2>5, <2>6 DEF Spreading
  <2> QED
    BY <2>7 DEF Phase
<1>10. ~Asking
  BY <1>1 DEF Asking, OnlyAsked, Calm
<1> QED
  BY <1>8, <1>9, <1>10 DEF Phase

(* A message arrives: a text is taken once, and an answer is only shown.     *)
LEMMA OnMessagePhase ==
  ASSUME C!ClipboardAssumption,
         FieldsInv, Phase, NEW d \in Devices, NEW e \in Devices, C!OnMessage(d, e)
  PROVE  Phase'
<1> DEFINE m == Head(net[d][e])
<1>1. /\ net[d][e] # <<>> /\ net' = [net EXCEPT ![d][e] = Tail(net[d][e])]
      /\ IF m.is = "set" /\ d \in Receives
         THEN /\ lastRemote' = [lastRemote EXCEPT ![d] = m.value]
              /\ writes' = [writes EXCEPT ![d] = Append(writes[d], m.value)]
         ELSE UNCHANGED <<lastRemote, writes>>
      /\ reads' = IF m.is = "get" THEN [reads EXCEPT ![d] = Append(reads[d], e)] ELSE reads
      /\ UNCHANGED <<clip, last, reports, copies, sent>>
  BY DEF C!OnMessage, C!Accepts, C!desktop, C!count
<1>2. /\ net \in [Devices -> [Devices -> Seq(C!Messages)]] /\ net[d][e] \in Seq(C!Messages)
      /\ lastRemote \in Texts /\ writes \in [Devices -> Seq(Values)]
  BY DEF FieldsInv, Travelling, Plugged
<1>3. Fanout' = Fanout
  BY DEF Fanout
<1>4. /\ \A x \in Devices \ {d} : net'[x] = net[x]
      /\ \A y \in Devices \ {e} : net'[d][y] = net[d][y]
      /\ net'[d][e] = Tail(net[d][e])
  BY <1>1, <1>2
<1>5. ~\E x \in Devices : Copying(x)
  BY <1>1 DEF Copying, Unaddressed
<1>6. CASE Spreading
  <2>1. Calm(d) /\ Coming(d)
    BY <1>1, <1>6 DEF Spreading, Echo, Unaddressed
  <2>2. PICK f \in Devices : /\ \A g \in Devices \ {f} : net[d][g] = <<>>
                             /\ \E v \in Values : net[d][f] = <<C!Message("set", v)>>
    BY <2>1 DEF Coming
  <2>3. f = e
    BY <1>1, <2>2
  <2>4. PICK v \in Values : net[d][e] = <<C!Message("set", v)>>
    BY <2>2, <2>3
  <2>5. m = C!Message("set", v) /\ Tail(net[d][e]) = <<>>
    BY <2>4
  <2>6. m.is = "set" /\ m.value = v
    BY <2>5, MessageForms
  <2> HIDE DEF m
  <2>7. Unaddressed(d)'
    BY <1>4, <2>2, <2>3, <2>5 DEF Unaddressed
  <2>8. UNCHANGED reads
    BY <1>1, <2>6
  <2>9. CASE d \in Receives
    <3>1. writes[d] = <<>> /\ Append(<<>>, v) = <<v>>
      BY <2>1 DEF Calm
    <3>2. lastRemote' = [lastRemote EXCEPT ![d] = v] /\ writes' = [writes EXCEPT ![d] = Append(writes[d], v)]
      BY <1>1, <2>6, <2>9
    <3>3. lastRemote'[d] = v /\ writes'[d] = <<v>>
      BY <1>2, <3>1, <3>2 DEF Texts
    <3>4. \A x \in Devices \ {d} : lastRemote'[x] = lastRemote[x] /\ writes'[x] = writes[x]
      BY <1>2, <3>2 DEF Texts
    <3>5. Echo(d)'
      BY <1>1, <2>1, <2>7, <3>3 DEF Echo, Calm, Watched
    <3>6. \A x \in Devices \ {d} : Echo(x)'
      BY <1>1, <1>4, <1>6, <3>4, EchoFrame DEF Spreading
    <3> QED
      BY <1>1, <1>3, <1>6, <2>8, <3>5, <3>6 DEF Spreading, Phase
  <2>10. CASE d \notin Receives
    <3>1. UNCHANGED <<lastRemote, writes>>
      BY <1>1, <2>10
    <3>2. Echo(d)'
      BY <1>1, <2>1, <2>7, <3>1 DEF Echo, Calm, Watched
    <3>3. \A x \in Devices \ {d} : Echo(x)'
      BY <1>1, <1>4, <1>6, <3>1, EchoFrame DEF Spreading
    <3> QED
      BY <1>1, <1>3, <1>6, <2>8, <3>2, <3>3 DEF Spreading, Phase
  <2> QED
    BY <2>9, <2>10
<1>7. CASE Asking
  <2>1. 1 \in DOMAIN net[d][e] /\ m = net[d][e][1]
    BY <1>1, <1>2
  <2>2. m.is # "set"
    BY <1>7, <2>1 DEF Asking, OnlyAsked
  <2> HIDE DEF m
  <2>3. UNCHANGED <<lastRemote, writes>>
    BY <1>1, <2>2
  <2>4. \A x \in Devices : Calm(x)'
    BY <1>1, <1>7, <2>3 DEF Asking, OnlyAsked, Calm, Watched
  <2>5. ASSUME NEW x \in Devices, NEW y \in Devices, NEW i \in DOMAIN net'[x][y]
        PROVE  net'[x][y][i].is # "set"
    <3>1. \A j \in DOMAIN net[x][y] : net[x][y][j].is # "set"
      BY <1>7 DEF Asking, OnlyAsked
    <3>2. CASE x = d /\ y = e
      <4> DEFINE q == net[d][e]
      <4>1. net'[x][y] = Tail(q) /\ q \in Seq(C!Messages) /\ q # <<>>
        BY <1>1, <1>2, <1>4, <3>2
      <4> HIDE DEF q
      <4>2. i + 1 \in DOMAIN q /\ Tail(q)[i] = q[i + 1]
        BY <2>5, <4>1
      <4> QED
        BY <3>1, <3>2, <4>1, <4>2 DEF q
    <3>3. CASE ~(x = d /\ y = e)
      <4>1. net'[x][y] = net[x][y]
        BY <1>4, <3>3
      <4> QED
        BY <2>5, <3>1, <4>1
    <3> QED
      BY <3>2, <3>3
  <2>6. Asking'
    BY <1>1, <1>3, <1>7, <2>4, <2>5 DEF Asking, OnlyAsked
  <2> QED
    BY <2>6 DEF Phase
<1> QED
  BY <1>5, <1>6, <1>7 DEF Phase


(* A read is back: the answer is not a text to be taken.                    *)
LEMMA OnEffectResultPhase ==
  ASSUME C!ClipboardAssumption,
         FieldsInv, Phase, NEW d \in Devices, C!OnEffectResult(d)
  PROVE  Phase'
<1> DEFINE m == C!Message("reply", clip[d])
           to == {Head(reads[d])} \cap C!Peers(d)
<1>1. /\ reads[d] # <<>> /\ C!SendTo(d, to, m) /\ to \in SUBSET C!Peers(d)
      /\ UNCHANGED <<clip, last, reports, connected, lastRemote, writes, copies, sent>>
  BY DEF C!OnEffectResult, C!desktop, C!count
<1>2. m \in C!Messages /\ m.is = "reply"
  <2>1. clip[d] \in Values \cup {0}
    BY DEF FieldsInv, Desk, Texts
  <2> QED
    BY <2>1, MessageForms
<1>3. Asking
  BY <1>1 DEF Phase, Copying, Spreading
<1>4. Travelling
  BY DEF FieldsInv
<1> HIDE DEF m, to
<1>5. \A x, y \in Devices : net'[x][y] = IF x \in to /\ y = d THEN Append(net[x][y], m) ELSE net[x][y]
  <2>1. UNCHANGED connected /\ C!SendTo(d, to, m) /\ to \in SUBSET C!Peers(d)
    BY <1>1
  <2> QED
    BY <1>2, <1>4, <2>1, SendForm
<1>6. \A x \in Devices : Calm(x)'
  BY <1>1, <1>3 DEF Asking, OnlyAsked, Calm, Watched
<1>7. ASSUME NEW x \in Devices, NEW y \in Devices, NEW i \in DOMAIN net'[x][y]
      PROVE  net'[x][y][i].is # "set"
  <2> DEFINE q == net[x][y]
  <2>1. q \in Seq(C!Messages) /\ \A j \in DOMAIN q : q[j].is # "set"
    BY <1>3, <1>4 DEF Asking, OnlyAsked, Travelling
  <2>2. net'[x][y] = Append(q, m) \/ net'[x][y] = q
    BY <1>5, Zenon
  <2> HIDE DEF q
  <2>3. CASE net'[x][y] = q
    BY <1>7, <2>1, <2>3
  <2>4. CASE net'[x][y] = Append(q, m)
    <3>1. i \in DOMAIN Append(q, m)
      BY <1>7, <2>4
    <3>2. Append(q, m)[i] = m \/ (i \in DOMAIN q /\ Append(q, m)[i] = q[i])
      BY <2>1, <3>1
    <3> QED
      BY <1>2, <2>1, <2>4, <3>2
  <2> QED
    BY <2>2, <2>3, <2>4
<1>8. Asking'
  BY <1>1, <1>3, <1>6, <1>7 DEF Asking, OnlyAsked, Fanout
<1> QED
  BY <1>8 DEF Phase

(* A step that leaves all that travels alone leaves the phase alone.         *)
LEMMA PhaseFrame ==
  ASSUME C!ClipboardAssumption,
         Phase, UNCHANGED <<C!desktop, net, lastRemote, writes, reads, copies, sent>>
  PROVE  Phase'
<1>1. UNCHANGED <<clip, last, reports, net, lastRemote, writes, reads, copies, sent>> /\ Fanout' = Fanout
  BY DEF C!desktop, Fanout
<1>2. \A e \in Devices : /\ Unaddressed(e)' = Unaddressed(e) /\ Calm(e)' = Calm(e)
                         /\ Watched(e)' = Watched(e) /\ Coming(e)' = Coming(e)
  BY <1>1 DEF Unaddressed, Calm, Watched, Coming
<1>3. ASSUME NEW d \in Devices, Copying(d) PROVE Copying(d)'
  BY <1>1, <1>2, <1>3 DEF Copying
<1>4. Spreading => Spreading'
  BY <1>1, <1>2 DEF Spreading, Echo
<1>5. Asking => Asking'
  BY <1>1, <1>2 DEF Asking, OnlyAsked
<1> QED
  BY <1>3, <1>4, <1>5 DEF Phase

(* Nothing has happened yet: that is a phase too.                           *)
LEMMA InitPhase ==
  ASSUME C!ClipboardAssumption
  PROVE  C!Init => PhaseInv
<1> SUFFICES ASSUME C!Init PROVE PhaseInv
  OBVIOUS
<1>1. FieldsInv
  BY InitFields
<1>2. /\ copies = 0 /\ sent = 0
      /\ \A e \in Devices : /\ writes[e] = <<>> /\ reports[e] = <<>> /\ last[e] = clip[e]
                            /\ \A f \in Devices : net[e][f] = <<>>
  BY DEF C!Init
<1>3. CASE Devices = {}
  <2>1. Fanout = -1
    BY <1>3, FS_EmptySet DEF Fanout
  <2> QED
    BY <1>1, <1>2, <1>3, <2>1 DEF PhaseInv, Phase, Asking
<1>4. CASE Devices # {}
  <2>1. PICK d \in Devices : TRUE
    BY <1>4
  <2>2. sent <= copies * Fanout
    <3>1. Fanout \in Nat
      BY <1>1, Fans
    <3> QED
      BY <1>2, <3>1
  <2>3. \A e \in Devices : OnlyAsked(e)
    BY <1>2 DEF OnlyAsked, Calm, Watched
  <2> QED
    BY <1>1, <2>2, <2>3 DEF PhaseInv, Phase, Asking
<1> QED
  BY <1>3, <1>4

(* Every step keeps the phases.                                            *)
LEMMA StepPhase ==
  ASSUME C!ClipboardAssumption
  PROVE  PhaseInv /\ [C!Next]_C!vars => PhaseInv'
<1> SUFFICES ASSUME PhaseInv, [C!Next]_C!vars PROVE PhaseInv'
  OBVIOUS
<1>1. FieldsInv /\ FieldsInv' /\ (~disturbed => Phase)
  BY StepFields DEF PhaseInv
<1> SUFFICES ASSUME ~disturbed' PROVE Phase'
  BY <1>1 DEF PhaseInv
<1>2. ASSUME NEW d \in Devices, C!Clear(d) \/ C!WriteFails(d) \/ C!ReadFails(d) PROVE FALSE
  BY <1>2 DEF C!Clear, C!WriteFails, C!ReadFails, C!Undone, C!Fault
<1>3. ASSUME NEW d \in Devices, NEW v \in Values, C!Push(d, v) PROVE FALSE
  BY <1>3 DEF C!Push, C!Undone
<1>4. ASSUME NEW pair \in C!Pairs, C!PeerDisconnected(pair) PROVE FALSE
  BY <1>4 DEF C!PeerDisconnected, C!Fault
<1>5. ASSUME NEW d \in Devices, C!Watch(d) PROVE Phase'
  BY <1>1, <1>5, WatchPhase DEF C!Watch, C!count
<1>6. ASSUME NEW d \in Devices, C!Changed(d) PROVE Phase'
  BY <1>1, <1>6, ChangedPhase DEF C!Changed
<1>7. ASSUME NEW d \in Devices, C!OnEffectResult(d) PROVE Phase'
  BY <1>1, <1>7, OnEffectResultPhase DEF C!OnEffectResult, C!count
<1>8. ASSUME NEW d \in Devices, NEW e \in Devices, C!OnMessage(d, e) PROVE Phase'
  BY <1>1, <1>8, OnMessagePhase DEF C!OnMessage, C!count
<1>9. ASSUME NEW d \in Devices, NEW i \in DOMAIN writes[d], C!Write(d, i) PROVE Phase'
  BY <1>1, <1>9, WritePhase DEF C!Write, C!count
<1>10. ASSUME NEW d \in Devices, NEW v \in Values, C!Copy(d, v) PROVE Phase'
  BY <1>10, CopyPhase
<1>11. ASSUME NEW d \in Devices, NEW e \in Devices, C!Get(d, e) PROVE Phase'
  BY <1>11, GetPhase
<1>12. ASSUME NEW pair \in C!Pairs, C!PeerConnected(pair) PROVE Phase'
  BY <1>1, <1>12, PhaseFrame DEF C!PeerConnected, C!count
<1>13. CASE UNCHANGED C!vars
  BY <1>1, <1>13, PhaseFrame DEF C!vars, C!plugin, C!count
<1> QED
  BY <1>2, <1>3, <1>4, <1>5, <1>6, <1>7, <1>8, <1>9, <1>10, <1>11, <1>12, <1>13 DEF C!Next, C!Settles

(* The phases bound what is sent.                                           *)
LEMMA PhaseGivesSentOnce ==
  ASSUME C!ClipboardAssumption
  PROVE  PhaseInv => C!SentOnce
  BY PhaseBound, SameLibrary DEF PhaseInv, C!SentOnce, Fanout

(* Copies that overlap with nothing travel once: what a peer has put on a    *)
(* clipboard is dropped by take_echo and does not go back, whatever the      *)
(* number of devices and in whatever order sessions deliver.                *)
THEOREM CopiesTravelOnce ==
  ASSUME C!ClipboardAssumption
  PROVE  C!Spec => []C!SentOnce
<1>1. C!Init => PhaseInv
  BY InitPhase
<1>2. PhaseInv /\ [C!Next]_C!vars => PhaseInv'
  BY StepPhase
<1>3. PhaseInv => C!SentOnce
  BY PhaseGivesSentOnce
<1> QED
  BY <1>1, <1>2, <1>3, PTL DEF C!Spec

-----------------------------------------------------------------------------
(* Locking. *)

USE LockingAssumption

-----------------------------------------------------------------------------
(* The ranking. *)

(* A set of naturals that is not empty has a least element, and Min is it.  *)
LEMMA MinIsLeast ==
  ASSUME NEW T, T \subseteq Nat, T # {}
  PROVE  Min(T) \in T /\ \A y \in T : Min(T) <= y
<1>1. PICK x \in T : \A y \in T : ~(<<y, x>> \in OpToRel(<, Nat))
  BY NatLessThanWellFounded, WFMin
<1>2. \A y \in T : x <= y
  <2> SUFFICES ASSUME NEW y \in T, y < x PROVE FALSE
    OBVIOUS
  <2>1. <<y, x>> \in {ss \in Nat \X Nat : ss[1] < ss[2]}
    OBVIOUS
  <2> QED
    BY <1>1, <2>1 DEF OpToRel
<1> QED
  BY <1>2 DEF Min

(* With candidates split in two, the session ranked first is a candidate,   *)
(* and one of the first part unless that is empty: min_by_key of            *)
(* rank_for_lock and rank_for_unlock.                                      *)
LEMMA LeastIsRanked ==
  ASSUME NEW s, NEW first, first \subseteq Candidates(s), Candidates(s) # {}
  PROVE  /\ Least(Groups(s, first)) \in Candidates(s)
         /\ first # {} => Least(Groups(s, first)) \in first
<1> DEFINE g == Groups(s, first)
           ks == {k \in DOMAIN g : g[k] # {}}
           k == Min(ks)
<1>1. /\ DOMAIN g = 1 .. 4
      /\ g[1] \subseteq first /\ g[2] \subseteq first /\ g[1] \cup g[2] = first
      /\ \A j \in 1 .. 4 : g[j] \subseteq Candidates(s)
      /\ g[1] \cup g[2] \cup g[3] \cup g[4] = Candidates(s)
  BY DEF Groups
<1>2. ks # {} /\ ks \subseteq Nat
  BY <1>1
<1>3. k \in ks /\ \A j \in ks : k <= j
  BY <1>2, MinIsLeast
<1>4. g[k] # {} /\ g[k] \subseteq Candidates(s) /\ k \in 1 .. 4
  BY <1>1, <1>3
<1>5. Min(g[k]) \in g[k]
  BY <1>4, MinIsLeast DEF Candidates
<1>6. first # {} => k \in {1, 2}
  <2> SUFFICES ASSUME first # {} PROVE k \in {1, 2}
    OBVIOUS
  <2>1. 1 \in ks \/ 2 \in ks
    BY <1>1
  <2> HIDE DEF k, ks
  <2>2. k \in 1 .. 4 /\ k <= 2
    BY <1>3, <1>4, <2>1
  <2> QED
    BY <2>2
<1>7. Least(g) = Min(g[k])
  BY DEF Least
<1> QED
  BY <1>1, <1>4, <1>5, <1>6, <1>7

(* What is acted on is a session of the machine; when it is to be locked and *)
(* is locked already, no session of the machine is unlocked.                *)
LEMMA TargetIsRight ==
  ASSUME NEW r, Candidates(host[Now]) # {}
  PROVE  /\ Target(r) \in Candidates(host[Now])
         /\ (request[r].verb = "lock" /\ Locked(Target(r), host[Now])) =>
              \A i \in Candidates(host[Now]) : Locked(i, host[Now])
<1> DEFINE s == host[Now]
           locked == {i \in Candidates(s) : Locked(i, s)}
           free == {i \in Candidates(s) : ~Locked(i, s)}
<1>1. RankForUnlock(s) \in Candidates(s)
  BY LeastIsRanked, locked \subseteq Candidates(s) DEF RankForUnlock
<1>2. RankForLock(s) \in Candidates(s) /\ (free # {} => RankForLock(s) \in free)
  BY LeastIsRanked, free \subseteq Candidates(s) DEF RankForLock
<1> QED
  BY <1>1, <1>2 DEF Target

-----------------------------------------------------------------------------
(* Why the properties hold.  None is inductive: an answer under way must    *)
(* already be of a reading that was taken, and a task that waits for a lock *)
(* must have begun with a session that was not locked.                     *)

Machine == [Sessions -> Session \cup {Gone}]

\* A request says that the session became what was wanted.
Worked(q) == q.locked = (q.verb = "lock")

\* What a finished lock or unlock says is true of machine h.
True(h, q) ==
  /\ q.reread = "failed" => ~Worked(q)
  /\ q.reading \in 1 .. Len(h) /\ q.at <= q.reading
  /\ h[q.reading][q.session] # Gone
  /\ q.locked = Locked(q.session, h[q.reading])
  /\ (q.verb = "lock" /\ q.was) =>
       \A i \in Candidates(h[q.reading]) : Locked(i, h[q.reading])

\* The same of a request while its effect is at e.
Holds(h, q, e) ==
  /\ q.at <= Len(h)
  /\ e = "answer" => q.reading \in 1 .. Len(h)
  /\ (q.verb # "query" /\ e \in {"confirm", "answer"}) => True(h, q)
  /\ e = "confirm" => /\ q.verb # "query" /\ ~(q.verb = "lock" /\ q.was)
                      /\ q.session \in Sessions
                      /\ q.reread = "not" => ~Worked(q)
  /\ q.is = "result" => e = "over" /\ True(h, q)

Reads == \A r \in DOMAIN request : Holds(host, request[r], effect[r])

LockingInv == TypeOK /\ InStep /\ Reads

(* What is true of a reading stays true as the machine goes on.             *)
LEMMA StaysTrue ==
  ASSUME NEW h \in Seq(Machine), NEW s \in Machine, NEW q, NEW e
  PROVE  /\ True(h, q) => True(Append(h, s), q)
         /\ (q \in Request /\ Holds(h, q, e)) => Holds(Append(h, s), q, e)
<1> DEFINE g == Append(h, s)
<1>1. g \in Seq(Machine) /\ Len(h) \in Nat /\ Len(g) = Len(h) + 1
      /\ \A n \in 1 .. Len(h) : g[n] = h[n]
  OBVIOUS
<1> HIDE DEF g
<1>2. True(h, q) => True(g, q)
  BY <1>1 DEF True
<1>3. (q \in Request /\ Holds(h, q, e)) => Holds(g, q, e)
  BY <1>1, <1>2 DEF Holds, Request, Readings
<1> QED
  BY <1>2, <1>3 DEF g

(* The machine changes: a locker grants a wish, or a person acts at it.     *)
LEMMA MachineStep ==
  ASSUME TypeOK, NEW i \in Sessions,
         HostChange(i) \/ \E want \in BOOLEAN : Grant(i, want)
  PROVE  /\ wishes' \subseteq Sessions \X BOOLEAN
         /\ UNCHANGED <<connected, last, shown, effect, polls, request>>
         /\ host' = host \/ \E s \in Machine : Now <= MaxChanges /\ host' = Append(host, s)
<1> DEFINE m == host[Now]
<1>1. m \in Machine /\ Now \in Nat
  BY DEF TypeOK, Now, Machine
<1>2. ASSUME m[i] # Gone, NEW want \in BOOLEAN PROVE Covers(i, want) \subseteq Machine
  <2>1. m[i] \in Session
    BY <1>1, <1>2 DEF Machine
  <2>2. \A h, c \in BOOLEAN : [m EXCEPT ![i].hint = h, ![i].covered = c] \in Machine
    BY <1>1, <2>1 DEF Machine, Session
  <2>3. m[i].hint \in BOOLEAN /\ m[i].covered \in BOOLEAN
    BY <2>1 DEF Session
  <2> QED
    BY <1>2, <2>2, <2>3 DEF Covers
<1>3. ASSUME HostChange(i)
      PROVE  host' = host \/ \E s \in Machine : Now <= MaxChanges /\ host' = Append(host, s)
  <2>1. m[i] # Gone
    BY <1>3 DEF HostChange
  <2>2. [j \in Sessions |-> IF m[j] = Gone THEN Gone ELSE [m[j] EXCEPT !.active = j = i]]
          \in Machine
    <3>1. ASSUME NEW j \in Sessions, m[j] # Gone
          PROVE  [m[j] EXCEPT !.active = j = i] \in Session
      <4>1. m[j] \in Session
        BY <1>1, <3>1 DEF Machine
      <4>2. (j = i) \in BOOLEAN
        OBVIOUS
      <4> QED
        BY <4>1, <4>2 DEF Session
    <3> QED
      BY <3>1 DEF Machine
  <2>3. [m EXCEPT ![i] = Gone] \in Machine
    BY <1>1 DEF Machine
  <2> QED
    BY <1>2, <1>3, <2>1, <2>2, <2>3 DEF HostChange, Becomes
<1>4. ASSUME NEW want \in BOOLEAN, Grant(i, want)
      PROVE  host' = host \/ \E s \in Machine : Now <= MaxChanges /\ host' = Append(host, s)
  BY <1>2, <1>4 DEF Grant, Becomes
<1> QED
  BY <1>3, <1>4 DEF HostChange, Grant, TypeOK, plugin

(* The initial state satisfies the invariant.                              *)
LEMMA InitLocking == Init => LockingInv
<1> SUFFICES ASSUME Init PROVE LockingInv
  OBVIOUS
<1>1. PICK front \in Sessions :
        host = <<[i \in Sessions |-> [hint |-> FALSE, covered |-> FALSE, active |-> i = front]]>>
  BY DEF Init
<1>2. host \in Seq(Machine) /\ Len(host) = 1
  <2>1. \A i \in Sessions : [hint |-> FALSE, covered |-> FALSE, active |-> i = front] \in Session
    BY DEF Session
  <2>2. [i \in Sessions |-> [hint |-> FALSE, covered |-> FALSE, active |-> i = front]] \in Machine
    BY <2>1 DEF Machine
  <2> QED
    BY <1>1, <2>2
<1>3. TypeOK
  BY <1>2 DEF Init, TypeOK, Now, Machine, Requests, Task
<1>4. InStep /\ Reads
  BY DEF Init, InStep, Reads
<1> QED
  BY <1>3, <1>4 DEF LockingInv

(* A change of the machine disturbs no reading taken before.                *)
LEMMA MachineKeeps ==
  ASSUME LockingInv, NEW i \in Sessions,
         HostChange(i) \/ \E want \in BOOLEAN : Grant(i, want)
  PROVE  LockingInv'
<1> USE DEF LockingInv
<1>1. /\ wishes' \subseteq Sessions \X BOOLEAN
      /\ UNCHANGED <<connected, last, shown, effect, polls, request>>
      /\ host' = host \/ \E s \in Machine : Now <= MaxChanges /\ host' = Append(host, s)
  BY MachineStep
<1>2. host \in Seq(Machine)
  BY DEF TypeOK, Machine
<1>3. CASE host' = host
  BY <1>1, <1>3 DEF TypeOK, InStep, Reads, Now
<1>4. CASE \E s \in Machine : Now <= MaxChanges /\ host' = Append(host, s)
  <2>1. PICK s \in Machine : Now <= MaxChanges /\ host' = Append(host, s)
    BY <1>4
  <2>2. /\ host' \in Seq(Machine) /\ Len(host') = Len(host) + 1 /\ Len(host) \in Nat
        /\ \A n \in 1 .. Len(host) : host'[n] = host[n]
    BY <1>2, <2>1
  <2>3. TypeOK'
    BY <1>1, <2>1, <2>2 DEF TypeOK, Now, Machine
  <2>4. InStep'
    <3> SUFFICES ASSUME NEW p \in connected, last # 0
                 PROVE  shown[p] # 0 /\ Shows(host'[shown[p]]) = Shows(host'[last])
      BY <1>1 DEF InStep
    <3>1. shown[p] # 0 /\ Shows(host[shown[p]]) = Shows(host[last])
      BY DEF InStep
    <3>2. shown[p] \in 1 .. Len(host) /\ last \in 1 .. Len(host)
      BY <2>2, <3>1 DEF TypeOK, Now
    <3> QED
      BY <2>2, <3>1, <3>2
  <2>5. Reads'
    <3> SUFFICES ASSUME NEW r \in DOMAIN request PROVE Holds(host', request[r], effect[r])
      BY <1>1 DEF Reads
    <3>1. request[r] \in Request /\ Holds(host, request[r], effect[r])
      BY DEF TypeOK, Reads
    <3> QED
      BY <1>2, <2>1, <3>1, StaysTrue
  <2> QED
    BY <2>3, <2>4, <2>5
<1> QED
  BY <1>1, <1>3, <1>4

(* The plugin: connections, readings nobody asked for.                      *)
LEMMA PluginKeeps ==
  ASSUME LockingInv,
         \/ \E p \in Peers : PeerConnected(p) \/ PeerDisconnected(p)
         \/ \E k \in 1 .. MaxPolls : Poll(k)
  PROVE  LockingInv'
<1> USE DEF LockingInv
<1>1. ASSUME NEW p \in Peers, PeerConnected(p) PROVE LockingInv'
  BY <1>1 DEF PeerConnected, TypeOK, InStep, Reads, Now
<1>2. ASSUME NEW p \in Peers, PeerDisconnected(p) PROVE LockingInv'
  BY <1>2 DEF PeerDisconnected, TypeOK, InStep, Reads, Now
<1>3. ASSUME NEW k \in 1 .. MaxPolls, Notify(k) PROVE LockingInv'
  BY <1>3 DEF Notify, TypeOK, InStep, Reads, Now, plugin
<1>4. ASSUME NEW k \in 1 .. MaxPolls, OnBroadcast(k) PROVE LockingInv'
  BY <1>4, SMTT(30) DEF OnBroadcast, Tell, IsNews, TypeOK, InStep, Reads, Now
<1> QED
  BY <1>1, <1>2, <1>3, <1>4 DEF Poll

(* A step that only gives request r another record q and moves its effect   *)
(* to e keeps the types, and keeps what is read if it is so of q and e.      *)
LEMMA OneRequest ==
  ASSUME TypeOK, Reads, NEW r \in DOMAIN request,
         NEW q \in Request, NEW e \in Task, e # "none",
         request' = [request EXCEPT ![r] = q], effect' = [effect EXCEPT ![r] = e],
         host' = host, connected' = connected, polls' = polls,
         Holds(host, q, e)
  PROVE  /\ Reads'
         /\ (wishes' \subseteq Sessions \X BOOLEAN /\ last' \in 0 .. Now
               /\ shown' \in [Peers -> 0 .. Now]) => TypeOK'
<1>1. /\ request \in Seq(Request) /\ effect \in [Requests -> Task] /\ r \in 1 .. Len(request)
      /\ Len(request) <= MaxRequests /\ Len(request) \in Nat
  BY DEF TypeOK
<1>2. r \in Requests
  BY <1>1 DEF Requests
<1>3. /\ request' \in Seq(Request) /\ DOMAIN request' = DOMAIN request
      /\ Len(request') = Len(request)
      /\ request'[r] = q /\ \A t \in DOMAIN request : t # r => request'[t] = request[t]
  BY <1>1
<1>4. /\ effect' \in [Requests -> Task] /\ effect'[r] = e
      /\ \A t \in Requests : t # r => effect'[t] = effect[t]
  BY <1>1, <1>2
<1>5. DOMAIN request \subseteq Requests
  BY <1>1 DEF Requests
<1>6. Reads'
  <2> SUFFICES ASSUME NEW t \in DOMAIN request' PROVE Holds(host', request'[t], effect'[t])
    BY DEF Reads
  <2>1. CASE t = r
    BY <1>3, <1>4, <2>1
  <2>2. CASE t # r
    BY <1>3, <1>4, <1>5, <2>2 DEF Reads
  <2> QED
    BY <2>1, <2>2
<1>7. \A t \in Requests : effect'[t] = "none" <=> t \notin DOMAIN request'
  BY <1>2, <1>3, <1>4 DEF TypeOK
<1> QED
  BY <1>3, <1>4, <1>6, <1>7 DEF TypeOK, Now

(* A new request.                                                          *)
LEMMA AskKeeps ==
  ASSUME LockingInv, NEW p \in Peers, NEW verb \in {"query", "lock", "unlock"},
         OnMessage(p, verb)
  PROVE  LockingInv'
<1> DEFINE n == Len(request) + 1
           q == Asked(p, verb)
<1>1. /\ request \in Seq(Request) /\ effect \in [Requests -> Task]
      /\ Len(request) < MaxRequests /\ Len(request) \in Nat
      /\ request' = Append(request, q) /\ effect' = [effect EXCEPT ![n] = "begin"]
      /\ UNCHANGED <<host, wishes, connected, last, shown, polls>>
  BY DEF LockingInv, TypeOK, OnMessage, plugin
<1>2. q \in Request
  BY DEF Asked, Request, Readings, LockingInv, TypeOK, Now
<1>3. n \in Requests /\ DOMAIN request \subseteq Requests /\ n \notin DOMAIN request
  BY <1>1 DEF Requests
<1>4. /\ request' \in Seq(Request) /\ Len(request') = n /\ DOMAIN request' = DOMAIN request \cup {n}
      /\ request'[n] = q /\ \A t \in DOMAIN request : request'[t] = request[t]
  BY <1>1, <1>2
<1>5. /\ effect' \in [Requests -> Task] /\ effect'[n] = "begin"
      /\ \A t \in Requests : t # n => effect'[t] = effect[t]
  BY <1>1, <1>3 DEF Task
<1>6. TypeOK'
  <2>1. \A t \in Requests : effect'[t] = "none" <=> t \notin DOMAIN request'
    BY <1>3, <1>4, <1>5 DEF LockingInv, TypeOK
  <2> QED
    BY <1>1, <1>4, <1>5, <2>1 DEF LockingInv, TypeOK, Now
<1>7. InStep'
  BY <1>1 DEF LockingInv, InStep
<1>8. Holds(host, q, "begin")
  BY DEF Holds, Asked, LockingInv, TypeOK, Now
<1>9. Reads'
  <2> SUFFICES ASSUME NEW t \in DOMAIN request' PROVE Holds(host, request'[t], effect'[t])
    BY <1>1 DEF Reads
  <2>1. CASE t = n
    BY <1>4, <1>5, <1>8, <2>1
  <2>2. CASE t # n
    BY <1>3, <1>4, <1>5, <2>2 DEF LockingInv, Reads
  <2> QED
    BY <2>1, <2>2
<1> QED
  BY <1>6, <1>7, <1>9 DEF LockingInv

(* Each step of an effect, and of the plugin on its result.                 *)
LEMMA WorkKeeps ==
  ASSUME LockingInv, NEW r \in DOMAIN request, Work(r)
  PROVE  LockingInv'
<1> DEFINE o == request[r]
<1>1. /\ TypeOK /\ InStep /\ Reads
      /\ o \in Request /\ Holds(host, o, effect[r])
      /\ request \in Seq(Request) /\ request = [request EXCEPT ![r] = o]
      /\ Len(host) \in 1 .. MaxChanges + 1 /\ Now = Len(host) /\ Now \in Readings
  BY DEF LockingInv, TypeOK, Reads, Now, Readings
<1>c. effect[r] = "confirm" =>
        /\ o.verb # "query" /\ ~(o.verb = "lock" /\ o.was) /\ o.session \in Sessions
        /\ o.is # "result" /\ o.at <= Len(host) /\ True(host, o)
        /\ o.reread = "not" => ~Worked(o)
  <2> SUFFICES ASSUME effect[r] = "confirm", Holds(host, o, "confirm")
               PROVE  /\ o.verb # "query" /\ ~(o.verb = "lock" /\ o.was) /\ o.session \in Sessions
                      /\ o.is # "result" /\ o.at <= Len(host) /\ True(host, o)
                      /\ o.reread = "not" => ~Worked(o)
    BY <1>1
  <2> QED
    BY DEF Holds
<1>2. ASSUME UNCHANGED <<host, connected, last, shown>> PROVE InStep'
  BY <1>1, <1>2 DEF InStep
<1>3. ASSUME NEW q \in Request, NEW e \in Task, e # "none",
             request' = [request EXCEPT ![r] = q], effect' = [effect EXCEPT ![r] = e],
             UNCHANGED <<host, connected, last, shown, polls>>,
             wishes' \subseteq Sessions \X BOOLEAN, Holds(host, q, e)
      PROVE  LockingInv'
  <2>1. /\ last' \in 0 .. Now /\ shown' \in [Peers -> 0 .. Now]
    BY <1>1, <1>3 DEF TypeOK
  <2> QED
    BY <1>1, <1>2, <1>3, <2>1, OneRequest DEF LockingInv
<1>4. wishes \subseteq Sessions \X BOOLEAN
  BY <1>1 DEF TypeOK
<1>5. CASE NoSession(r)
  <2>1. Holds(host, o, "failed")
    BY <1>1, <1>5 DEF NoSession, Holds
  <2> QED
    BY <1>1, <1>3, <1>4, <1>5, <2>1 DEF NoSession, Go, plugin, Task
<1>6. CASE Query(r)
  <2> DEFINE q == [o EXCEPT !.reading = Now]
  <2>1. q \in Request
    BY <1>1 DEF Request
  <2>2. Holds(host, q, "answer")
    BY <1>1, <1>6 DEF Query, Begins, Holds, Request
  <2> QED
    BY <1>1, <1>3, <1>4, <1>6, <2>1, <2>2 DEF Query, Go, plugin, Task
<1>7. CASE Act(r)
  <2> DEFINE i == Target(r)
             is == Locked(i, host[Now])
             at == IF is = (o.verb = "lock") THEN o.at ELSE Now
             q == [o EXCEPT !.session = i, !.was = is, !.locked = is, !.reading = Now,
                            !.at = at, !.reread = "not"]
  <2>1. /\ i \in Candidates(host[Now])
        /\ (o.verb = "lock" /\ is) => \A j \in Candidates(host[Now]) : Locked(j, host[Now])
    BY <1>7, TargetIsRight DEF Act, Begins
  <2>2. i \in Sessions /\ host[Now][i] # Gone /\ is \in BOOLEAN
    BY <2>1 DEF Candidates, Locked, ResolveLocked
  <2>a. at \in Readings /\ at <= Now
    BY <1>1 DEF Request, Holds
  <2>7. request' = [request EXCEPT ![r] = q]
    BY <1>1, <1>7 DEF Act, Says
  <2> HIDE DEF i, is, at
  <2>3. q \in Request
    BY <1>1, <2>2, <2>a DEF Request
  <2>4. /\ q.at = at /\ q.verb = o.verb /\ q.is = o.is /\ q.was = is /\ q.locked = is
        /\ q.session = i /\ q.reading = Now /\ q.reread = "not"
    BY <1>1 DEF Request
  <2>5. o.is # "result" /\ o.verb # "query"
    BY <1>1, <1>7 DEF Act, Begins, Holds
  <2>6. True(host, q)
    BY <1>1, <2>1, <2>2, <2>a, <2>4, <2>5 DEF True, is, i
  <2> HIDE DEF q
  <2>8. /\ Holds(host, q, "answer") /\ Holds(host, q, "failed")
        /\ is # (o.verb = "lock") => Holds(host, q, "confirm")
    <3>1. is # (o.verb = "lock") => ~Worked(q) /\ ~(q.verb = "lock" /\ q.was)
      BY <2>2, <2>4 DEF Worked
    <3> QED
      BY <1>1, <2>2, <2>a, <2>4, <2>5, <2>6, <3>1 DEF Holds
  <2>9. CASE is = (o.verb = "lock")
    BY <1>3, <1>4, <1>7, <2>3, <2>7, <2>8, <2>9 DEF Act, Go, plugin, Task, i, is
  <2>10. CASE is # (o.verb = "lock")
    <3>2. \/ effect' = [effect EXCEPT ![r] = "confirm"] /\ wishes' = wishes \cup {<<i, o.verb = "lock">>}
          \/ effect' = [effect EXCEPT ![r] = "failed"] /\ wishes' = wishes
      BY <1>7, <2>10 DEF Act, Go, Wish, i, is
    <3>3. wishes' \subseteq Sessions \X BOOLEAN
      <4>1. <<i, o.verb = "lock">> \in Sessions \X BOOLEAN
        BY <2>2
      <4> QED
        BY <1>4, <3>2, <4>1
    <3> QED
      BY <1>3, <1>7, <2>3, <2>7, <2>8, <2>10, <3>2, <3>3 DEF Act, plugin, Task
  <2> QED
    BY <2>9, <2>10
<1>8. CASE Confirm(r)
  <2> DEFINE i == o.session
             is == Locked(i, host[Now])
             q == [o EXCEPT !.session = i, !.was = o.was, !.locked = is, !.reading = Now,
                            !.at = o.at, !.reread = "done"]
  <2>1. /\ effect[r] = "confirm" /\ host[Now][i] # Gone
        /\ o.verb # "query" /\ ~(o.verb = "lock" /\ o.was) /\ i \in Sessions
        /\ o.is # "result" /\ o.at <= Len(host)
    BY <1>c, <1>8 DEF Confirm
  <2>2. is \in BOOLEAN
    BY DEF Locked, ResolveLocked
  <2> HIDE DEF is
  <2>3. q \in Request
    BY <1>1, <2>1, <2>2 DEF Request
  <2>4. /\ q.at = o.at /\ q.verb = o.verb /\ q.is = o.is /\ q.was = o.was /\ q.locked = is
        /\ q.session = i /\ q.reading = Now /\ q.reread = "done"
    BY <1>1 DEF Request
  <2>5. True(host, q)
    BY <1>1, <2>1, <2>4 DEF True, is
  <2>6. request' = [request EXCEPT ![r] = q]
    BY <1>1, <1>8 DEF Confirm, Says, is
  <2> HIDE DEF q
  <2>7. Holds(host, q, "answer") /\ Holds(host, q, "confirm")
    BY <1>1, <2>1, <2>4, <2>5 DEF Holds
  <2>8. \/ effect' = [effect EXCEPT ![r] = "answer"]
        \/ effect' = [effect EXCEPT ![r] = "confirm"]
    BY <1>1, <1>8, <2>1 DEF Confirm, Go, TypeOK
  <2> QED
    BY <1>3, <1>4, <1>8, <2>3, <2>6, <2>7, <2>8 DEF Confirm, plugin, Task
<1>9. CASE TimeUp(r)
  <2>1. Holds(host, o, "answer")
    <3>1. True(host, o) /\ o.is # "result" /\ o.at <= Len(host)
      BY <1>c, <1>9 DEF TimeUp
    <3>2. o.reading \in 1 .. Len(host)
      BY <3>1 DEF True
    <3> QED
      BY <3>1, <3>2 DEF Holds
  <2> QED
    BY <1>1, <1>3, <1>4, <1>9, <2>1 DEF TimeUp, Go, plugin, Task
<1>10. CASE OnState(r)
  <2> DEFINE q == [o EXCEPT !.is = "state"]
             n == o.reading
  <2>1. n \in 1 .. Now
    BY <1>1, <1>10 DEF OnState, Holds
  <2>2. q \in Request
    BY <1>1 DEF Request
  <2>3. Holds(host, q, "over")
    BY <1>1 DEF Holds, Request
  <2>4. last' \in 0 .. Now /\ shown' \in [Peers -> 0 .. Now]
    BY <1>1, <1>10, <2>1 DEF OnState, Tell, TypeOK
  <2>5. InStep'
    BY <1>1, <1>10, <2>1 DEF OnState, Tell, IsNews, InStep, TypeOK
  <2> QED
    BY <1>1, <1>4, <1>10, <2>2, <2>3, <2>4, <2>5, OneRequest DEF OnState, Task, LockingInv
<1>11. CASE OnResult(r)
  <2> DEFINE q == [o EXCEPT !.is = "result"]
  <2>1. q \in Request
    BY <1>1 DEF Request
  <2>2. Holds(host, q, "over")
    <3>1. /\ q.at = o.at /\ q.verb = o.verb /\ q.was = o.was /\ q.locked = o.locked
          /\ q.session = o.session /\ q.reading = o.reading /\ q.reread = o.reread
      BY <1>1 DEF Request
    <3>2. effect[r] = "answer" /\ o.verb # "query"
      BY <1>11 DEF OnResult
    <3>3. True(host, o) /\ o.at <= Len(host)
      BY <1>1, <3>2 DEF Holds
    <3>4. Worked(o) <=> Worked(q)
      BY <3>1 DEF Worked
    <3> HIDE DEF q
    <3>5. True(host, q)
      BY <3>1, <3>3, <3>4 DEF True
    <3> QED
      BY <3>1, <3>3, <3>5 DEF Holds
  <2> QED
    BY <1>1, <1>3, <1>4, <1>11, <2>1, <2>2 DEF OnResult, plugin, Task
<1>12. CASE OnFailed(r)
  <2> DEFINE q == [o EXCEPT !.is = "error"]
  <2>1. q \in Request
    BY <1>1 DEF Request
  <2>2. Holds(host, q, "over")
    BY <1>1 DEF Holds, Request
  <2> QED
    BY <1>1, <1>3, <1>4, <1>12, <2>1, <2>2 DEF OnFailed, plugin, Task
<1>13. CASE ConfirmFails(r)
  <2> DEFINE q == [o EXCEPT !.reread = "failed"]
  <2>1. q \in Request
    BY <1>1 DEF Request
  <2>2. Holds(host, q, "confirm")
    <3>1. /\ q.at = o.at /\ q.verb = o.verb /\ q.is = o.is /\ q.was = o.was /\ q.locked = o.locked
          /\ q.session = o.session /\ q.reading = o.reading /\ q.reread = "failed"
      BY <1>1 DEF Request
    <3>2. effect[r] = "confirm" /\ o.reread = "not"
      BY <1>13 DEF ConfirmFails
    <3>3. ~Worked(q)
      <4>1. ~Worked(o)
        BY <1>c, <3>2
      <4> QED
        BY <3>1, <4>1 DEF Worked
    <3> HIDE DEF q
    <3> QED
      BY <1>c, <3>1, <3>2, <3>3 DEF Holds, True
  <2>3. effect' = [effect EXCEPT ![r] = "confirm"]
    BY <1>1, <1>13 DEF ConfirmFails, TypeOK
  <2> QED
    BY <1>1, <1>3, <1>4, <1>13, <2>1, <2>2, <2>3 DEF ConfirmFails, plugin, Task
<1> QED
  BY <1>5, <1>6, <1>7, <1>8, <1>9, <1>10, <1>11, <1>12, <1>13 DEF Work

(* Every step preserves the invariant.                                     *)
LEMMA StepLocking == LockingInv /\ [Next]_vars => LockingInv'
<1>1. ASSUME LockingInv, Next PROVE LockingInv'
  BY <1>1, MachineKeeps, PluginKeeps, AskKeeps, WorkKeeps DEF Next
<1>2. ASSUME LockingInv, UNCHANGED vars PROVE LockingInv'
  BY <1>2 DEF vars, plugin, LockingInv, TypeOK, InStep, Reads, Now
<1> QED
  BY <1>1, <1>2

-----------------------------------------------------------------------------
(* All devices connected to a desktop show the same lock state, the one its  *)
(* session plugin remembers, in whatever order its readings arrive.          *)
THEOREM LockInStep == Spec => []InStep
<1>1. LockingInv => InStep
  BY DEF LockingInv
<1> QED
  BY InitLocking, StepLocking, <1>1, PTL DEF Spec

(* A device is told "was locked already" only of a machine on which act      *)
(* found no session left to lock.                                           *)
THEOREM NothingLeft == Spec => []NothingLeftUnlocked
<1>1. LockingInv => NothingLeftUnlocked
  BY DEF LockingInv, Reads, Holds, True, NothingLeftUnlocked
<1> QED
  BY InitLocking, StepLocking, <1>1, PTL DEF Spec

(* What act and confirm report was read from the session after the device    *)
(* asked and the locker was called, and is what the reading showed; where    *)
(* every reading after the call failed, no change is reported.               *)
THEOREM ReportsWhatItRead == Spec => []OutcomeWasRead
<1>1. LockingInv => OutcomeWasRead
  <2> SUFFICES ASSUME LockingInv, NEW r \in DOMAIN request, request[r].is = "result"
               PROVE  LET q == request[r] IN
                      IF q.reread = "failed" THEN q.locked # (q.verb = "lock")
                      ELSE /\ q.reading >= q.at
                           /\ host[q.reading][q.session] # Gone
                           /\ q.locked = Locked(q.session, host[q.reading])
    BY DEF OutcomeWasRead
  <2>1. True(host, request[r])
    BY DEF LockingInv, Reads, Holds
  <2>2. request[r] \in Request
    BY DEF LockingInv, TypeOK
  <2>3. request[r].reading \in Readings /\ request[r].at \in Readings
    BY <2>2 DEF Request
  <2> QED
    BY <2>1, <2>3 DEF True, Readings, Worked
<1> QED
  BY InitLocking, StepLocking, <1>1, PTL DEF Spec

=============================================================================
