------------------------------ MODULE Locking -------------------------------
(***************************************************************************)
(* Locking and unlocking a desktop from other devices: the session plugin   *)
(* (plugins/session.rs), its effects (acrylius-linux session.rs and         *)
(* compositor.rs) and the daemon's poll (main.rs).                         *)
(*                                                                         *)
(* Abstractions.  As in Media, the machine's states are numbered as they    *)
(* happen, a reading is a number, and every effect is a task of its own.    *)
(* A session is a graphical one of this user.  The lock command a person    *)
(* configured and logind's signal are both a wish the locker may grant      *)
(* later or never.  `result` is only sent to the device that asked.        *)
(***************************************************************************)
EXTENDS Naturals, Sequences, FiniteSetsExt

CONSTANTS
  Peers,
  Sessions,     \* logind's ids, in order
  Wayland,      \* those of them whose compositor can be asked
  MaxChanges,   \* bound: changes of the machine
  MaxRequests,  \* bound: requests of all devices
  MaxPolls      \* bound: readings of the poll under way

ASSUME LockingAssumption ==
  /\ Sessions \subseteq Nat /\ Wayland \subseteq Sessions
  /\ {MaxChanges, MaxRequests, MaxPolls} \subseteq Nat

VARIABLES
  host,       \* host[n]: the n-th state of the machine; the last is now
  wishes,     \* lock and unlock calls a locker has not acted on
  connected,  \* SessionPlugin.connected
  last,       \* SessionPlugin.last: a reading, or 0
  shown,      \* shown[p]: the reading p was last sent as "state", or 0
  effect,     \* effect[r]: the task of request r
  polls,      \* effects of the poll: the reading each has taken, 0 if none runs
  request     \* request[r]: what was asked, by whom, and the answer

plugin == <<connected, last, shown>>
vars == <<host, wishes, plugin, effect, polls, request>>

Now == Len(host)
Requests == 1 .. MaxRequests
Readings == 0 .. MaxChanges + 1

\* logind's LockedHint, what the compositor would say, and who is in front.
Session == [hint : BOOLEAN, covered : BOOLEAN, active : BOOLEAN]
Gone == [hint |-> FALSE, covered |-> FALSE, active |-> FALSE, gone |-> TRUE]

\* `at` is the state it was asked in, then the one the locker was called in;
\* `was` and `locked` are what a SessionOutcome says, of `reading`; `reread` is
\* what became of the readings after the call.
Request == [peer : Peers, verb : {"query", "lock", "unlock"}, at : Readings,
            is : {"asked", "state", "result", "error"}, session : Sessions \cup {0},
            was : BOOLEAN, locked : BOOLEAN, reading : Readings,
            reread : {"not", "failed", "done"}]

Task == {"none", "begin", "confirm", "answer", "failed", "over"}

(* The tables hold what their fields can hold, no reading is of a state the  *)
(* machine has not been in, and a request has a task that answers it.       *)
TypeOK ==
  /\ host \in Seq([Sessions -> Session \cup {Gone}]) /\ Now \in 1 .. MaxChanges + 1
  /\ wishes \subseteq Sessions \X BOOLEAN
  /\ connected \subseteq Peers
  /\ last \in 0 .. Now
  /\ shown \in [Peers -> 0 .. Now]
  /\ effect \in [Requests -> Task]
  /\ polls \in [1 .. MaxPolls -> 0 .. Now]
  /\ request \in Seq(Request) /\ Len(request) <= MaxRequests
  /\ \A r \in Requests : effect[r] = "none" <=> r \notin DOMAIN request

Init ==
  /\ \E front \in Sessions :
       host = <<[i \in Sessions |-> [hint |-> FALSE, covered |-> FALSE, active |-> i = front]]>>
  /\ wishes = {}
  /\ connected = {} /\ last = 0
  /\ shown = [p \in Peers |-> 0]
  /\ effect = [r \in Requests |-> "none"]
  /\ polls = [k \in 1 .. MaxPolls |-> 0]
  /\ request = <<>>

-----------------------------------------------------------------------------
(* The machine. *)

Becomes(s) == Now <= MaxChanges /\ s # host[Now] /\ host' = Append(host, s)

\* A locker says so to logind, to the compositor, or to both.
Covers(i, want) ==
  {[host[Now] EXCEPT ![i].hint = h, ![i].covered = c] :
     h \in {want, host[Now][i].hint}, c \in {want, host[Now][i].covered}}

Grant(i, want) ==
  /\ <<i, want>> \in wishes /\ wishes' = wishes \ {<<i, want>>}
  /\ IF host[Now][i] = Gone THEN UNCHANGED host
     ELSE \E s \in Covers(i, want) : Becomes(s)
  /\ UNCHANGED <<plugin, effect, polls, request>>

\* At the machine: a session is locked, unlocked, brought to the front or ended.
HostChange(i) ==
  /\ host[Now][i] # Gone
  /\ \/ \E want \in BOOLEAN : \E s \in Covers(i, want) : Becomes(s)
     \/ Becomes([j \in Sessions |-> IF host[Now][j] = Gone THEN Gone
                                    ELSE [host[Now][j] EXCEPT !.active = j = i]])
     \/ Becomes([host[Now] EXCEPT ![i] = Gone])
  /\ UNCHANGED <<wishes, plugin, effect, polls, request>>

-----------------------------------------------------------------------------
(* Readings. *)

\* compositor::locked: it is asked only of the session in front.
CompositorSays(i, is) == i \in Wayland /\ is.active /\ is.covered

\* resolve_locked: a hint that says yes is believed; one that says no only
\* after the compositor of the session in front agrees.
ResolveLocked(i, is) == is.hint \/ CompositorSays(i, is)

Candidates(s) == {i \in Sessions : s[i] # Gone}
Locked(i, s) == ResolveLocked(i, s[i])

\* min_by_key: the first group that is not empty, then the lowest id.
Least(groups) == Min(groups[Min({k \in DOMAIN groups : groups[k] # {}})])
Groups(s, first) ==
  LET second == Candidates(s) \ first
      front(is) == {i \in is : s[i].active}
  IN <<front(first), first \ front(first), front(second), second \ front(second)>>

\* rank_for_unlock: a locked session first.
RankForUnlock(s) == Least(Groups(s, {i \in Candidates(s) : Locked(i, s)}))

\* rank_for_lock: an unlocked one.
RankForLock(s) == Least(Groups(s, {i \in Candidates(s) : ~Locked(i, s)}))

\* query: the session in front, else the lowest id.
Chosen(s) == Least(Groups(s, Candidates(s)))

\* What a reading of s shows in a "state".
Shows(s) ==
  IF Candidates(s) = {} THEN [session |-> 0, locked |-> FALSE, active |-> FALSE]
  ELSE [session |-> Chosen(s), locked |-> Locked(Chosen(s), s), active |-> s[Chosen(s)].active]

-----------------------------------------------------------------------------
(* The plugin. *)

Tell(ps, n) == shown' = [p \in Peers |-> IF p \in ps \cap connected THEN n ELSE shown[p]]

\* on_peer_connected
PeerConnected(p) ==
  /\ p \notin connected
  /\ connected' = connected \cup {p}
  /\ shown' = [shown EXCEPT ![p] = last]
  /\ UNCHANGED <<host, wishes, last, effect, polls, request>>

\* on_peer_disconnected
PeerDisconnected(p) ==
  /\ p \in connected
  /\ connected' = connected \ {p}
  /\ shown' = [shown EXCEPT ![p] = 0]
  /\ UNCHANGED <<host, wishes, last, effect, polls, request>>

Asked(p, verb) == [peer |-> p, verb |-> verb, at |-> Now, is |-> "asked", session |-> 0,
                   was |-> FALSE, locked |-> FALSE, reading |-> 0, reread |-> "not"]

\* on_message
OnMessage(p, verb) ==
  /\ p \in connected /\ Len(request) < MaxRequests
  /\ request' = Append(request, Asked(p, verb))
  /\ effect' = [effect EXCEPT ![Len(request) + 1] = "begin"]
  /\ UNCHANGED <<host, wishes, plugin, polls>>

\* The daemon's poll: on_local "notify", and the reading its effect takes; a
\* machine without a session fails it, and nobody is told.
Notify(k) ==
  /\ polls[k] = 0 /\ Candidates(host[Now]) # {}
  /\ polls' = [polls EXCEPT ![k] = Now]
  /\ UNCHANGED <<host, wishes, plugin, effect, request>>

IsNews(n) == last = 0 \/ Shows(host[last]) # Shows(host[n])

\* on_effect_result of a reading nobody asked for.
OnBroadcast(k) ==
  /\ polls[k] > 0 /\ polls' = [polls EXCEPT ![k] = 0]
  /\ IF IsNews(polls[k]) THEN last' = polls[k] /\ Tell(Peers, polls[k])
     ELSE UNCHANGED <<last, shown>>
  /\ UNCHANGED <<host, wishes, connected, effect, request>>

\* Slip: the others are not told what an answer showed.
OnStateAskerOnly(r) ==
  /\ effect[r] = "answer" /\ request[r].verb = "query"
  /\ effect' = [effect EXCEPT ![r] = "over"]
  /\ request' = [request EXCEPT ![r].is = "state"]
  /\ last' = request[r].reading
  /\ Tell({request[r].peer}, request[r].reading)
  /\ UNCHANGED <<host, wishes, connected, polls>>

\* on_effect_result of a query: news to the others, an answer to one.
OnState(r) ==
  LET n == request[r].reading IN
  /\ effect[r] = "answer" /\ request[r].verb = "query"
  /\ effect' = [effect EXCEPT ![r] = "over"]
  /\ request' = [request EXCEPT ![r].is = "state"]
  /\ last' = IF IsNews(n) THEN n ELSE last
  /\ Tell(IF IsNews(n) THEN Peers ELSE {request[r].peer}, n)
  /\ UNCHANGED <<host, wishes, connected, polls>>

\* on_effect_result of a lock or an unlock.
OnResult(r) ==
  /\ effect[r] = "answer" /\ request[r].verb # "query"
  /\ effect' = [effect EXCEPT ![r] = "over"]
  /\ request' = [request EXCEPT ![r].is = "result"]
  /\ UNCHANGED <<host, wishes, plugin, polls>>

\* on_effect_result of a failure.
OnFailed(r) ==
  /\ effect[r] = "failed"
  /\ effect' = [effect EXCEPT ![r] = "over"]
  /\ request' = [request EXCEPT ![r].is = "error"]
  /\ UNCHANGED <<host, wishes, plugin, polls>>

-----------------------------------------------------------------------------
(* The effects. *)

Go(r, at) == effect' = [effect EXCEPT ![r] = at]

Begins(r) == effect[r] = "begin" /\ Candidates(host[Now]) # {}

\* No graphical session for this user.
NoSession(r) ==
  /\ effect[r] = "begin" /\ Candidates(host[Now]) = {}
  /\ Go(r, "failed")
  /\ UNCHANGED <<host, wishes, plugin, polls, request>>

\* query
Query(r) ==
  /\ Begins(r) /\ request[r].verb = "query"
  /\ Go(r, "answer")
  /\ request' = [request EXCEPT ![r].reading = Now]
  /\ UNCHANGED <<host, wishes, plugin, polls>>

\* Slip: one ranking for both.
TargetShared(r) == RankForUnlock(host[Now])

Target(r) == IF request[r].verb = "lock" THEN RankForLock(host[Now]) ELSE RankForUnlock(host[Now])

\* The outcome of r: session i, and whether it was and is locked.
Says(r, i, was, locked, at, reread) ==
  request' = [request EXCEPT ![r].session = i, ![r].was = was, ![r].locked = locked,
                             ![r].reading = Now, ![r].at = at, ![r].reread = reread]

\* run_command or logind's call: the locker is asked.
Wish(i, want) == wishes' = wishes \cup {<<i, want>>}

\* act, on a session that is already as wanted, or by asking for it; logind may
\* refuse.  What confirm starts from, `!want`, is what the session was.
Act(r) ==
  LET i == Target(r)
      want == request[r].verb = "lock"
      is == Locked(i, host[Now])
  IN /\ Begins(r) /\ request[r].verb # "query"
     /\ Says(r, i, is, is, IF is = want THEN request[r].at ELSE Now, "not")
     /\ IF is = want THEN Go(r, "answer") /\ UNCHANGED wishes
        ELSE \/ Go(r, "confirm") /\ Wish(i, want)
             \/ Go(r, "failed") /\ UNCHANGED wishes
     /\ UNCHANGED <<host, plugin, polls>>

\* Slip: the call's success is taken for the lock's.
ConfirmTrusting(r) ==
  /\ effect[r] = "confirm"
  /\ Go(r, "answer")
  /\ Says(r, request[r].session, request[r].was, request[r].verb = "lock", request[r].at, "done")
  /\ UNCHANGED <<host, wishes, plugin, polls>>

\* confirm, one turn: the session is read, and the answer is there if it is as
\* wanted.
Confirm(r) ==
  LET i == request[r].session
      is == Locked(i, host[Now])
  IN /\ effect[r] = "confirm" /\ host[Now][i] # Gone
     /\ Says(r, i, request[r].was, is, request[r].at, "done")
     /\ IF is = (request[r].verb = "lock") THEN Go(r, "answer") ELSE UNCHANGED effect
     /\ UNCHANGED <<host, wishes, plugin, polls>>

\* The same turn when the session is gone or logind does not answer: the error
\* is only logged.
ConfirmFails(r) ==
  /\ effect[r] = "confirm" /\ request[r].reread = "not"
  /\ request' = [request EXCEPT ![r].reread = "failed"]
  /\ UNCHANGED <<host, wishes, plugin, effect, polls>>

\* LOCK_CONFIRM or UNLOCK_CONFIRM passes, after one turn at least: the last
\* reading stands, or `!want` if there was none.
TimeUp(r) ==
  /\ effect[r] = "confirm" /\ request[r].reread # "not"
  /\ Go(r, "answer")
  /\ UNCHANGED <<host, wishes, plugin, polls, request>>

-----------------------------------------------------------------------------
Work(r) ==
  \/ NoSession(r) \/ Query(r) \/ Act(r)
  \/ Confirm(r) \/ ConfirmFails(r) \/ TimeUp(r)
  \/ OnState(r) \/ OnResult(r) \/ OnFailed(r)

Poll(k) == Notify(k) \/ OnBroadcast(k)

Next ==
  \/ \E i \in Sessions : HostChange(i) \/ \E want \in BOOLEAN : Grant(i, want)
  \/ \E p \in Peers : PeerConnected(p) \/ PeerDisconnected(p)
  \/ \E p \in Peers, verb \in {"query", "lock", "unlock"} : OnMessage(p, verb)
  \/ \E r \in DOMAIN request : Work(r)
  \/ \E k \in 1 .. MaxPolls : Poll(k)

Spec == Init /\ [][Next]_vars

-----------------------------------------------------------------------------
(* Every connected device was last shown the state the plugin remembers      *)
(* having shown.                                                           *)
InStep ==
  \A p \in connected : last # 0 => shown[p] # 0 /\ Shows(host[shown[p]]) = Shows(host[last])

(* A device told that the desktop was locked already is told so of a machine *)
(* with nothing left to lock: with two sessions, the one that is locked is   *)
(* not the one to act on.                                                  *)
NothingLeftUnlocked ==
  \A r \in DOMAIN request :
    (request[r].is = "result" /\ request[r].verb = "lock" /\ request[r].was) =>
      LET s == host[request[r].reading] IN \A i \in Candidates(s) : Locked(i, s)

(* What a device is told a session has become was read from that session,    *)
(* not before the device asked nor before the locker was called, and never   *)
(* inferred from the call.  The exception is a session that could not be     *)
(* read once after the call: there "read back after the operation, never     *)
(* inferred" (plugins/session.rs) is not so, and the device is told that     *)
(* nothing changed.  A change is reported only if it was seen.              *)
OutcomeWasRead ==
  \A r \in DOMAIN request :
    LET q == request[r] IN
    q.is = "result" =>
      IF q.reread = "failed" THEN q.locked # (q.verb = "lock")
      ELSE /\ q.reading >= q.at
           /\ host[q.reading][q.session] # Gone
           /\ q.locked = Locked(q.session, host[q.reading])

=============================================================================
