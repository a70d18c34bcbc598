----------------------------- MODULE Freshness -----------------------------
(***************************************************************************)
(* A device and the timestamps of one paired peer: the Hello of every      *)
(* session handshake, the greatest_seen watermark and its way to disk      *)
(* (acrylius-core core.rs: on_first_frame, on_handshake_frame,             *)
(* accept_hello, confirm_pairing, handle_revoke; acrylius-proto            *)
(* handshake.rs; acrylius-rt runtime.rs and store.rs).                     *)
(*                                                                         *)
(* Abstractions.  The peer is its Hellos: openers with any timestamp, each *)
(* of which may be delivered again on another link, and answers to dials   *)
(* of ours.  Message 1 of IKpsk2 is readable whatever the pairing key, so  *)
(* the key is left out.  The core handles one event and the runtime        *)
(* carries out the actions it returned, in order, before the next event:   *)
(* `todo` is what is left of them, and a crash loses it.                   *)
(***************************************************************************)
EXTENDS Naturals

CONSTANTS
  Links,      \* link ids, each used once
  Openers,    \* openers the peer sends
  NoLink, NoOpener,
  MaxSkew,    \* MAX_SKEW_MS
  MaxClock    \* bound: last reading of any wall clock

ASSUME NoneAssumption == NoLink \notin Links /\ NoOpener \notin Openers
ASSUME BoundsAssumption == MaxSkew \in Nat /\ MaxClock \in Nat \ {0}

VARIABLES
  clock,    \* wall_ms
  top,      \* history: the latest reading of it so far
  record,   \* the PeerRecord: whether there is one, and its greatest_seen
  disk,     \* what the store holds
  todo,     \* actions of the last event that are not carried out yet
  unsaved,  \* the last Persist failed
  stamp,    \* stamp[o]: ts_ms of opener o, 0 before it is sent
  links,    \* links[l]: the state of link l
  carries,  \* carries[l]: the opener that arrives on l
  intact,   \* history: no watermark was ever lost
  times,    \* history: how often each opener was answered
  high      \* history: the latest timestamp answered since the record was
            \* made or its watermark lost

vars == <<clock, top, record, disk, todo, unsaved, stamp, links, carries,
          intact, times, high>>

Record == [known : BOOLEAN, seen : Nat]

\* Persist, then LinkSend of message 2 on `link`.
Todo == [write : BOOLEAN, link : Links \cup {NoLink}]
Nothing == [write |-> FALSE, link |-> NoLink]

(* Tables hold what their fields can hold, and a link that still waits for *)
(* its opener, or whose answer is still to go out, has one.                *)
TypeOK ==
  /\ clock \in Nat
  /\ top \in Nat
  /\ record \in Record
  /\ disk \in Record
  /\ todo \in Todo
  /\ unsaved \in BOOLEAN
  /\ stamp \in [Openers -> Nat]
  /\ links \in [Links -> {"fresh", "pending", "shaking", "up", "gone"}]
  /\ carries \in [Links -> Openers \cup {NoOpener}]
  /\ \A l \in Links : links[l] = "pending" \/ l = todo.link => carries[l] \in Openers
  /\ intact \in BOOLEAN
  /\ times \in [Openers -> Nat]
  /\ high \in Nat

\* The peer was just paired.
Init ==
  /\ clock = 1 /\ top = 1
  /\ record = [known |-> TRUE, seen |-> 0]
  /\ disk = record
  /\ todo = Nothing
  /\ unsaved = FALSE
  /\ stamp = [o \in Openers |-> 0]
  /\ links = [l \in Links |-> "fresh"]
  /\ carries = [l \in Links |-> NoOpener]
  /\ intact = TRUE
  /\ times = [o \in Openers |-> 0]
  /\ high = 0

-----------------------------------------------------------------------------
(* The check. *)

\* Slip: a tie passes.
FreshOrTied(ts) ==
  ts <= clock + MaxSkew /\ clock <= ts + MaxSkew /\ ts >= record.seen

\* check_freshness: within the skew either way and strictly newer.
Fresh(ts) ==
  ts <= clock + MaxSkew /\ clock <= ts + MaxSkew /\ ts > record.seen

\* accept_hello: known and fresh; the watermark moves with the record.
AcceptHello(ts) ==
  /\ record.known
  /\ Fresh(ts)
  /\ record' = [record EXCEPT !.seen = ts]

\* The core takes an event only when the last one's actions are done.
Idle == todo = Nothing

-----------------------------------------------------------------------------
(* The peer and the network. *)

\* The peer's Hello for a new handshake (`hello` at its end).
PeerDials(o, l, ts) ==
  /\ stamp[o] = 0
  /\ links[l] = "fresh"
  /\ stamp' = [stamp EXCEPT ![o] = ts]
  /\ links' = [links EXCEPT ![l] = "pending"]
  /\ carries' = [carries EXCEPT ![l] = o]
  /\ UNCHANGED <<clock, top, record, disk, todo, unsaved, intact, times, high>>

\* An opener arrives once more, on a link of its own.
Redelivered(o, l) ==
  /\ stamp[o] # 0
  /\ links[l] = "fresh"
  /\ links' = [links EXCEPT ![l] = "pending"]
  /\ carries' = [carries EXCEPT ![l] = o]
  /\ UNCHANGED <<clock, top, record, disk, todo, unsaved, stamp, intact, times, high>>

\* The wall clock moves on, or is set back.
ClockSet(t) ==
  /\ clock' = t
  /\ top' = IF t > top THEN t ELSE top
  /\ UNCHANGED <<record, disk, todo, unsaved, stamp, links, carries, intact, times, high>>

-----------------------------------------------------------------------------
(* Handshakes. *)

\* start_session_initiator: a dial of ours connects and the opener goes out.
Dial(l) ==
  /\ Idle
  /\ record.known
  /\ links[l] = "fresh"
  /\ links' = [links EXCEPT ![l] = "shaking"]
  /\ UNCHANGED <<clock, top, record, disk, todo, unsaved, stamp, carries, intact, times, high>>

\* Slip: message 2 goes out first and the record is written after it.
TakeOpenerUnwritten(l) ==
  /\ Idle
  /\ links[l] = "pending"
  /\ AcceptHello(stamp[carries[l]])
  /\ links' = [links EXCEPT ![l] = "up"]
  /\ times' = [times EXCEPT ![carries[l]] = @ + 1]
  /\ high' = stamp[carries[l]]
  /\ todo' = [write |-> TRUE, link |-> NoLink]
  /\ UNCHANGED <<clock, top, disk, unsaved, stamp, carries, intact>>

\* on_first_frame: the opener is taken, and the record is to be written
\* before message 2 goes out.
TakeOpener(l) ==
  /\ Idle
  /\ links[l] = "pending"
  /\ AcceptHello(stamp[carries[l]])
  /\ links' = [links EXCEPT ![l] = "up"]
  /\ todo' = [write |-> TRUE, link |-> l]
  /\ UNCHANGED <<clock, top, disk, unsaved, stamp, carries, intact, times, high>>

\* on_handshake_frame: message 2 is readable and its Hello taken.
TakeAnswer(l, ts) ==
  /\ Idle
  /\ links[l] = "shaking"
  /\ AcceptHello(ts)
  /\ links' = [links EXCEPT ![l] = "up"]
  /\ todo' = [write |-> TRUE, link |-> NoLink]
  /\ UNCHANGED <<clock, top, disk, unsaved, stamp, carries, intact, times, high>>

\* fail_link or on_link_down: refused, timed out or lost.
LinkGone(l) ==
  /\ Idle
  /\ links[l] \in {"pending", "shaking", "up"}
  /\ links' = [links EXCEPT ![l] = "gone"]
  /\ UNCHANGED <<clock, top, record, disk, todo, unsaved, stamp, carries, intact, times, high>>

\* confirm_pairing: the record starts over, greatest_seen at zero.
ConfirmPairing ==
  /\ Idle
  /\ record' = [known |-> TRUE, seen |-> 0]
  /\ todo' = [write |-> TRUE, link |-> NoLink]
  /\ intact' = FALSE
  /\ high' = 0
  /\ UNCHANGED <<clock, top, disk, unsaved, stamp, links, carries, times>>

\* Slip: the record is taken out of memory only.
RevokeInMemory ==
  /\ Idle
  /\ record.known
  /\ record' = [known |-> FALSE, seen |-> 0]
  /\ links' = [l \in Links |-> IF links[l] = "up" THEN "gone" ELSE links[l]]
  /\ UNCHANGED <<clock, top, disk, todo, unsaved, stamp, carries, intact, times, high>>

\* handle_revoke: the record, its sessions and the file.
Revoke ==
  /\ Idle
  /\ record' = [known |-> FALSE, seen |-> 0]
  /\ links' = [l \in Links |-> IF links[l] = "up" THEN "gone" ELSE links[l]]
  /\ todo' = [write |-> TRUE, link |-> NoLink]
  /\ UNCHANGED <<clock, top, disk, unsaved, stamp, carries, intact, times, high>>

-----------------------------------------------------------------------------
(* The runtime carries out what the core asked for. *)

\* FileStore::put: the old file or the new one, never part of either.
Put ==
  /\ todo.write
  /\ disk' = record
  /\ unsaved' = FALSE
  /\ todo' = [todo EXCEPT !.write = FALSE]
  /\ UNCHANGED <<clock, top, record, stamp, links, carries, intact, times, high>>

\* An error from put is logged and the next action goes ahead.
PutFails ==
  /\ todo.write
  /\ unsaved' = TRUE
  /\ todo' = [todo EXCEPT !.write = FALSE]
  /\ UNCHANGED <<clock, top, record, disk, stamp, links, carries, intact, times, high>>

\* LinkSend of message 2.
Answer ==
  /\ ~todo.write /\ todo.link # NoLink
  /\ times' = [times EXCEPT ![carries[todo.link]] = @ + 1]
  /\ high' = stamp[carries[todo.link]]
  /\ todo' = Nothing
  /\ UNCHANGED <<clock, top, record, disk, unsaved, stamp, links, carries, intact>>

\* The process ends between any two actions and starts from the store
\* (load_peers).
Restart ==
  /\ record' = disk
  /\ todo' = Nothing
  /\ links' = [l \in Links |-> IF links[l] = "fresh" THEN "fresh" ELSE "gone"]
  /\ intact' = (intact /\ ~unsaved)
  /\ high' = IF unsaved THEN 0 ELSE high
  /\ unsaved' = FALSE
  /\ UNCHANGED <<clock, top, disk, stamp, carries, times>>

-----------------------------------------------------------------------------
World ==
  \/ \E o \in Openers, l \in Links, ts \in 1 .. MaxClock : PeerDials(o, l, ts)
  \/ \E o \in Openers, l \in Links : Redelivered(o, l)
  \/ \E t \in 1 .. MaxClock : ClockSet(t)

Core ==
  \/ \E l \in Links :
       \/ Dial(l)
       \/ TakeOpener(l)
       \/ \E ts \in 1 .. MaxClock : TakeAnswer(l, ts)
       \/ LinkGone(l)
  \/ ConfirmPairing
  \/ Revoke

Runtime == Put \/ PutFails \/ Answer \/ Restart

Next == World \/ Core \/ Runtime

Spec == Init /\ [][Next]_vars

-----------------------------------------------------------------------------
(* Properties. *)

\* The watermark is never further than the skew beyond what this device's
\* own clock has shown, so a peer with "a wild clock" locks itself out for
\* no longer than that, in whatever order Hellos come (check_freshness).
WatermarkBounded == record.seen <= top + MaxSkew

\* Before anything else is done about an event, message 2 included, the store
\* holds the record the core works with, unless the write itself failed: a
\* pairing, a revoke and every watermark survive a restart.
StoreIsCurrent == ~todo.write /\ ~unsaved => disk = record

\* No opener is answered twice, whatever is delivered again and whenever the
\* process dies, as long as no write was lost and the pairing not redone:
\* "Persisted; a restart must not reopen the window" (GreatestSeen).
AnsweredOnce == intact => \A o \in Openers : times[o] <= 1

Promise == INSTANCE Watermark WITH high <- high, weak <- unsaved

\* Seen from outside, the check, the order of write and answer, the store and
\* its crashes do what one device without a disk would: every message 2 answers
\* an opener newer than all answered before it, also after a restart, and again
\* after each pairing (accept_hello, PROTOCOL.md section 7).
KeepsPromise == Promise!Spec
=============================================================================
