------------------------------ MODULE Pairing ------------------------------
(***************************************************************************)
(* The pairing slot of acrylius-core: who is admitted to a pairing         *)
(* handshake, who may put six digits in front of a person, and what the    *)
(* person's answer does.  It is the part of src/crates/acrylius-core/src/  *)
(* core.rs that reads or writes `pairing`, `pair_quiet_until` and          *)
(* `pending_pair_dials`, with the host's question on the screen            *)
(* (acryliusd main.rs and prompt.rs, AppModel.swift).                      *)
(*                                                                         *)
(* Abstractions.  A deadline D is kept as the time left, max(0, D - now):  *)
(* the code only ever asks whether now >= D, so nothing is lost and time   *)
(* is unbounded.  Every link runs at most one XX handshake with a          *)
(* transcript hash of its own, so the hash, the digits derived from it and *)
(* the session key derived from it are all named by the link.  A frame is  *)
(* its kind and whether the handshake can read it.  Session handshakes     *)
(* this device dials, and where a peer may be dialled, are in Dialling.    *)
(***************************************************************************)
EXTENDS Naturals

CONSTANTS
  Links,              \* link ids the transports hand out, each at most once
  Devices,            \* static keys that may answer on a link
  NoLink, NoDevice,   \* "none"
  AcceptPairRequests, \* config.accept_pair_requests
  PairingWindow,      \* config.pairing_window_ms
  PairCooldown,       \* config.pair_cooldown_ms
  PairDeniedCooldown, \* config.pair_denied_cooldown_ms
  HandshakeTimeout,   \* config.handshake_timeout_ms
  LateTicks,          \* whether the host may be late with a due tick
  MaxDials            \* bound: pairings a person here starts

ASSUME NoneAssumption == NoLink \notin Links /\ NoDevice \notin Devices

ASSUME ConfigAssumption ==
  /\ AcceptPairRequests \in BOOLEAN
  /\ PairingWindow \in Nat \ {0}
  /\ PairCooldown \in Nat \ {0}
  /\ PairDeniedCooldown \in Nat \ {0}
  /\ HandshakeTimeout \in Nat \ {0}
  /\ LateTicks \in BOOLEAN
  /\ MaxDials \in Nat

VARIABLES
  links,      \* links[l]: "fresh" before LinkUp, "gone" after removal
  left,       \* left[l]: time left to a pending or handshaking link
  who,        \* who[l]: the device an established session is with
  pairing,    \* "idle" is None; "open" and "awaiting" are Some
  window,     \* time left to the pairing slot
  confirm,    \* the AwaitingConfirm: its link, hence its digits, and record
  quiet,      \* time left before a pairing handshake is answered again
  pairDials,  \* pending_pair_dials
  nextDial,   \* next_dial
  peers,      \* peers[d]: the handshake d's session key comes from
  question,   \* host: the digits a person is looking at
  shown       \* history: digits that were ever put on the screen

vars == <<links, left, who, pairing, window, confirm, quiet, pairDials,
          nextDial, peers, question, shown>>

Confirmation == [link : Links, device : Devices]
NoConfirm == [link |-> NoLink, device |-> NoDevice]

(* One type invariant for the whole slot: every table holds what its field *)
(* in struct Core can hold, and a confirmation exists exactly in the       *)
(* awaiting state.                                                         *)
TypeOK ==
  /\ links \in [Links -> {"fresh", "pending", "pairing", "up", "gone"}]
  /\ left \in [Links -> Nat]
  /\ who \in [Links -> Devices \cup {NoDevice}]
  /\ pairing \in {"idle", "open", "awaiting"}
  /\ window \in Nat
  /\ confirm \in Confirmation \cup {NoConfirm}
  /\ (pairing = "awaiting") <=> (confirm \in Confirmation)
  /\ quiet \in Nat
  /\ pairDials \subseteq Nat
  /\ nextDial \in Nat
  /\ peers \in [Devices -> Links \cup {NoLink}]
  /\ question \in Links \cup {NoLink}
  /\ shown \subseteq Links

Init ==
  /\ links = [l \in Links |-> "fresh"]
  /\ left = [l \in Links |-> 0]
  /\ who = [l \in Links |-> NoDevice]
  /\ pairing = "idle"
  /\ window = 0
  /\ confirm = NoConfirm
  /\ quiet = 0
  /\ pairDials = {}
  /\ nextDial = 0
  /\ peers = [d \in Devices |-> NoLink]
  /\ question = NoLink
  /\ shown = {}

-----------------------------------------------------------------------------
(* The slot. *)

\* Slip: whether the slot is free is not looked at.
MayPairWhileOpen == AcceptPairRequests /\ quiet = 0

\* why_not_pair: the whole admission policy.
MayPair == AcceptPairRequests /\ pairing = "idle" /\ quiet = 0

\* begin_pairing: claim the slot before the first frame is answered.
BeginPairing ==
  /\ pairing' = "open"
  /\ window' = PairingWindow
  /\ UNCHANGED <<confirm, quiet>>

\* The slot goes back without a cooldown.
DropPairing ==
  /\ pairing' = "idle"
  /\ window' = 0
  /\ confirm' = NoConfirm

\* end_pairing: drop the slot and go quiet.
EndPairing(denied) ==
  /\ DropPairing
  /\ quiet' = IF denied THEN PairDeniedCooldown ELSE PairCooldown

KeepPairing == UNCHANGED <<pairing, window, confirm>>

\* Slip: the digits are never sent to the screen.
AskNobody(l) == UNCHANGED <<question, shown>>

\* UiEvent::PairingFailed and PairingComplete take the question down,
\* PairingSas replaces it.
CloseQuestion == question' = NoLink /\ UNCHANGED shown
AskQuestion(l) == question' = l /\ shown' = shown \cup {l}
KeepQuestion == UNCHANGED <<question, shown>>

\* fail_link, and the other places that drop a link from the table.
Remove(ls) ==
  /\ links' = [l \in Links |-> IF l \in ls THEN "gone" ELSE links[l]]
  /\ left' = [l \in Links |-> IF l \in ls THEN 0 ELSE left[l]]
  /\ who' = [l \in Links |-> IF l \in ls THEN NoDevice ELSE who[l]]

Put(l, state, time, device) ==
  /\ links' = [links EXCEPT ![l] = state]
  /\ left' = [left EXCEPT ![l] = time]
  /\ who' = [who EXCEPT ![l] = device]

-----------------------------------------------------------------------------
(* Links coming up. *)

\* LinkUp without a dial of ours that is still remembered.
LinkUpInbound(l) ==
  /\ links[l] = "fresh"
  /\ Put(l, "pending", HandshakeTimeout, NoDevice)
  /\ KeepPairing /\ KeepQuestion
  /\ UNCHANGED <<quiet, pairDials, nextDial, peers>>

\* LinkUp answering a pairing dial: XX message 1 goes out, whatever has
\* become of the slot that the dial was started for.
LinkUpPairDial(l, d) ==
  /\ links[l] = "fresh"
  /\ d \in pairDials
  /\ pairDials' = pairDials \ {d}
  /\ Put(l, "pairing", HandshakeTimeout, NoDevice)
  /\ KeepPairing /\ KeepQuestion
  /\ UNCHANGED <<quiet, nextDial, peers>>

DialFailed(d) ==
  /\ d \in pairDials
  /\ pairDials' = pairDials \ {d}
  /\ DropPairing
  /\ CloseQuestion
  /\ UNCHANGED <<links, left, who, quiet, nextDial, peers>>

-----------------------------------------------------------------------------
(* Frames on a link whose first frame has not arrived (on_first_frame). *)

\* A pairing opener that is not admitted, or anything that opens no
\* handshake at all: the link is closed and nothing else happens.
FirstFrameRefused(l) ==
  /\ links[l] = "pending"
  /\ Remove({l})
  /\ KeepPairing /\ KeepQuestion
  /\ UNCHANGED <<quiet, pairDials, nextDial, peers>>

\* An admitted opener that Noise cannot read still earns the cooldown.
PairOpenerUnreadable(l) ==
  /\ links[l] = "pending"
  /\ MayPair
  /\ quiet' = PairCooldown
  /\ Remove({l})
  /\ KeepPairing /\ KeepQuestion
  /\ UNCHANGED <<pairDials, nextDial, peers>>

PairOpener(l) ==
  /\ links[l] = "pending"
  /\ MayPair
  /\ BeginPairing
  /\ links' = [links EXCEPT ![l] = "pairing"]
  /\ KeepQuestion
  /\ UNCHANGED <<left, who, pairDials, nextDial, peers>>

\* A fresh session opener of a paired device: the link becomes a session.
SessionOpener(l, d) ==
  /\ links[l] = "pending"
  /\ peers[d] # NoLink
  /\ Put(l, "up", 0, d)
  /\ KeepPairing /\ KeepQuestion
  /\ UNCHANGED <<quiet, pairDials, nextDial, peers>>

-----------------------------------------------------------------------------
(* Frames on a pairing handshake (on_handshake_frame, pairing_completed).  *)

\* A frame that is malformed or of another kind: fail_link, slot kept.
HandshakeWrongKind(l) ==
  /\ links[l] = "pairing"
  /\ Remove({l})
  /\ KeepPairing /\ KeepQuestion
  /\ UNCHANGED <<quiet, pairDials, nextDial, peers>>

\* pairing_attempt_failed: Noise or the Hello cannot be read.
PairingAttemptFailed(l) ==
  /\ links[l] = "pairing"
  /\ Remove({l})
  /\ EndPairing(FALSE)
  /\ CloseQuestion
  /\ UNCHANGED <<pairDials, nextDial, peers>>

\* The last message of XX shows device d.  The link is parked in "pending"
\* under its own deadline while a person compares digits.
PairingCompleted(l, d) ==
  /\ links[l] = "pairing"
  /\ pairing = "open"
  /\ links' = [links EXCEPT ![l] = "pending"]
  /\ pairing' = "awaiting"
  /\ window' = PairingWindow
  /\ confirm' = [link |-> l, device |-> d]
  /\ AskQuestion(l)
  /\ UNCHANGED <<left, who, quiet, pairDials, nextDial, peers>>

\* The same message with no slot to take, or one already awaiting.
PairingCompletedTooLate(l) ==
  /\ links[l] = "pairing"
  /\ pairing # "open"
  /\ Remove({l})
  /\ KeepPairing /\ KeepQuestion
  /\ UNCHANGED <<quiet, pairDials, nextDial, peers>>

-----------------------------------------------------------------------------
(* Links going down (on_link_down).  Up links leave this model here.       *)

LinkDownHandshaking(l) ==
  /\ links[l] = "pairing"
  /\ Remove({l})
  /\ DropPairing
  /\ KeepQuestion
  /\ UNCHANGED <<quiet, pairDials, nextDial, peers>>

\* Slip: the parked link's end closing it cancels the confirmation.
LinkDownCancels(l) ==
  /\ links[l] \in {"pending", "up"}
  /\ Remove({l})
  /\ DropPairing /\ CloseQuestion
  /\ UNCHANGED <<quiet, pairDials, nextDial, peers>>

LinkDownOther(l) ==
  /\ links[l] \in {"pending", "up"}
  /\ Remove({l})
  /\ KeepPairing /\ KeepQuestion
  /\ UNCHANGED <<quiet, pairDials, nextDial, peers>>

-----------------------------------------------------------------------------
(* Local commands (on_local, confirm_pairing, handle_revoke). *)

RequestPairing ==
  /\ nextDial < MaxDials
  /\ MayPair
  /\ BeginPairing
  /\ nextDial' = nextDial + 1
  /\ pairDials' = pairDials \cup {nextDial + 1}
  /\ KeepQuestion
  /\ UNCHANGED <<links, left, who, peers>>

\* Refused: PairingFailed says why, and takes any question down with it.
RequestPairingRefused ==
  /\ ~MayPair
  /\ CloseQuestion
  /\ KeepPairing
  /\ UNCHANGED <<links, left, who, quiet, pairDials, nextDial, peers>>

ConfirmDenied ==
  /\ pairing = "awaiting"
  /\ Remove({confirm.link})
  /\ EndPairing(TRUE)
  /\ CloseQuestion
  /\ UNCHANGED <<pairDials, nextDial, peers>>

ConfirmAccepted ==
  /\ pairing = "awaiting"
  /\ peers' = [peers EXCEPT ![confirm.device] = confirm.link]
  /\ Remove({confirm.link})
  /\ DropPairing
  /\ CloseQuestion
  /\ UNCHANGED <<quiet, pairDials, nextDial>>

Revoke(d) ==
  /\ peers[d] # NoLink
  /\ peers' = [peers EXCEPT ![d] = NoLink]
  /\ Remove({l \in Links : links[l] = "up" /\ who[l] = d})
  /\ KeepPairing /\ KeepQuestion
  /\ UNCHANGED <<quiet, pairDials, nextDial>>

-----------------------------------------------------------------------------
(* Time and the tick (on_tick). *)

Stale == {l \in Links : links[l] \in {"pending", "pairing"} /\ left[l] = 0}
\* Slip: only a slot nobody answered on lapses.
LapsedBeforeDigits == pairing = "open" /\ window = 0
Lapsed == pairing # "idle" /\ window = 0

\* Nobody answered in time: the slot, the parked link and every link whose
\* handshake ran out of time go in the same call.
TickLapsed ==
  /\ Lapsed
  /\ Remove(Stale \cup (IF pairing = "awaiting" THEN {confirm.link} ELSE {}))
  /\ EndPairing(FALSE)
  /\ CloseQuestion
  /\ UNCHANGED <<pairDials, nextDial, peers>>

TickStale ==
  /\ ~Lapsed
  /\ Stale # {}
  /\ Remove(Stale)
  /\ KeepPairing /\ KeepQuestion
  /\ UNCHANGED <<quiet, pairDials, nextDial, peers>>

Down(n) == IF n = 0 THEN 0 ELSE n - 1

\* The host's monotonic clock moves on; a suspended phone or a busy daemon
\* lets it run past a deadline before the tick is handled.
Pass ==
  /\ LateTicks \/ (~Lapsed /\ Stale = {})
  /\ window' = Down(window)
  /\ quiet' = Down(quiet)
  /\ left' = [l \in Links |-> Down(left[l])]
  /\ UNCHANGED <<links, who, pairing, confirm, pairDials, nextDial, peers>>
  /\ KeepQuestion

-----------------------------------------------------------------------------
LinkEvent(l) ==
  \/ LinkUpInbound(l)
  \/ \E d \in pairDials : LinkUpPairDial(l, d)
  \/ FirstFrameRefused(l)
  \/ PairOpenerUnreadable(l)
  \/ PairOpener(l)
  \/ \E d \in Devices : SessionOpener(l, d)
  \/ HandshakeWrongKind(l)
  \/ PairingAttemptFailed(l)
  \/ \E d \in Devices : PairingCompleted(l, d)
  \/ PairingCompletedTooLate(l)
  \/ LinkDownHandshaking(l)
  \/ LinkDownOther(l)

Local ==
  \/ RequestPairing
  \/ RequestPairingRefused
  \/ ConfirmDenied
  \/ ConfirmAccepted
  \/ \E d \in Devices : Revoke(d)

Tick == TickLapsed \/ TickStale

Next ==
  \/ \E l \in Links : LinkEvent(l)
  \/ \E d \in pairDials : DialFailed(d)
  \/ Local
  \/ Tick
  \/ Pass

Spec == Init /\ [][Next]_vars

\* The runtime sleeps to the earliest deadline and then ticks, and the
\* clock does not stop.  Nothing else is promised: people, peers and
\* transports may all stay silent.
Fairness == WF_vars(Tick) /\ WF_vars(Pass)
FairSpec == Spec /\ Fairness
-----------------------------------------------------------------------------
(* Properties. *)

\* An open pairing slot means the device is not cooling down: nothing that
\* starts a cooldown (end_pairing, an unreadable opener) may leave a slot
\* behind it, and nothing may claim the slot inside one (why_not_pair).
QuietWhileIdle == pairing # "idle" => quiet = 0

\* on_link_down says a link still handshaking "can never be the one awaiting
\* confirmation"; nor can it be one a transport has yet to hand out.
AwaitingIsParked ==
  pairing = "awaiting" => links[confirm.link] \notin {"pairing", "fresh"}

\* A device is in the trust store only with the key of a handshake whose
\* digits were put on the screen; the awaiting one is among them.
PairedWasShown ==
  /\ \A d \in Devices : peers[d] # NoLink => peers[d] \in shown
  /\ pairing = "awaiting" => confirm.link \in shown

\* "A pending confirmation is never replaced: a second handshake must not
\* swap the SAS a human is comparing" (PairingWindow): the question on the
\* screen is taken down before another one is put up.
NeverSwapped == [][question # NoLink => question' \in {question, NoLink}]_vars

\* The same for a device that is only ever asked.  A dial of ours that
\* answers after its window lapsed is what breaks it elsewhere.
NeverSwappedIfAsked ==
  [][nextDial = 0 /\ question # NoLink => question' \in {question, NoLink}]_vars

\* On such a device a confirmation ends by a person's answer or by its
\* deadline, never because a link closed, and unless they approved it the
\* device then cools down: one dialog per cooldown.
ConfirmationEnds ==
  [][nextDial = 0 /\ pairing = "awaiting" /\ confirm' # confirm =>
       \/ ConfirmAccepted
       \/ quiet' >= PairCooldown /\ (ConfirmDenied \/ window = 0)]_vars

\* Whoever holds the slot, it comes back: no handshake, dial or person that
\* stays silent blocks pairing for good.
SlotComesBack == pairing # "idle" ~> pairing = "idle"
=============================================================================
