------------------------------ MODULE Dialling ------------------------------
(***************************************************************************)
(* How acrylius-core reaches one paired device: the routes it knows, the   *)
(* attempts under way, the sessions that are up and what it tells the      *)
(* person (core.rs: connect_peer, try_next_route, adopt_attempt,           *)
(* on_link_up, on_link_down, on_tick, handle_revoke and discovery).        *)
(*                                                                         *)
(* Abstractions.  The tables of core.rs are keyed by device and this       *)
(* module follows one entry of each.  An attempt is one walk down a route  *)
(* list: an entry of pending_peer_dials while it dials, the `fallback` of  *)
(* a handshaking link once the dial connected.  Dial tokens are forgotten  *)
(* when they are answered or expire, so an attempt is named by a slot.     *)
(* Routes are kept in preference order, so the routes left to try are a    *)
(* set and the next one is its least transport.  Deadlines are the time    *)
(* left, as in Pairing.  Inbound links are invisible here until their      *)
(* opener is accepted.  A peer never opens a session on a link it paired   *)
(* over, so confirm_pairing closes no session.                             *)
(***************************************************************************)
EXTENDS Naturals, FiniteSetsExt

CONSTANTS
  Transports,        \* transport ids, in preference order: lower is better
  PerTransport,      \* bound: links of one transport at a time
  Slots,             \* bound: attempts under way at a time
  NoLink,
  DialTimeout,       \* config.dial_timeout_ms
  HandshakeTimeout,  \* config.handshake_timeout_ms
  ReconnectEvery,    \* config.reconnect_every_ms
  MalformedFrames    \* whether a link may deliver a frame without a kind

\* Transport ids are ordered, so every list of routes has a first one.
ASSUME TransportsAssumption ==
  /\ Transports \subseteq Nat
  /\ \A ts \in SUBSET Transports : ts # {} => Min(ts) \in ts

ASSUME ConfigAssumption ==
  /\ DialTimeout \in Nat \ {0}
  /\ HandshakeTimeout \in Nat \ {0}
  /\ ReconnectEvery \in Nat \ {0}
  /\ PerTransport \in Nat
  /\ MalformedFrames \in BOOLEAN

\* LinkId::new: the transport in the high bits, its own counter below.
Links == Transports \X (1 .. PerTransport)

ASSUME NoLinkAssumption == NoLink \notin Links

VARIABLES
  paired,    \* peers has a record for the device
  addrs,     \* transports `addrs` has an address on
  seen,      \* transports its sighting has an address on
  attempts,  \* the attempts under way
  up,        \* established links
  freshest,  \* best_link: the one of them heard from last
  retry,     \* time left to reconnect_at
  trouble,   \* dial_trouble has an entry
  told,      \* host: last PeerReachable or PeerUnreachable
  asked      \* host: a person asked to connect and awaits one of these

vars == <<paired, addrs, seen, attempts, up, freshest, retry, trouble, told,
          asked>>

Attempt ==
  {a \in [phase : {"none", "dialling", "shaking"},
          via : Transports \cup {0},
          rest : SUBSET Transports,
          hand : BOOLEAN,
          link : Links \cup {NoLink},
          left : Nat] :
     a.phase = "shaking" => a.link \in Links}

NoAttempt == [phase |-> "none", via |-> 0, rest |-> {}, hand |-> FALSE,
              link |-> NoLink, left |-> 0]

(* Tables hold what struct Core can hold, and there is a best link exactly *)
(* when there is a link.                                                   *)
TypeOK ==
  /\ paired \in BOOLEAN
  /\ addrs \subseteq Transports
  /\ seen \subseteq Transports
  /\ attempts \in [Slots -> Attempt]
  /\ up \subseteq Links
  /\ freshest \in up \/ (up = {} /\ freshest = NoLink)
  /\ retry \in Nat
  /\ trouble \in BOOLEAN
  /\ told \in {"reachable", "unreachable"}
  /\ asked \in BOOLEAN

\* A start with peers loaded from the store: nothing is known but the record.
Init ==
  /\ paired \in BOOLEAN
  /\ addrs = {}
  /\ seen = {}
  /\ attempts = [k \in Slots |-> NoAttempt]
  /\ up = {}
  /\ freshest = NoLink
  /\ retry = 0
  /\ trouble = FALSE
  /\ told = "unreachable"
  /\ asked = FALSE

-----------------------------------------------------------------------------
(* Reading the tables. *)

Dialling == \E k \in Slots : attempts[k].phase = "dialling"
Shaking == {attempts[k].link : k \in {j \in Slots : attempts[j].phase = "shaking"}}
Before(l, m) == l[1] < m[1] \/ (l[1] = m[1] /\ l[2] < m[2])

\* peer_state: the first link in id order decides, then any dial.
PeerState ==
  IF \E l \in Shaking : \A m \in up : Before(l, m) THEN "connecting"
  ELSE IF up # {} THEN "reachable"
  ELSE IF Dialling THEN "connecting" ELSE "unreachable"

\* The last address that worked first, then whatever discovery has shown.
Known(as, ss) == IF as # {} THEN as ELSE IF paired THEN ss ELSE {}

-----------------------------------------------------------------------------
(* What several handlers do. *)

Tell(state) == told' = state /\ asked' = FALSE
SayNothing == UNCHANGED <<told, asked>>

NewDial(routes, hand) ==
  [phase |-> "dialling", via |-> Min(routes), rest |-> routes \ {Min(routes)},
   hand |-> hand, link |-> NoLink, left |-> DialTimeout]

\* try_next_route on one attempt: gone when something else got there or the
\* list is spent, else the next route is dialled.
Advance(a) ==
  IF up # {} \/ a.rest = {} THEN NoAttempt ELSE NewDial(a.rest, a.hand)

GivesUp(a) == up = {} /\ a.rest = {}

\* try_next_route on every attempt in ks, as one handler may do it to several.
TryNextRoutes(ks) ==
  /\ attempts' = [k \in Slots |-> IF k \in ks THEN Advance(attempts[k]) ELSE attempts[k]]
  /\ trouble' = (trouble \/ \E k \in ks : GivesUp(attempts[k]))
  /\ IF \E k \in ks : GivesUp(attempts[k]) /\ attempts[k].hand
     THEN Tell("unreachable") ELSE SayNothing

\* connect_peer for nobody in particular (`by_hand` is false).
ConnectAutomatically(routes) ==
  LET better == {t \in routes : t < freshest[1]}
      start(ts) == \E k \in Slots :
                     /\ attempts[k].phase = "none"
                     /\ attempts' = [attempts EXCEPT ![k] = NewDial(ts, FALSE)]
      idle == UNCHANGED attempts
  IN /\ CASE Dialling \/ PeerState = "connecting" -> idle /\ UNCHANGED trouble
          [] ~Dialling /\ PeerState = "reachable" ->
               (IF better # {} THEN start(better) ELSE idle) /\ UNCHANGED trouble
          [] ~Dialling /\ PeerState = "unreachable" ->
               IF routes # {} THEN start(routes) /\ UNCHANGED trouble
               ELSE idle /\ trouble' = TRUE
     /\ SayNothing

\* finish_session: the link joins the table as the one heard from last.
Established(l) ==
  /\ up' = up \cup {l}
  /\ freshest' = l
  /\ trouble' = FALSE
  /\ Tell("reachable")

\* Slip: the retry timer is left where it was.
LoseLinksUntimed(ls) ==
  /\ up' = up \ ls
  /\ IF up' = {} THEN freshest' = NoLink
     ELSE IF freshest \in ls THEN freshest' \in up' ELSE UNCHANGED freshest
  /\ IF up' = {} THEN Tell("unreachable") ELSE Tell("reachable")
  /\ UNCHANGED retry

\* on_link_down for established links.  Which of the others was heard from
\* last is left open.
LoseLinks(ls) ==
  /\ up' = up \ ls
  /\ IF up' = {} THEN freshest' = NoLink
     ELSE IF freshest \in ls THEN freshest' \in up' ELSE UNCHANGED freshest
  /\ IF up' = {} THEN Tell("unreachable") /\ retry' = 0
     ELSE Tell("reachable") /\ UNCHANGED retry

\* A link id no live link has, above every live one of its transport.
Unused(l) ==
  \A m \in up \cup Shaking : m[1] = l[1] => m[2] < l[2]

-----------------------------------------------------------------------------
(* Discovery and local commands. *)

\* Event::Discovered for this device.
Sighted(t) ==
  /\ seen' = seen \cup {t}
  /\ IF paired
     THEN /\ addrs' = addrs \cup {t}
          /\ ConnectAutomatically(addrs \cup {t})
     ELSE UNCHANGED <<addrs, attempts, trouble, told, asked>>
  /\ UNCHANGED <<paired, up, freshest, retry>>

\* Event::Undiscovered, or the table cleared at MAX_SEEN: never `addrs`.
Withdrawn(ts) ==
  /\ ts # {} /\ ts \subseteq seen
  /\ seen' = seen \ ts
  /\ UNCHANGED <<paired, addrs, attempts, up, freshest, retry, trouble, told, asked>>

SetPeerAddress(t) ==
  /\ paired
  /\ addrs' = addrs \cup {t}
  /\ UNCHANGED <<paired, seen, attempts, up, freshest, retry, trouble, told, asked>>

\* LocalCommand::Connect, by what connect_peer finds.
ConnectReachable ==
  /\ PeerState = "reachable"
  /\ Tell("reachable")
  /\ UNCHANGED <<paired, addrs, seen, attempts, up, freshest, retry, trouble>>

\* The attempt in flight is adopted, so that its end is announced.
ConnectAdopts ==
  /\ PeerState = "connecting"
  /\ attempts' = [k \in Slots |->
       IF attempts[k].phase = "none" THEN NoAttempt
       ELSE [attempts[k] EXCEPT !.hand = TRUE]]
  /\ asked' = TRUE
  /\ UNCHANGED <<paired, addrs, seen, up, freshest, retry, trouble, told>>

ConnectDials ==
  /\ PeerState = "unreachable"
  /\ Known(addrs, seen) # {}
  /\ \E k \in Slots :
       /\ attempts[k].phase = "none"
       /\ attempts' = [attempts EXCEPT ![k] = NewDial(Known(addrs, seen), TRUE)]
  /\ asked' = TRUE
  /\ UNCHANGED <<paired, addrs, seen, up, freshest, retry, trouble, told>>

ConnectNowhere ==
  /\ PeerState = "unreachable"
  /\ Known(addrs, seen) = {}
  /\ trouble' = TRUE
  /\ Tell("unreachable")
  /\ UNCHANGED <<paired, addrs, seen, attempts, up, freshest, retry>>

ReconsiderRoutes ==
  /\ paired
  /\ ConnectAutomatically(Known(addrs, seen))
  /\ UNCHANGED <<paired, addrs, seen, up, freshest, retry>>

Disconnect ==
  /\ up # {}
  /\ LoseLinks(up)
  /\ UNCHANGED <<paired, addrs, seen, attempts, trouble>>

\* confirm_pairing: the address dialled, or what discovery has shown.
Pair ==
  /\ paired' = TRUE
  /\ \/ \E t \in Transports : addrs' = addrs \cup {t}
     \/ addrs' = addrs \cup seen
  /\ retry' = 0
  /\ UNCHANGED <<seen, attempts, up, freshest, trouble, told, asked>>

\* handle_revoke: the record first, then its sessions.  Attempts stay.
Revoke ==
  /\ paired' = FALSE /\ addrs' = {} /\ trouble' = FALSE
  /\ IF up # {} THEN LoseLinks(up)
     ELSE asked' = FALSE /\ UNCHANGED <<up, freshest, retry, told>>
  /\ UNCHANGED <<seen, attempts>>

-----------------------------------------------------------------------------
(* Links and dials. *)

\* The dial connected: the attempt goes on as a handshake.  With the record
\* gone it ends there.
LinkUpDialled(k, l) ==
  /\ attempts[k].phase = "dialling"
  /\ l[1] = attempts[k].via
  /\ Unused(l)
  /\ attempts' = [attempts EXCEPT ![k] =
       IF paired THEN [@ EXCEPT !.phase = "shaking", !.link = l, !.left = HandshakeTimeout]
       ELSE NoAttempt]
  /\ UNCHANGED <<paired, addrs, seen, up, freshest, retry, trouble, told, asked>>

DialFailed(k) ==
  /\ attempts[k].phase = "dialling"
  /\ TryNextRoutes({k})
  /\ UNCHANGED <<paired, addrs, seen, up, freshest, retry>>

\* An inbound opener that decrypts, is known and is fresh.
InboundSession(l) ==
  /\ paired
  /\ Unused(l)
  /\ Established(l)
  /\ UNCHANGED <<paired, addrs, seen, attempts, retry>>

\* Slip: the record is not looked up again when the answer arrives.
HandshakeDoneUnchecked(k) ==
  /\ attempts[k].phase = "shaking"
  /\ attempts' = [attempts EXCEPT ![k] = NoAttempt]
  /\ Established(attempts[k].link)
  /\ UNCHANGED <<paired, addrs, seen, retry>>

\* Message 2 is good; accept_hello and finish_session look the record up.
HandshakeDone(k) ==
  /\ attempts[k].phase = "shaking"
  /\ paired
  /\ attempts' = [attempts EXCEPT ![k] = NoAttempt]
  /\ Established(attempts[k].link)
  /\ UNCHANGED <<paired, addrs, seen, retry>>

\* fail_link: message 2 is unreadable, stale, of the wrong kind, or from a
\* device revoked meanwhile.  The routes not tried yet go with the link.
HandshakeRefused(k) ==
  /\ attempts[k].phase = "shaking"
  /\ attempts' = [attempts EXCEPT ![k] = NoAttempt]
  /\ UNCHANGED <<paired, addrs, seen, up, freshest, retry, trouble, told, asked>>

LinkDownHandshaking(k) ==
  /\ attempts[k].phase = "shaking"
  /\ TryNextRoutes({k})
  /\ UNCHANGED <<paired, addrs, seen, up, freshest, retry>>

\* Slip: the loss is announced although another link is up.
LinkDownAlwaysTold(l) ==
  /\ l \in up
  /\ up' = up \ {l}
  /\ IF up' = {} THEN freshest' = NoLink
     ELSE IF freshest = l THEN freshest' \in up' ELSE UNCHANGED freshest
  /\ Tell("unreachable") /\ retry' = 0
  /\ UNCHANGED <<paired, addrs, seen, attempts, trouble>>

\* LinkDown of a session, or a frame it cannot decrypt (fail_up_link).
LinkDownUp(l) ==
  /\ l \in up
  /\ LoseLinks({l})
  /\ UNCHANGED <<paired, addrs, seen, attempts, trouble>>

\* A frame that decrypts makes its link the one heard from last.
Received(l) ==
  /\ l \in up
  /\ freshest' = l
  /\ UNCHANGED <<paired, addrs, seen, attempts, up, retry, trouble, told, asked>>

\* A frame without a kind on a session: on_link_recv calls fail_link, which
\* takes the link out of the table and says no more.
MalformedOnUp(l) ==
  /\ MalformedFrames
  /\ l \in up
  /\ up' = up \ {l}
  /\ IF up' = {} THEN freshest' = NoLink
     ELSE IF freshest = l THEN freshest' \in up' ELSE UNCHANGED freshest
  /\ UNCHANGED <<paired, addrs, seen, attempts, retry, trouble, told, asked>>

-----------------------------------------------------------------------------
(* Time and the tick. *)

Expired == {k \in Slots : attempts[k].phase # "none" /\ attempts[k].left = 0}

\* Slip: only what discovery shows now is retried.
RetryDueIfSeen == retry = 0 /\ paired /\ up = {} /\ seen # {} /\ addrs # {}

\* The tick retries a device with no session and somewhere to dial.
RetryDue == retry = 0 /\ paired /\ up = {} /\ addrs # {}

\* on_tick: expired handshakes and dials move on, then the retry, which
\* connect_peer drops when one of them is still under way.
Tick ==
  /\ Expired # {} \/ retry = 0
  /\ LET moved == [k \in Slots |->
           IF k \in Expired THEN Advance(attempts[k]) ELSE attempts[k]]
         idle == \A k \in Slots : moved[k].phase = "none"
     IN IF RetryDue /\ idle
        THEN \E k \in Slots : attempts' = [moved EXCEPT ![k] = NewDial(addrs, FALSE)]
        ELSE attempts' = moved
  /\ trouble' = (trouble \/ \E k \in Expired : GivesUp(attempts[k]))
  /\ IF \E k \in Expired : GivesUp(attempts[k]) /\ attempts[k].hand
     THEN Tell("unreachable") ELSE SayNothing
  /\ retry' = IF retry = 0 THEN ReconnectEvery ELSE retry
  /\ UNCHANGED <<paired, addrs, seen, up, freshest>>

Down(n) == IF n = 0 THEN 0 ELSE n - 1

Pass ==
  /\ retry' = Down(retry)
  /\ attempts' = [k \in Slots |-> [attempts[k] EXCEPT !.left = Down(@)]]
  /\ UNCHANGED <<paired, addrs, seen, up, freshest, trouble, told, asked>>

-----------------------------------------------------------------------------
Local ==
  \/ \E t \in Transports : SetPeerAddress(t)
  \/ ConnectReachable \/ ConnectAdopts \/ ConnectDials \/ ConnectNowhere
  \/ ReconsiderRoutes
  \/ Disconnect
  \/ Pair
  \/ Revoke

Discovery ==
  \/ \E t \in Transports : Sighted(t)
  \/ \E ts \in SUBSET Transports : Withdrawn(ts)

AttemptEvent(k) ==
  \/ \E l \in Links : LinkUpDialled(k, l)
  \/ DialFailed(k)
  \/ HandshakeDone(k)
  \/ HandshakeRefused(k)
  \/ LinkDownHandshaking(k)

LinkEvent(l) ==
  \/ InboundSession(l)
  \/ LinkDownUp(l)
  \/ Received(l)
  \/ MalformedOnUp(l)

Next ==
  \/ Local
  \/ Discovery
  \/ \E k \in Slots : AttemptEvent(k)
  \/ \E l \in Links : LinkEvent(l)
  \/ Tick
  \/ Pass

Spec == Init /\ [][Next]_vars

\* The runtime ticks at the earliest deadline and the clock does not stop.
FairSpec == Spec /\ WF_vars(Tick) /\ WF_vars(Pass)

-----------------------------------------------------------------------------
(* Properties. *)

\* There is no session with a device that is not paired, whatever a revoke
\* raced with: a dial, a handshake half way, or several live links.
UpIsPaired == up # {} => paired

\* dial_trouble says why a device cannot be reached, so there is none while
\* it is reachable over any link.
TroubleMeansDown == trouble => up = {}

\* What the screen was last told is how things are: losing one of two links
\* is not losing the device, and losing the last one is never silent
\* ("`fail_link` alone can't", says fail_up_link).
ToldIsTrue == told = "reachable" <=> up # {}

\* A device with a session is never shown as gone, whatever ended beside it:
\* another link, a walk down the routes, an adopted attempt.
UpIsTold == up # {} => told = "reachable"

\* A frame without a kind is the one way to lose the last session without
\* the screen and the retry timer hearing of it.
LossIsTold ==
  [][up # {} /\ up' = {} =>
       \/ told' = "unreachable" /\ retry' = 0
       \/ \E l \in up : MalformedOnUp(l)]_vars

\* A paired device with an address and no session is dialled again, however
\* the last attempt ended: sightings are not guaranteed to repeat.
KeepsTrying ==
  (paired /\ addrs # {} /\ up = {})
    ~> (up # {} \/ ~paired \/ Dialling)

\* connect_peer adopts the attempt in flight "for a person who asked, so it
\* says how it ended": who asks is told.
AskedIsAnswered == asked ~> ~asked
=============================================================================
