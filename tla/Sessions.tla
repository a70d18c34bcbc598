------------------------------ MODULE Sessions ------------------------------
(***************************************************************************)
(* Two devices and the sessions between them: which link a message takes,  *)
(* the cipher counters at both ends of every link, and the session a file  *)
(* transfer's key comes from (acrylius-core core.rs: finish_session,       *)
(* on_transport_frame, dispatch_send, best_link, fail_up_link,             *)
(* dispatch_bulk; noise.rs; plugins/share.rs).                             *)
(*                                                                         *)
(* Abstractions.  A link is the same pair at both ends, its transport and  *)
(* a number that grows with age, and delivers in order until either end    *)
(* loses it.  A ciphertext is the counter it was sealed under.  A message  *)
(* is whether it is large and what the share plugin makes of it.  A        *)
(* handler sends at most one message; several are several local sends at   *)
(* once.  Sends of a capability that is not negotiated change nothing and  *)
(* are left out.  One file is offered, by Offerer, and accepted once.      *)
(***************************************************************************)
EXTENDS Naturals, Sequences

CONSTANTS
  Transports,    \* transport ids, lower is better
  Narrow,        \* those a large message does not fit (max_message)
  NoBulk,        \* those without a side channel (BulkSupport::None)
  PerTransport,  \* bound: links of one transport
  NoLink,
  Ties,          \* whether an end may hear two frames in one millisecond
  MaxSealed,     \* bound: messages sealed on one link by one end
  MaxNow         \* bound: last readings of both monotonic clocks, added up

ASSUME ConfigAssumption ==
  /\ Transports \subseteq Nat
  /\ Narrow \subseteq Transports
  /\ NoBulk \subseteq Transports
  /\ PerTransport \in Nat
  /\ Ties \in BOOLEAN
  /\ MaxSealed \in Nat
  /\ MaxNow \in Nat

Ends == {1, 2}
Other(e) == 3 - e
Offerer == 1
Taker == 2

Links == Transports \X (1 .. PerTransport)

ASSUME NoLinkAssumption == NoLink \notin Links

VARIABLES
  state,    \* state[e][l]: "none", "shaking", "up" or "gone" at end e
  heard,    \* heard[e][l]: last_recv_ms
  sealed,   \* sealed[e][l]: counter of the sending cipher
  opened,   \* opened[e][l]: counter of the receiving cipher
  wire,     \* wire[e][l]: frames on their way to end e
  now,      \* now[e]: the host's monotonic clock
  share,    \* share[e]: the share plugin's entry for the one transfer
  key,      \* key[e]: the session its bulk key was derived from
  refused,  \* history: links an end refused a sealed message on
  lone      \* history: no end ever had two sessions at a time

vars == <<state, heard, sealed, opened, wire, now, share, key, refused, lone>>

Bodies == {"plain", "offer", "accept"}
Message == [large : BOOLEAN, body : Bodies]
Small(b) == [large |-> FALSE, body |-> b]
Plain == {[large |-> b, body |-> "plain"] : b \in BOOLEAN}

\* Message 2 of the handshake, and what a session carries.
Answer == [kind |-> "handshake", counter |-> 0, body |-> "plain"]
Frame == [kind : {"handshake", "transport"}, counter : Nat, body : Bodies]

(* Tables hold what their fields can hold, and nobody is asked about, or    *)
(* bound for, an offer of a device that has gone.                          *)
TypeOK ==
  /\ state \in [Ends -> [Links -> {"none", "shaking", "up", "gone"}]]
  /\ heard \in [Ends -> [Links -> Nat]]
  /\ sealed \in [Ends -> [Links -> Nat]]
  /\ opened \in [Ends -> [Links -> Nat]]
  /\ wire \in [Ends -> [Links -> Seq(Frame)]]
  /\ now \in [Ends -> Nat]
  /\ share \in [Ends -> {"none", "waiting", "binding", "keyed", "dropped"}]
  /\ key \in [Ends -> Links \cup {NoLink}]
  /\ refused \in [Ends -> SUBSET Links]
  /\ lone \in BOOLEAN
  /\ share[Taker] \in {"waiting", "binding"} => \E l \in Links : state[Taker][l] = "up"

Init ==
  /\ state = [e \in Ends |-> [l \in Links |-> "none"]]
  /\ heard = [e \in Ends |-> [l \in Links |-> 0]]
  /\ sealed = [e \in Ends |-> [l \in Links |-> 0]]
  /\ opened = [e \in Ends |-> [l \in Links |-> 0]]
  /\ wire = [e \in Ends |-> [l \in Links |-> <<>>]]
  /\ now = [e \in Ends |-> 1]
  /\ share = [e \in Ends |-> "none"]
  /\ key = [e \in Ends |-> NoLink]
  /\ refused = [e \in Ends |-> {}]
  /\ lone = TRUE

-----------------------------------------------------------------------------
(* Choosing a link. *)

UpAt(st, e) == {l \in Links : st[e][l] = "up"}

\* Most recently heard from, then the better transport, then the newer link.
Preferred(hd, e, l, m) ==
  \/ hd[e][l] > hd[e][m]
  \/ hd[e][l] = hd[e][m] /\ l[1] < m[1]
  \/ hd[e][l] = hd[e][m] /\ l[1] = m[1] /\ l[2] > m[2]

\* best_link: the one link preferred to all others, if there is any.
BestLink(st, hd, e) ==
  {l \in UpAt(st, e) : \A m \in UpAt(st, e) \ {l} : Preferred(hd, e, l, m)}

\* last_recv_ms of link l becomes now.
Hear(e, l) ==
  /\ Ties \/ \A m \in Links : heard[e][m] < now[e]
  /\ heard' = [heard EXCEPT ![e][l] = now[e]]

-----------------------------------------------------------------------------
(* Sending. *)

\* The transport has the frame; it arrives if the other end has the link.
Carry(st, e, l, w, frame) ==
  IF st[Other(e)][l] = "gone" THEN w
  ELSE [w EXCEPT ![Other(e)][l] = Append(@, frame)]

\* dispatch_send on link l, with `w` on the wires so far: the message is
\* sealed, which moves the counter, and only then measured.
SendOn(e, st, l, w, m) ==
  /\ sealed[e][l] < MaxSealed
  /\ sealed' = [sealed EXCEPT ![e][l] = @ + 1]
  /\ IF m.large /\ l[1] \in Narrow
     THEN refused' = [refused EXCEPT ![e] = @ \cup {l}] /\ wire' = w
     ELSE /\ wire' = Carry(st, e, l, w,
                      [kind |-> "transport", counter |-> sealed[e][l], body |-> m.body])
          /\ UNCHANGED refused

\* dispatch_send: with no session the host hears PeerUnreachable.
DispatchSend(e, st, hd, w, m) ==
  \/ UpAt(st, e) = {} /\ wire' = w /\ UNCHANGED <<sealed, refused>>
  \/ \E l \in BestLink(st, hd, e) : SendOn(e, st, l, w, m)

\* What a plugin sends from inside a handler, if anything.
MaybeSend(e, st, hd, w) ==
  \/ wire' = w /\ UNCHANGED <<sealed, refused>>
  \/ \E m \in Plain : DispatchSend(e, st, hd, w, m)

StillLone(st) ==
  lone' = (lone /\ \A e \in Ends : \A l, m \in UpAt(st, e) : l = m)

-----------------------------------------------------------------------------
(* Sessions begin (on_first_frame, on_handshake_frame, finish_session). *)

\* Slip: what plugins send on a new session overtakes message 2.
RespondAfterPlugins(e, l) ==
  LET st == [state EXCEPT ![e][l] = "up", ![Other(e)][l] = "shaking"]
  IN /\ state[e][l] = "none" /\ state[Other(e)][l] = "none"
     /\ state' = st
     /\ Hear(e, l)
     /\ sealed[e][l] < MaxSealed
     /\ sealed' = [sealed EXCEPT ![e][l] = @ + 1]
     /\ wire' = [wire EXCEPT ![Other(e)][l] =
                   <<[kind |-> "transport", counter |-> 0, body |-> "plain"], Answer>>]
     /\ StillLone(st)
     /\ UNCHANGED <<opened, now, share, key, refused>>

\* The responder takes message 1, answers it and is up; then plugins hear
\* of the session and may send on it.
Respond(e, l) ==
  LET st == [state EXCEPT ![e][l] = "up", ![Other(e)][l] = "shaking"]
      w == [wire EXCEPT ![Other(e)][l] = Append(@, Answer)]
  IN /\ state[e][l] = "none" /\ state[Other(e)][l] = "none"
     /\ state' = st
     /\ Hear(e, l)
     /\ MaybeSend(e, st, heard', w)
     /\ StillLone(st)
     /\ UNCHANGED <<opened, now, share, key>>

\* The initiator reads message 2.
Finish(e, l) ==
  LET st == [state EXCEPT ![e][l] = "up"]
      w == [wire EXCEPT ![e][l] = Tail(@)]
  IN /\ state[e][l] = "shaking"
     /\ wire[e][l] # <<>> /\ Head(wire[e][l]).kind = "handshake"
     /\ state' = st
     /\ Hear(e, l)
     /\ MaybeSend(e, st, heard', w)
     /\ StillLone(st)
     /\ UNCHANGED <<opened, now, share, key>>

-----------------------------------------------------------------------------
(* Sessions end. *)

\* The UpLink goes, its ciphers with it, and what was on the way to it.
Forget(e, l) ==
  /\ heard' = [heard EXCEPT ![e][l] = 0]
  /\ sealed' = [sealed EXCEPT ![e][l] = 0]
  /\ opened' = [opened EXCEPT ![e][l] = 0]
  /\ wire' = [wire EXCEPT ![e][l] = <<>>]

\* Slip: what waits on a device outlives the last session with it.
DropKeeping(e, l) ==
  /\ state' = [state EXCEPT ![e][l] = "gone"]
  /\ Forget(e, l)
  /\ UNCHANGED <<now, share, key, refused, lone>>

\* The link leaves the table; with the last one the share plugin forgets
\* what it was waiting for (on_peer_disconnected).
Drop(e, l) ==
  LET st == [state EXCEPT ![e][l] = "gone"] IN
  /\ state' = st
  /\ Forget(e, l)
  /\ share' = IF state[e][l] = "up" /\ UpAt(st, e) = {} /\ share[e] # "none"
               THEN [share EXCEPT ![e] = "dropped"] ELSE share
  /\ UNCHANGED <<now, key, refused, lone>>

\* on_link_down, for either end in its own time.
LinkDown(e, l) ==
  /\ state[e][l] \in {"shaking", "up"}
  /\ Drop(e, l)

\* The next frame is the one this end is waiting for.
Readable(e, l) ==
  LET f == Head(wire[e][l]) IN
  \/ state[e][l] = "shaking" /\ f.kind = "handshake"
  \/ state[e][l] = "up" /\ f.kind = "transport" /\ f.counter = opened[e][l]

\* fail_up_link, or fail_link while shaking: any other frame ends the link.
Undecryptable(e, l) ==
  /\ state[e][l] \in {"shaking", "up"}
  /\ wire[e][l] # <<>>
  /\ ~Readable(e, l)
  /\ Drop(e, l)

-----------------------------------------------------------------------------
(* Frames (on_transport_frame), by what is in them. *)

Take(e, l, body) ==
  /\ state[e][l] = "up"
  /\ wire[e][l] # <<>>
  /\ Readable(e, l)
  /\ Head(wire[e][l]).body = body
  /\ opened' = [opened EXCEPT ![e][l] = @ + 1]
  /\ Hear(e, l)
  /\ UNCHANGED <<state, now, lone>>

Without(e, l) == [wire EXCEPT ![e][l] = Tail(@)]

Receive(e, l) ==
  /\ Take(e, l, "plain")
  /\ MaybeSend(e, state, heard', Without(e, l))
  /\ UNCHANGED <<share, key>>

\* bulk_support_for: any link with a side channel will do.
CanBulk(e) == \E l \in UpAt(state, e) : l[1] \notin NoBulk

\* handshake_hash_for: the key comes from the link a message would take.
DeriveKey(e, hd) ==
  \E l \in BestLink(state, hd, e) : key' = [key EXCEPT ![e] = l]

\* share: an offer waits for a person.
ReceiveOffer(l) ==
  /\ Take(Taker, l, "offer")
  /\ wire' = Without(Taker, l)
  /\ share' = [share EXCEPT ![Taker] = "waiting"]
  /\ UNCHANGED <<sealed, refused, key>>

\* share: the endpoint to dial (BulkSend).  One for a transfer that is no
\* longer on offer is answered with an error.
ReceiveAccept(l) ==
  /\ Take(Offerer, l, "accept")
  /\ IF share[Offerer] = "waiting"
     THEN wire' = Without(Offerer, l) /\ UNCHANGED <<sealed, refused>>
     ELSE DispatchSend(Offerer, state, heard', Without(Offerer, l), Small("plain"))
  /\ IF share[Offerer] = "waiting" /\ CanBulk(Offerer)
     THEN share' = [share EXCEPT ![Offerer] = "keyed"] /\ DeriveKey(Offerer, heard')
     ELSE UNCHANGED <<share, key>>

-----------------------------------------------------------------------------
(* Local commands, the host and time. *)

LocalSend(e) ==
  /\ \E m \in Plain : DispatchSend(e, state, heard, wire, m)
  /\ UNCHANGED <<state, heard, opened, now, share, key, lone>>

\* A person offers the file, unless no link there is carries files.  With
\* no link at all the offer goes nowhere and is still waited for.
Offer ==
  /\ share[Offerer] = "none"
  /\ UpAt(state, Offerer) = {} \/ CanBulk(Offerer)
  /\ DispatchSend(Offerer, state, heard, wire, Small("offer"))
  /\ share' = [share EXCEPT ![Offerer] = "waiting"]
  /\ UNCHANGED <<state, heard, opened, now, key, lone>>

\* A person accepts: BulkListen goes to the host with the key.
Listen ==
  /\ share[Taker] = "waiting"
  /\ CanBulk(Taker)
  /\ share' = [share EXCEPT ![Taker] = "binding"]
  /\ DeriveKey(Taker, heard)
  /\ UNCHANGED <<state, heard, sealed, opened, wire, now, refused, lone>>

\* BulkListening: the host is bound, so the offerer is told where.
Listening ==
  /\ share[Taker] = "binding"
  /\ share' = [share EXCEPT ![Taker] = "keyed"]
  /\ DispatchSend(Taker, state, heard, wire, Small("accept"))
  /\ UNCHANGED <<state, heard, opened, now, key, lone>>

Pass(e) ==
  /\ now[1] + now[2] < MaxNow
  /\ now' = [now EXCEPT ![e] = @ + 1]
  /\ UNCHANGED <<state, heard, sealed, opened, wire, share, key, refused, lone>>

-----------------------------------------------------------------------------
LinkEvent(e, l) ==
  \/ Respond(e, l)
  \/ Finish(e, l)
  \/ LinkDown(e, l)
  \/ Undecryptable(e, l)
  \/ Receive(e, l)

Transfer ==
  \/ \E l \in Links : ReceiveOffer(l) \/ ReceiveAccept(l)
  \/ Offer \/ Listen \/ Listening

Next ==
  \/ \E e \in Ends, l \in Links : LinkEvent(e, l)
  \/ Transfer
  \/ \E e \in Ends : LocalSend(e) \/ Pass(e)

Spec == Init /\ [][Next]_vars

-----------------------------------------------------------------------------
(* Properties. *)

\* The two ends stay in step: unless the sender refused a message on a link,
\* every frame that reaches the receiver there is the one it can read, from
\* message 2 on and whatever plugins send the moment a session is up.
InStep ==
  \A e \in Ends, l \in Links :
    /\ state[e][l] \in {"shaking", "up"}
    /\ wire[e][l] # <<>>
    /\ l \notin refused[Other(e)]
    => Readable(e, l)

\* Choosing a link that does not suit "costs one message, not a session"
\* (best_link): no frame ever reaches an end that cannot read it.
CostsNoSession ==
  \A e \in Ends, l \in Links :
    state[e][l] \in {"shaking", "up"} /\ wire[e][l] # <<>> => Readable(e, l)

Keyed == \A e \in Ends : key[e] # NoLink

\* "Both ends must derive the key from the same session's handshake hash"
\* (handshake_hash_for).
SameKey == Keyed => key[Offerer] = key[Taker]

\* They do as long as neither end has two sessions at a time, through losses
\* and reconnections: an offer does not outlive the session it was made on.
SameKeyIfLone == lone => SameKey
=============================================================================
