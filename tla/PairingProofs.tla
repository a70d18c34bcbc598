--------------------------- MODULE PairingProofs ---------------------------
(***************************************************************************)
(* Proofs about Pairing for every set of links and devices, every value of *)
(* the timeouts and every number of dials.                                 *)
(***************************************************************************)
EXTENDS Pairing, TLAPS

-----------------------------------------------------------------------------
(* Safety of the slot.  The conjunction is inductive: QuietWhileIdle needs *)
(* nothing but itself, AwaitingIsParked needs the link states of TypeOK,   *)
(* and PairedWasShown needs to know that the awaiting digits were shown.   *)

Inv == TypeOK /\ QuietWhileIdle /\ AwaitingIsParked /\ PairedWasShown

(* The initial state satisfies the inductive invariant. *)
LEMMA InitInv == Init => Inv
  BY ConfigAssumption, NoneAssumption
  DEF Init, Inv, TypeOK, QuietWhileIdle, AwaitingIsParked, PairedWasShown,
      Confirmation, NoConfirm

(* A confirmation and "no confirmation" are told apart by their link. *)
LEMMA NoConfirmIsNone == NoConfirm \notin Confirmation
  BY NoneAssumption DEF NoConfirm, Confirmation

(* Every step preserves the inductive invariant: one case per handler. *)
LEMMA StepInv == Inv /\ [Next]_vars => Inv'
<1> SUFFICES ASSUME Inv, [Next]_vars PROVE Inv'
  OBVIOUS
<1> USE ConfigAssumption, NoneAssumption, NoConfirmIsNone
<1> USE DEF Inv, TypeOK, QuietWhileIdle, AwaitingIsParked, PairedWasShown
<1>1. ASSUME NEW l \in Links, LinkEvent(l) PROVE Inv'
  <2>1. CASE LinkUpInbound(l)
    BY <2>1 DEF LinkUpInbound, Put, KeepPairing, KeepQuestion
  <2>2. ASSUME NEW d \in pairDials, LinkUpPairDial(l, d) PROVE Inv'
    BY <2>2 DEF LinkUpPairDial, Put, KeepPairing, KeepQuestion
  <2>3. CASE FirstFrameRefused(l)
    BY <2>3 DEF FirstFrameRefused, Remove, KeepPairing, KeepQuestion
  <2>4. CASE PairOpenerUnreadable(l)
    BY <2>4 DEF PairOpenerUnreadable, MayPair, Remove, KeepPairing, KeepQuestion
  <2>5. CASE PairOpener(l)
    BY <2>5 DEF PairOpener, MayPair, BeginPairing, KeepQuestion
  <2>6. ASSUME NEW d \in Devices, SessionOpener(l, d) PROVE Inv'
    BY <2>6 DEF SessionOpener, Put, KeepPairing, KeepQuestion
  <2>7. CASE HandshakeWrongKind(l)
    BY <2>7 DEF HandshakeWrongKind, Remove, KeepPairing, KeepQuestion
  <2>8. CASE PairingAttemptFailed(l)
    BY <2>8 DEF PairingAttemptFailed, Remove, EndPairing, DropPairing, CloseQuestion
  <2>9. ASSUME NEW d \in Devices, PairingCompleted(l, d) PROVE Inv'
    BY <2>9 DEF PairingCompleted, AskQuestion, Confirmation
  <2>10. CASE PairingCompletedTooLate(l)
    BY <2>10 DEF PairingCompletedTooLate, Remove, KeepPairing, KeepQuestion
  <2>11. CASE LinkDownHandshaking(l)
    BY <2>11 DEF LinkDownHandshaking, Remove, DropPairing, KeepQuestion
  <2>12. CASE LinkDownOther(l)
    BY <2>12 DEF LinkDownOther, Remove, KeepPairing, KeepQuestion
  <2> QED
    BY <1>1, <2>1, <2>2, <2>3, <2>4, <2>5, <2>6, <2>7, <2>8, <2>9, <2>10,
       <2>11, <2>12 DEF LinkEvent
<1>2. ASSUME NEW d \in pairDials, DialFailed(d) PROVE Inv'
  BY <1>2 DEF DialFailed, DropPairing, CloseQuestion
<1>3. CASE Local
  <2>1. CASE RequestPairing
    BY <2>1 DEF RequestPairing, MayPair, BeginPairing, KeepQuestion
  <2>2. CASE RequestPairingRefused
    BY <2>2 DEF RequestPairingRefused, CloseQuestion, KeepPairing
  <2>3. CASE ConfirmDenied
    BY <2>3 DEF ConfirmDenied, Remove, EndPairing, DropPairing, CloseQuestion
  <2>4. CASE ConfirmAccepted
    <3>1. confirm.link \in Links /\ confirm.link \in shown /\ confirm.device \in Devices
      BY <2>4 DEF ConfirmAccepted, Confirmation
    <3> QED
      BY <2>4, <3>1 DEF ConfirmAccepted, Remove, DropPairing, CloseQuestion
  <2>5. ASSUME NEW d \in Devices, Revoke(d) PROVE Inv'
    BY <2>5 DEF Revoke, Remove, KeepPairing, KeepQuestion
  <2> QED
    BY <1>3, <2>1, <2>2, <2>3, <2>4, <2>5 DEF Local
<1>4. CASE Tick
  <2>1. CASE TickLapsed
    BY <2>1 DEF TickLapsed, Remove, EndPairing, DropPairing, CloseQuestion
  <2>2. CASE TickStale
    BY <2>2 DEF TickStale, Remove, KeepPairing, KeepQuestion
  <2> QED
    BY <1>4, <2>1, <2>2 DEF Tick
<1>5. CASE Pass
  BY <1>5 DEF Pass, Down, KeepQuestion
<1>6. CASE UNCHANGED vars
  BY <1>6 DEF vars
<1> QED
  BY <1>1, <1>2, <1>3, <1>4, <1>5, <1>6 DEF Next

(* The slot's safety: types, no open slot inside a cooldown, a parked      *)
(* confirmation and no key in the trust store that was never on screen.    *)
THEOREM SlotSafety ==
  Spec => [](TypeOK /\ QuietWhileIdle /\ AwaitingIsParked /\ PairedWasShown)
  BY InitInv, StepInv, PTL DEF Spec, Inv

-----------------------------------------------------------------------------
(* A device that is only ever asked.  NeverSwapped fails when a dial of    *)
(* ours may answer late (run pairing_swap).  While nobody here has dialled *)
(* it holds, provided that a handshake cannot outlive the slot it was      *)
(* admitted to, which the default configuration guarantees (15 s and       *)
(* 120 s).  The strengthening says that the one handshake in flight owns   *)
(* the slot and that a question on the screen belongs to the confirmation  *)
(* that waits.                                                             *)

OneHandshake ==
  /\ \A l \in Links : links[l] = "pairing" => pairing = "open" /\ left[l] <= window
  /\ \A l, m \in Links : links[l] = "pairing" /\ links[m] = "pairing" => l = m

InboundInv ==
  nextDial = 0 =>
  /\ pairDials = {}
  /\ \A l \in Links : left[l] <= HandshakeTimeout
  /\ OneHandshake
  /\ question # NoLink => pairing = "awaiting" /\ question = confirm.link

(* Every step preserves InboundInv: a dial ends the hypothesis. *)
LEMMA StepInboundInv ==
  ASSUME HandshakeTimeout <= PairingWindow, Inv, InboundInv, [Next]_vars
  PROVE  InboundInv'
<1> USE ConfigAssumption, NoneAssumption
<1> USE DEF Inv, TypeOK, InboundInv, OneHandshake
<1>1. ASSUME NEW l \in Links, LinkEvent(l) PROVE InboundInv'
  <2>1. CASE LinkUpInbound(l)
    BY <2>1 DEF LinkUpInbound, Put, KeepPairing, KeepQuestion
  <2>2. CASE \E d \in pairDials : LinkUpPairDial(l, d)
    BY <2>2 DEF LinkUpPairDial
  <2>3. CASE FirstFrameRefused(l)
    BY <2>3 DEF FirstFrameRefused, Remove, KeepPairing, KeepQuestion
  <2>4. CASE PairOpenerUnreadable(l)
    BY <2>4 DEF PairOpenerUnreadable, MayPair, Remove, KeepPairing, KeepQuestion
  <2>5. CASE PairOpener(l)
    BY <2>5 DEF PairOpener, MayPair, BeginPairing, KeepQuestion
  <2>6. ASSUME NEW d \in Devices, SessionOpener(l, d) PROVE InboundInv'
    BY <2>6 DEF SessionOpener, Put, KeepPairing, KeepQuestion
  <2>7. CASE HandshakeWrongKind(l)
    BY <2>7 DEF HandshakeWrongKind, Remove, KeepPairing, KeepQuestion
  <2>8. CASE PairingAttemptFailed(l)
    BY <2>8 DEF PairingAttemptFailed, Remove, EndPairing, DropPairing, CloseQuestion
  <2>9. ASSUME NEW d \in Devices, PairingCompleted(l, d) PROVE InboundInv'
    BY <2>9 DEF PairingCompleted, AskQuestion
  <2>10. CASE PairingCompletedTooLate(l)
    BY <2>10 DEF PairingCompletedTooLate, Remove, KeepPairing, KeepQuestion
  <2>11. CASE LinkDownHandshaking(l)
    BY <2>11 DEF LinkDownHandshaking, Remove, DropPairing, KeepQuestion
  <2>12. CASE LinkDownOther(l)
    BY <2>12 DEF LinkDownOther, Remove, KeepPairing, KeepQuestion
  <2> QED
    BY <1>1, <2>1, <2>2, <2>3, <2>4, <2>5, <2>6, <2>7, <2>8, <2>9, <2>10,
       <2>11, <2>12 DEF LinkEvent
<1>2. CASE \E d \in pairDials : DialFailed(d)
  BY <1>2 DEF DialFailed
<1>3. CASE Local
  <2>1. CASE RequestPairing
    BY <2>1 DEF RequestPairing
  <2>2. CASE RequestPairingRefused
    BY <2>2 DEF RequestPairingRefused, CloseQuestion, KeepPairing
  <2>3. CASE ConfirmDenied
    BY <2>3 DEF ConfirmDenied, Remove, EndPairing, DropPairing, CloseQuestion
  <2>4. CASE ConfirmAccepted
    BY <2>4 DEF ConfirmAccepted, Remove, DropPairing, CloseQuestion
  <2>5. ASSUME NEW d \in Devices, Revoke(d) PROVE InboundInv'
    BY <2>5 DEF Revoke, Remove, KeepPairing, KeepQuestion
  <2> QED
    BY <1>3, <2>1, <2>2, <2>3, <2>4, <2>5 DEF Local
<1>4. CASE Tick
  <2>1. CASE TickLapsed
    BY <2>1 DEF TickLapsed, Lapsed, Stale, Remove, EndPairing, DropPairing,
                CloseQuestion
  <2>2. CASE TickStale
    BY <2>2 DEF TickStale, Remove, KeepPairing, KeepQuestion
  <2> QED
    BY <1>4, <2>1, <2>2 DEF Tick
<1>5. CASE Pass
  BY <1>5 DEF Pass, Down, KeepQuestion
<1>6. CASE UNCHANGED vars
  BY <1>6 DEF vars
<1> QED
  BY <1>1, <1>2, <1>3, <1>4, <1>5, <1>6 DEF Next

(* Before the first event nothing is in flight. *)
LEMMA InitInboundInv == Init => InboundInv
  BY ConfigAssumption DEF Init, InboundInv, OneHandshake

(* While nobody here has dialled to pair, the digits a person is comparing  *)
(* are never swapped for another device's.                                 *)
THEOREM InboundNeverSwapped ==
  ASSUME HandshakeTimeout <= PairingWindow
  PROVE  Spec => NeverSwappedIfAsked
<1>1. Init => Inv /\ InboundInv
  BY InitInv, InitInboundInv
<1>2. Inv /\ InboundInv /\ [Next]_vars => Inv' /\ InboundInv'
  BY StepInv, StepInboundInv
<1>3. Inv /\ InboundInv /\ [Next]_vars
        => [nextDial = 0 /\ question # NoLink => question' \in {question, NoLink}]_vars
  <2> SUFFICES ASSUME Inv, InboundInv, Next, nextDial = 0, question # NoLink
               PROVE  question' \in {question, NoLink}
    OBVIOUS
  <2>1. ASSUME NEW l \in Links, LinkEvent(l) PROVE question' \in {question, NoLink}
    BY <2>1 DEF LinkEvent, InboundInv, LinkUpInbound, LinkUpPairDial,
       FirstFrameRefused, PairOpenerUnreadable, PairOpener, SessionOpener,
       HandshakeWrongKind, PairingAttemptFailed, PairingCompleted,
       PairingCompletedTooLate, LinkDownHandshaking, LinkDownOther,
       KeepQuestion, CloseQuestion
  <2>2. CASE Local
    BY <2>2 DEF Local, RequestPairing, RequestPairingRefused, ConfirmDenied,
       ConfirmAccepted, Revoke, KeepQuestion, CloseQuestion
  <2>3. CASE Tick \/ Pass \/ \E d \in pairDials : DialFailed(d)
    BY <2>3 DEF Tick, TickLapsed, TickStale, Pass, DialFailed, KeepQuestion,
       CloseQuestion
  <2> QED
    BY <2>1, <2>2, <2>3 DEF Next
<1> QED
  BY <1>1, <1>2, <1>3, PTL DEF Spec, NeverSwappedIfAsked

(* On such a device a confirmation ends by a person's answer or by its     *)
(* deadline, and leaves a cooldown behind unless it was approved.          *)
THEOREM InboundConfirmationEnds ==
  ASSUME HandshakeTimeout <= PairingWindow,
         PairCooldown <= PairDeniedCooldown
  PROVE  Spec => ConfirmationEnds
<1> DEFINE Ends ==
      nextDial = 0 /\ pairing = "awaiting" /\ confirm' # confirm =>
        \/ ConfirmAccepted
        \/ quiet' >= PairCooldown /\ (ConfirmDenied \/ window = 0)
<1>1. Init => Inv /\ InboundInv
  BY InitInv, InitInboundInv
<1>2. Inv /\ InboundInv /\ [Next]_vars => Inv' /\ InboundInv'
  BY StepInv, StepInboundInv
<1>3. Inv /\ InboundInv /\ [Next]_vars => [Ends]_vars
  <2> SUFFICES ASSUME Inv, InboundInv, Next, nextDial = 0,
                      pairing = "awaiting", confirm' # confirm
               PROVE  Ends
    OBVIOUS
  <2>1. ASSUME NEW l \in Links, LinkEvent(l) PROVE FALSE
    BY <2>1 DEF LinkEvent, InboundInv, OneHandshake, LinkUpInbound,
       FirstFrameRefused, PairOpenerUnreadable, PairOpener, MayPair,
       SessionOpener, HandshakeWrongKind, PairingAttemptFailed,
       PairingCompleted, PairingCompletedTooLate, LinkDownHandshaking,
       LinkDownOther, KeepPairing
  <2>2. CASE Local
    BY <2>2, ConfigAssumption DEF Local, RequestPairing, MayPair,
       RequestPairingRefused, ConfirmDenied, Revoke, EndPairing, KeepPairing
  <2>3. CASE Tick
    BY <2>3, ConfigAssumption DEF Tick, TickLapsed, TickStale, Lapsed,
       EndPairing, KeepPairing
  <2>4. CASE Pass \/ \E d \in pairDials : DialFailed(d)
    BY <2>4 DEF Pass, InboundInv
  <2> QED
    BY <2>1, <2>2, <2>3, <2>4 DEF Next
<1> QED
  BY <1>1, <1>2, <1>3, PTL DEF Spec, ConfirmationEnds

=============================================================================
