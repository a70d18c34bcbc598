----------------------------- MODULE Fragments ------------------------------
(***************************************************************************)
(* Cutting a message into fragments that fit one Bluetooth write or         *)
(* notification, and putting them together again (acrylius-proto ble.rs,    *)
(* which acrylius-ffi ble.rs hands to Swift unchanged).                    *)
(*                                                                         *)
(* Abstractions.  A byte is any value, a message a sequence of them.  The   *)
(* two header bits are two fields; a fragment without a header or with a    *)
(* reserved bit is not one that `fragment` makes.                          *)
(***************************************************************************)
EXTENDS Naturals, Sequences

\* HEADER: bytes of a fragment that are not the message's.
Header == 1

\* The payload of one fragment of `size` bytes: never nothing.
Payload(size) == IF size > Header THEN size - Header ELSE 1

\* How many fragments a message takes: an empty one takes one.
Pieces(len, size) ==
  IF len = 0 THEN 1 ELSE (len + Payload(size) - 1) \div Payload(size)

\* fragment
Fragment(msg, size) ==
  LET p == Payload(size)
      n == Pieces(Len(msg), size)
      upto(i) == IF i = n THEN Len(msg) ELSE i * p
  IN [i \in 1 .. n |-> [start |-> i = 1, more |-> i < n,
                        body |-> SubSeq(msg, (i - 1) * p + 1, upto(i))]]

\* Reassembler::new, and what fail() leaves.
Closed == [open |-> FALSE, buf |-> <<>>]

\* What push answers: the reassembler after it, and a message, "more" or "error".
Pushed(asm, says, msg) == [asm |-> asm, says |-> says, msg |-> msg]

\* Slip: only a start in the middle of a message is noticed.
PushHalfChecked(asm, frag, max) ==
  LET buf == asm.buf \o frag.body IN
  IF (frag.start /\ asm.open) \/ Len(buf) > max THEN Pushed(Closed, "error", <<>>)
  ELSE IF frag.more THEN Pushed([open |-> TRUE, buf |-> buf], "more", <<>>)
  ELSE Pushed(Closed, "message", buf)

\* Reassembler::push, of a link that carries messages of at most `max` bytes.
Push(asm, frag, max) ==
  LET buf == asm.buf \o frag.body IN
  IF frag.start = asm.open \/ Len(buf) > max THEN Pushed(Closed, "error", <<>>)
  ELSE IF frag.more THEN Pushed([open |-> TRUE, buf |-> buf], "more", <<>>)
  ELSE Pushed(Closed, "message", buf)

=============================================================================
