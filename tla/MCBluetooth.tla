---------------------------- MODULE MCBluetooth -----------------------------
(* Values for the constants of Bluetooth that a cfg cannot write.           *)
EXTENDS Bluetooth

\* One message of three fragments, so that it may be cut off in two places and two
\* continuations can change places.
MCLengths == <<3>>

=============================================================================
