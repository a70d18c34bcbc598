------------------------------ MODULE Control -------------------------------
(***************************************************************************)
(* The daemon between the core and the people at its machine: the runtime   *)
(* that applies what the core says (runtime.rs), the snapshot it leaves and *)
(* the task that shows events (main.rs), the notification with its two      *)
(* buttons (prompt.rs, notify.rs), the control socket (control.rs) and the  *)
(* clients on it (acryliusctl.rs).                                         *)
(*                                                                         *)
(* Abstractions.  The core is its pairing slot, its questions numbered as   *)
(* they are asked, and which peers have a session; what it decides on its   *)
(* own it may decide at any time (Pairing and Dialling say when).  An event *)
(* is what the code tells apart: its kind and its peer.  Requests that wait *)
(* for the same events in the same way are one: "ask" is plugin_request     *)
(* with verbs to wait for, "tell" without any.  A client makes one request. *)
(* A notification's id is its question.  File offers are in Share.         *)
(***************************************************************************)
EXTENDS Naturals, Sequences

CONSTANTS
  Clients, Peers, Nobody,
  Named,         \* peers somebody here asks about
  Capacity,      \* of the broadcast channel (256)
  MaxQuestions,  \* bound: pairing questions
  MaxNews,       \* bound: what else the core reports on its own
  MaxQueue       \* bound: what may wait in a queue when something is added

ASSUME ControlAssumption ==
  /\ Nobody \notin Peers /\ Named \subseteq Peers
  /\ {Capacity, MaxQuestions, MaxNews, MaxQueue} \subseteq Nat \ {0}

VARIABLES
  slot,      \* Core.pairing: its state, and the question it awaits
  asked,     \* questions so far
  up,        \* peers with a session
  news,      \* what MaxNews counts
  step,      \* where Runtime::run is
  commands,  \* local commands on their way to the core
  ui,        \* UiEvents on their way to the task that shows them
  pending,   \* the snapshot `pending_pair`: a question, or 0
  prompter,  \* the Prompter is connected
  showing,   \* the task: idle, or the question it is putting up
  raised,    \* the desktop has put it up
  pairing,   \* Prompter.pairing
  visible,   \* the question on the screen
  presses,   \* buttons pressed, not yet heard
  client,    \* client[c]: the request of c and how far it is
  inbox,     \* inbox[c]: broadcast events c has not taken
  lines,     \* lines[c]: questions c has been sent and not answered
  seen,      \* history: questions c was ever sent
  behind,    \* history: c read a snapshot that was not the core's state
  doubt,     \* history: c's peer went, or an event was under way when it asked
  dropped    \* history: questions the core gave up without a word to the UI

core == <<slot, asked, up, news>>
screen == <<prompter, showing, raised, pairing, visible>>
history == <<seen, behind, doubt, dropped>>
vars == <<core, step, commands, ui, pending, screen, presses, client, inbox, lines, history>>

Questions == 1 .. MaxQuestions

Event(is, q, p) == [is |-> is, question |-> q, peer |-> p]
Sas(q) == Event("sas", q, Nobody)
Complete == Event("complete", 0, Nobody)
Failed == Event("failed", 0, Nobody)
About(is, p) == Event(is, 0, p)
PeerNews == {"reachable", "unreachable", "reply", "pong", "error", "revoked"}
Events == {Sas(q) : q \in Questions} \cup {Complete, Failed}
          \cup {About(is, p) : is \in PeerNews, p \in Peers}

Command(is, p) == [is |-> is, peer |-> p]
Commands ==
  {Command(is, Nobody) : is \in {"approve", "deny", "pairwith"}}
  \cup {Command(is, p) : is \in {"connect", "plugin", "revoke"}, p \in Peers}

Idle == [at |-> "idle", is |-> "none", peer |-> Nobody]
Streams == {"pair", "pairwith"}
Waits == {"connect", "ask", "ping"}
Lagged == <<Event("lagged", 0, Nobody)>>

Listening(c) == client[c].at \in {"replay", "writing", "stream", "wait"}

Slot(is, q) == [is |-> is, question |-> q]
NoPairing == Slot("idle", 0)

(* The fields hold what they can hold, and no client that has its answer is  *)
(* still subscribed.                                                       *)
TypeOK ==
  /\ slot \in {NoPairing, Slot("open", 0)} \cup {Slot("awaiting", q) : q \in Questions}
  /\ asked \in 0 .. MaxQuestions /\ up \subseteq Peers /\ news \in 0 .. MaxNews
  /\ step \in {"idle", "observe"}
  /\ commands \in Seq(Commands) /\ ui \in Seq(Events)
  /\ {pending, showing, pairing, visible} \subseteq 0 .. MaxQuestions
  /\ {prompter, raised} \subseteq BOOLEAN
  /\ presses \in Seq(Questions \X BOOLEAN)
  /\ \A c \in Clients :
       /\ client[c].at \in {"idle", "replay", "writing", "stream", "wait", "ended", "ok",
                            "reply", "refused", "gone", "timeout"}
       /\ inbox[c] = Lagged \/ (inbox[c] \in Seq(Events) /\ Len(inbox[c]) <= Capacity)
       /\ ~Listening(c) => inbox[c] = <<>>
       /\ lines[c] \in Seq(Questions)
  /\ seen \in [Clients -> SUBSET Questions]
  /\ {behind, doubt} \subseteq SUBSET Clients /\ dropped \subseteq Questions

Init ==
  /\ slot = NoPairing /\ asked = 0 /\ up \in SUBSET Peers /\ news = 0
  /\ step = "idle" /\ commands = <<>> /\ ui = <<>> /\ pending = 0
  /\ prompter = FALSE /\ showing = 0 /\ raised = FALSE 
  /\ pairing = 0 /\ visible = 0 /\ presses = <<>>
  /\ client = [c \in Clients |-> Idle]
  /\ inbox = [c \in Clients |-> <<>>]
  /\ lines = [c \in Clients |-> <<>>]
  /\ seen = [c \in Clients |-> {}]
  /\ behind = {} /\ doubt = {} /\ dropped = {}

-----------------------------------------------------------------------------
(* The core and the runtime's loop. *)

\* handle(), its actions applied: `say` goes to the UI sink, the look at the
\* core comes after.
Handled(say) ==
  /\ step = "idle" /\ step' = "observe"
  /\ Len(ui) < MaxQueue /\ ui' = ui \o say

\* A peer that goes casts doubt on what is asked of it.
Drops(p) ==
  /\ up' = up \ {p}
  /\ doubt' = doubt \cup {c \in Clients : client[c].peer = p}

\* A question: another device's digits are ready.
Ask ==
  /\ asked < MaxQuestions /\ asked' = asked + 1
  /\ slot.is \in {"idle", "open"} /\ slot' = Slot("awaiting", asked + 1)
  /\ Handled(<<Sas(asked + 1)>>)
  /\ UNCHANGED <<up, news, commands, pending, screen, presses, client, inbox, lines, history>>

\* on_tick closes the window, an attempt fails, or a pairing dial does, which
\* empties the slot whoever has it and says so even when it was empty.
Lapse ==
  /\ slot' = NoPairing /\ Handled(<<Failed>>)
  /\ UNCHANGED <<asked, up, news, commands, pending, screen, presses, client, inbox, lines,
                 history>>

\* on_link_down: a link still in its handshake empties the slot it was for, or
\* the one another device's question awaits, and says nothing.  The link whose
\* question is awaited may go too: the slot stays.
LinkLost ==
  /\ slot # NoPairing /\ slot' = NoPairing /\ Handled(<<>>)
  /\ dropped' = dropped \cup ({slot.question} \ {0})
  /\ UNCHANGED <<asked, up, news, commands, pending, screen, presses, client, inbox, lines,
                 seen, behind, doubt>>

\* A session comes up or goes, and a peer sends something that is shown.
PeerEvent(p, is) ==
  /\ news < MaxNews /\ news' = news + 1
  /\ \/ is = "reachable" /\ up' = up \cup {p} /\ UNCHANGED doubt
     \/ is = "unreachable" /\ Drops(p)
     \/ is \in {"reply", "pong"} /\ p \in up /\ UNCHANGED <<up, doubt>>
  /\ Handled(<<About(is, p)>>)
  /\ UNCHANGED <<slot, asked, commands, pending, screen, presses, client, inbox, lines, seen,
                 behind, dropped>>

\* confirm_pairing: whatever question the slot awaits, and nothing without one.
Confirm(accept) ==
  /\ IF slot.is = "awaiting"
     THEN slot' = NoPairing /\ Handled(<<IF accept THEN Complete ELSE Failed>>)
     ELSE UNCHANGED slot /\ Handled(<<>>)
  /\ UNCHANGED <<up, doubt>>

\* RequestPairing: the slot is claimed, or the refusal is said (the cooldown
\* may refuse too).
PairWith ==
  /\ \/ slot = NoPairing /\ slot' = Slot("open", 0) /\ Handled(<<>>)
     \/ UNCHANGED slot /\ Handled(<<Failed>>)
  /\ UNCHANGED <<up, doubt>>

\* connect_peer by hand; a dial's end is a PeerEvent of its own.
Connect(p) ==
  /\ IF p \in up THEN Handled(<<About("reachable", p)>>)
     ELSE \/ Handled(<<>>)
          \/ Handled(<<About("error", p), About("unreachable", p)>>)
  /\ UNCHANGED <<slot, up, doubt>>

\* A plugin's on_local and dispatch_send: without a session the peer is said
\* to be unreachable.
Plugin(p) ==
  /\ IF p \in up THEN Handled(<<>>) \/ Handled(<<About("error", p)>>)
     ELSE Handled(<<About("unreachable", p)>>)
  /\ UNCHANGED <<slot, up, doubt>>

\* handle_revoke
Revoke(p) ==
  /\ Drops(p)
  /\ Handled((IF p \in up THEN <<About("unreachable", p)>> ELSE <<>>) \o <<About("revoked", p)>>)
  /\ UNCHANGED slot

\* The loop takes a local command.
TakeCommand ==
  /\ commands # <<>> /\ commands' = Tail(commands)
  /\ LET cmd == Head(commands) IN
     \/ cmd.is \in {"approve", "deny"} /\ Confirm(cmd.is = "approve")
     \/ cmd.is = "pairwith" /\ PairWith
     \/ cmd.is = "connect" /\ Connect(cmd.peer)
     \/ cmd.is = "plugin" /\ Plugin(cmd.peer)
     \/ cmd.is = "revoke" /\ Revoke(cmd.peer)
  /\ UNCHANGED <<asked, news, pending, screen, presses, client, inbox, lines, seen, behind, dropped>>

\* The observer.  A snapshot that is held is left as it is: by this client, or
\* by another one a question is being written to.
Observe ==
  /\ step = "observe" /\ step' = "idle"
  /\ \/ (\A c \in Clients : client[c].at # "writing") /\ pending' = slot.question
     \/ pending # 0 /\ UNCHANGED pending
  /\ UNCHANGED <<core, commands, ui, screen, presses, client, inbox, lines, history>>

-----------------------------------------------------------------------------
(* The task that shows events. *)

\* Slip: the channel takes everything.
BroadcastUnbounded(e) ==
  inbox' = [c \in Clients |-> IF Listening(c) THEN Append(inbox[c], e) ELSE inbox[c]]

\* The broadcast, to every client that has subscribed.
Broadcast(e) ==
  inbox' = [c \in Clients |->
              IF ~Listening(c) \/ inbox[c] = Lagged THEN inbox[c]
              ELSE IF Len(inbox[c]) = Capacity THEN Lagged ELSE Append(inbox[c], e)]

\* Slip: a settled question stays where it is.
ClosePairNever == UNCHANGED <<pairing, visible>>

\* close_pair
ClosePair ==
  /\ pairing' = 0
  /\ visible' = IF visible = pairing THEN 0 ELSE visible

\* An event without a question in it is acted on and passed on.
Fan(e) ==
  /\ e.is # "sas" \/ ~prompter
  /\ IF e.is \in {"complete", "failed"} /\ prompter THEN ClosePair
     ELSE UNCHANGED <<pairing, visible>>
  /\ Broadcast(e) /\ UNCHANGED showing

\* ask_pair: the last question comes down before the desktop is asked.
AskPair(e) ==
  /\ e.is = "sas" /\ prompter
  /\ ClosePair /\ showing' = e.question /\ UNCHANGED inbox

TakeEvent ==
  /\ showing = 0 /\ ui # <<>> /\ ui' = Tail(ui)
  /\ Fan(Head(ui)) \/ AskPair(Head(ui))
  /\ UNCHANGED <<core, step, commands, pending, prompter, raised, presses, client, lines, history>>

\* The desktop puts it up.
Raise ==
  /\ showing # 0 /\ ~raised /\ raised' = TRUE /\ visible' = showing
  /\ UNCHANGED <<core, step, commands, ui, pending, prompter, showing, pairing, presses,
                 client, inbox, lines, history>>

\* `show` returns, with an id or without one: only now is it known, and passed on.
Shown ==
  /\ showing # 0 /\ showing' = 0 /\ raised' = FALSE
  /\ pairing' = IF raised THEN showing ELSE pairing
  /\ Broadcast(Sas(showing))
  /\ UNCHANGED <<core, step, commands, ui, pending, prompter, visible, presses, client, lines,
                 history>>

\* Prompter::start ends, whenever D-Bus lets it.
Started ==
  /\ ~prompter /\ prompter' = TRUE
  /\ UNCHANGED <<core, step, commands, ui, pending, showing, raised, pairing, visible, presses, client,
                 inbox, lines, history>>

\* A button, and the notification with it.
Press(accept) ==
  /\ visible # 0 /\ visible' = 0 /\ Len(presses) < MaxQueue
  /\ presses' = Append(presses, <<visible, accept>>)
  /\ UNCHANGED <<core, step, commands, ui, pending, prompter, showing, raised, pairing, client, inbox,
                 lines, history>>

\* pressed: pair_answer drops one that is not for the question on the screen.
Pressed ==
  /\ presses # <<>> /\ presses' = Tail(presses)
  /\ IF Head(presses)[1] = pairing
     THEN /\ pairing' = 0
          /\ commands' = Append(commands,
               Command(IF Head(presses)[2] THEN "approve" ELSE "deny", Nobody))
     ELSE UNCHANGED <<pairing, commands>>
  /\ UNCHANGED <<core, step, ui, pending, prompter, showing, raised, visible, client, inbox, lines,
                 history>>

-----------------------------------------------------------------------------
(* The control socket. *)

Submit(cmds) == Len(commands) < MaxQueue /\ commands' = commands \o cmds

Becomes(c, at) == client' = [client EXCEPT ![c].at = at]

\* The answer is written, and acryliusctl hangs up.
Ends(c, at) ==
  /\ client' = [client EXCEPT ![c] = [Idle EXCEPT !.at = at]]
  /\ inbox' = [inbox EXCEPT ![c] = <<>>]

\* What handle_conn sends to the core for a request.
Sends(is, p) ==
  CASE is \in {"approve", "deny", "pairwith"} -> <<Command(is, Nobody)>>
    [] is \in {"connect", "revoke"} -> <<Command(is, p)>>
    [] is \in {"tell", "ask", "ping"} -> <<Command("plugin", p)>>
    [] OTHER -> <<>>

\* And where it goes next: a subscription, or an answer at once.
First(is) ==
  CASE is = "pair" -> "replay"
    [] is = "pairwith" -> "stream"
    [] is \in Waits -> "wait"
    [] OTHER -> "ok"

Request(c, is, p) ==
  /\ client[c] = Idle
  /\ client' = [client EXCEPT ![c] = IF First(is) = "ok" THEN [Idle EXCEPT !.at = "ok"]
                                      ELSE [at |-> First(is), is |-> is, peer |-> p]]
  /\ Submit(Sends(is, p))
  /\ doubt' = IF ui # <<>> \/ p \notin up THEN doubt \cup {c} ELSE doubt
  /\ UNCHANGED <<core, step, ui, pending, screen, presses, inbox, lines, seen, behind, dropped>>

\* Slip: what is waiting is not looked at.
ReplayNothing(c) ==
  /\ client[c].at = "replay" /\ Becomes(c, "stream")
  /\ UNCHANGED <<core, step, commands, ui, pending, screen, presses, inbox, lines, history>>

\* Request::Pair, subscribed: the snapshot is held while what it says is written.
Replay(c) ==
  /\ client[c].at = "replay" /\ \A d \in Clients : client[d].at # "writing"
  /\ Becomes(c, IF pending = 0 THEN "stream" ELSE "writing")
  /\ behind' = IF pending # slot.question THEN behind \cup {c} ELSE behind
  /\ UNCHANGED <<core, step, commands, ui, pending, screen, presses, inbox, lines, seen, doubt,
                 dropped>>

\* A Confirm line.
Tells(c, q) ==
  /\ lines' = [lines EXCEPT ![c] = Append(@, q)]
  /\ seen' = [seen EXCEPT ![c] = @ \cup {q}]

Written(c) ==
  /\ client[c].at = "writing" /\ Becomes(c, "stream") /\ Tells(c, pending)
  /\ UNCHANGED <<core, step, commands, ui, pending, screen, presses, inbox, behind, doubt, dropped>>

\* stream_pairing; a receiver that fell behind gives up.
Relay(c) ==
  /\ client[c].at = "stream" /\ inbox[c] # <<>>
  /\ IF Head(inbox[c]).is \in {"complete", "failed", "lagged"}
     THEN Ends(c, "ended") /\ UNCHANGED <<lines, seen>>
     ELSE /\ inbox' = [inbox EXCEPT ![c] = Tail(@)] /\ UNCHANGED client
          /\ IF Head(inbox[c]).is = "sas" THEN Tells(c, Head(inbox[c]).question)
             ELSE UNCHANGED <<lines, seen>>
  /\ UNCHANGED <<core, step, commands, ui, pending, screen, presses, behind, doubt, dropped>>

\* Slip: anybody's news will do.
VerdictOfAnyone(r, e) ==
  CASE r.is = "ask" /\ e.is = "reply" -> "reply"
    [] r.is = "ask" /\ e.is = "error" -> "refused"
    [] r.is = "connect" /\ e.is \in PeerNews \ {"revoked"} -> "reply"
    [] r.is = "ping" /\ e.is = "pong" -> "reply"
    [] r.is \in {"ask", "ping"} /\ e.is = "unreachable" -> "gone"
    [] OTHER -> "wait"

\* verdict, about, and the match in Request::Ping.
Verdict(r, e) ==
  IF e.peer # r.peer THEN "wait"
  ELSE CASE r.is = "ask" /\ e.is = "reply" -> "reply"
         [] r.is = "ask" /\ e.is = "error" -> "refused"
         [] r.is = "connect" /\ e.is \in PeerNews \ {"revoked"} -> "reply"
         [] r.is = "ping" /\ e.is = "pong" -> "reply"
         [] r.is \in {"ask", "ping"} /\ e.is = "unreachable" -> "gone"
         [] OTHER -> "wait"

\* The loop of a request that waits; a receiver that fell behind gives up.
Take(c) ==
  /\ client[c].at = "wait" /\ inbox[c] # <<>>
  /\ LET says == IF inbox[c] = Lagged THEN "gone" ELSE Verdict(client[c], Head(inbox[c])) IN
     IF says = "wait" THEN inbox' = [inbox EXCEPT ![c] = Tail(@)] /\ UNCHANGED client
     ELSE Ends(c, says)
  /\ doubt' = IF inbox[c] = Lagged THEN doubt \cup {c} ELSE doubt
  /\ UNCHANGED <<core, step, commands, ui, pending, screen, presses, lines, seen, behind, dropped>>

\* MACHINE, PATIENT, and the ten and five seconds of Connect and Ping.
Timeout(c) ==
  /\ client[c].at = "wait" /\ Ends(c, "timeout")
  /\ UNCHANGED <<core, step, commands, ui, pending, screen, presses, lines, history>>

\* acryliusctl at a Confirm: the person's answer goes over a connection of its
\* own, as Approve or Deny.
Answer(c, accept) ==
  /\ lines[c] # <<>> /\ lines' = [lines EXCEPT ![c] = Tail(@)]
  /\ Submit(<<Command(IF accept THEN "approve" ELSE "deny", Nobody)>>)
  /\ UNCHANGED <<core, step, ui, pending, screen, presses, client, inbox, history>>

-----------------------------------------------------------------------------
ClientStep(c) ==
  \/ \E is \in {"look", "approve", "deny"} \cup Streams : Request(c, is, Nobody)
  \/ \E is \in {"tell", "revoke"} \cup Waits, p \in Named : Request(c, is, p)
  \/ Replay(c) \/ Written(c) \/ Relay(c) \/ Take(c) \/ Timeout(c)
  \/ \E accept \in BOOLEAN : Answer(c, accept)

Next ==
  \/ Ask \/ Lapse \/ LinkLost \/ TakeCommand \/ Observe
  \/ \E p \in Peers, is \in PeerNews : PeerEvent(p, is)
  \/ TakeEvent \/ Raise \/ Shown \/ Started \/ Pressed
  \/ \E accept \in BOOLEAN : Press(accept)
  \/ \E c \in Clients : ClientStep(c)

Spec == Init /\ [][Next]_vars

-----------------------------------------------------------------------------
(* A question is on the screen, with its buttons, only while it is the one   *)
(* the core awaits or one the core gave up without a word: once the task has  *)
(* shown everything, a question settled in any way the core tells of (an      *)
(* answer from a client, the window's end, a failed attempt or dial) has no   *)
(* notification left whose button could answer the next one.  The questions   *)
(* on_link_down drops are the exception the code makes: it says nothing, and  *)
(* their notification stays armed until the next pairing event.             *)
OnScreenIsAwaited ==
  ui = <<>> /\ showing = 0 => pairing \in {0, slot.question} \cup dropped

(* Whoever runs `acryliusctl pair` gets the question that is waiting, whether *)
(* it was asked before, while or after the client subscribed, unless the     *)
(* snapshot it read was behind the core.                                    *)
NobodyMissesIt ==
  \A c \in Clients :
    (/\ client[c].is = "pair" /\ client[c].at = "stream" /\ inbox[c] = <<>> /\ ui = <<>> /\ showing = 0
     /\ slot.is = "awaiting" /\ c \notin behind)
    => slot.question \in seen[c]

(* A client is told its peer is unreachable only if the peer was not there   *)
(* at some moment since it asked, or news was still under way when it did,   *)
(* or its receiver fell behind.                                             *)
GoneIsTrue == \A c \in Clients : client[c].at = "gone" => c \in doubt

=============================================================================
