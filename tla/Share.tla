------------------------------- MODULE Share --------------------------------
(***************************************************************************)
(* Files from one device to another: the share plugin at both ends          *)
(* (plugins/share.rs), the core's part in a transfer (core.rs: dispatch_bulk,*)
(* BulkListening, BulkStarted, BulkFinished, on_tick), the runtime's tasks  *)
(* (runtime.rs) and the daemon's files (acrylius-rt bulk.rs, files.rs).     *)
(*                                                                         *)
(* Abstractions.  One session at a time carries messages in order; which    *)
(* link it takes and the key are in Sessions.  A transfer has one number:   *)
(* the two numbering schemes differ by a renaming.  Whether a link carries  *)
(* bulk is a free choice wherever the core asks.  The deadline of bulk_wait *)
(* may pass as soon as it is set, for all that has to happen before may     *)
(* take longer.  A file is not empty, and its bytes are all there or not.   *)
(* The daemon notes an offer in the step that announces it, since nobody    *)
(* can answer before.  A task is cut between its steps.  Error replies      *)
(* change nothing and are left out.                                        *)
(***************************************************************************)
EXTENDS Naturals, Sequences

CONSTANTS
  Transfers,
  Before,      \* sets of files that may be there before: 0 is "photo", 1 "photo.part"
  MaxAccepts,  \* bound: times a person accepts one offer
  MaxCopies,   \* names reserve_path tries
  Quitters     \* ends whose host has a way to cancel

ASSUME ShareAssumption ==
  /\ Before \subseteq SUBSET {0, 1}
  /\ MaxAccepts \in Nat
  /\ MaxCopies \in Nat

S == "sender"
R == "receiver"
Ends == {S, R}

ASSUME QuittersAssumption == Quitters \subseteq Ends

Other(e) == IF e = S THEN R ELSE S

Tasks == 1 .. MaxAccepts

\* Every transfer is of a "photo": <<1, 0>> is that name, <<2, 0>> is
\* "photo (2)" and <<2, 1>> "photo (2).part".
Paths == (1 .. MaxCopies) \X {0, 1}
NoPath == <<0, 0>>

\* temp_beside: a name that ends in one more ".part".
TempBeside(p) == <<p[1], p[2] + 1>>

VARIABLES
  up,        \* up[e]: e has a session with the other
  chan,      \* chan[e]: messages on their way to e
  entry,     \* entry[e]: the plugin's table, `sending` or `offered`
  owner,     \* owner[e]: bulk_owner
  wait,      \* bulk_wait of the receiver
  told,      \* told[e][t]: the endings e's host was told, in order
  running,   \* running[e][t]: the task the runtime can abort, or 0
  events,    \* events[e]: on their way to e's core
  outgoing,  \* FileBulk of the sender
  offers,    \* FileBulk of the receiver: offers,
  incoming,  \* and what it is listening for
  recv,      \* recv[t][k]: the k-th task that receives t
  send,      \* send[t][k]: the task that sends t to the k-th listener
  conn,      \* conn[t][k]: the connection between them
  disk,      \* the download directory
  made,      \* transfers the sender has numbered
  pressed,   \* pressed[t]: how often a person accepted it
  quit       \* quit[e]: transfers a person cancelled at e

core == <<up, chan, entry, owner, wait, told>>
tasks == <<recv, send, conn, disk>>
files == <<outgoing, offers, incoming>>
people == <<made, pressed, quit>>
vars == <<core, running, events, files, tasks, people>>

NoFile == [is |-> "absent"]
KeptFile == [is |-> "kept"]
File(t, what) == [is |-> what, of |-> t]
Contents == {NoFile, KeptFile} \cup [is : {"reserved", "partial", "whole"}, of : Transfers]

NoEntry == [dest |-> NoPath, listening |-> 0, connected |-> 0]
Entry == [dest : Paths \cup {NoPath}, listening : Tasks \cup {0}, connected : Tasks \cup {0}]

\* `via` is the listener a task holds, then the connection it reads.
Task(at, via, dest) == [at |-> at, via |-> via, dest |-> dest]
Over == Task("over", 0, NoPath)
RecvTask == [at : {"none", "spawned", "bound", "waiting", "started", "reading",
                   "placed", "over"},
             via : Tasks \cup {0}, dest : Paths \cup {NoPath}]

Note(ty, t, k, ok) == [ty |-> ty, t |-> t, k |-> k, ok |-> ok]
Notes(types) == [ty : types, t : Transfers, k : Tasks \cup {0}, ok : BOOLEAN]
Message == Notes({"offer", "accept", "reject", "finished"})
Event == Notes({"accept", "reject", "listening", "started", "finished"})

(* Tables hold what their fields can hold, and the plugin at the receiving  *)
(* end keeps no offer of a device that has gone.                           *)
TypeOK ==
  /\ up \in [Ends -> BOOLEAN]
  /\ chan \in [Ends -> Seq(Message)]
  /\ entry \in [Ends -> SUBSET Transfers]
  /\ owner \in [Ends -> SUBSET Transfers]
  /\ wait \subseteq Transfers
  /\ told \in [Ends -> [Transfers -> Seq(BOOLEAN)]]
  /\ running \in [Ends -> [Transfers -> Tasks \cup {0}]]
  /\ events \in [Ends -> Seq(Event)]
  /\ outgoing \subseteq Transfers
  /\ offers \subseteq Transfers
  /\ incoming \in [Transfers -> Entry]
  /\ recv \in [Transfers -> [Tasks -> RecvTask]]
  /\ send \in [Transfers -> [Tasks -> {"none", "spawned", "sending", "over"}]]
  /\ conn \in [Transfers -> [Tasks -> {"none", "open", "sent", "cut"}]]
  /\ disk \in [Paths -> Contents]
  /\ made \subseteq Transfers
  /\ pressed \in [Transfers -> 0 .. MaxAccepts]
  /\ quit \in [Ends -> SUBSET Transfers]
  /\ entry[R] # {} => up[R]

Init ==
  /\ up = [e \in Ends |-> TRUE]
  /\ chan = [e \in Ends |-> <<>>]
  /\ entry = [e \in Ends |-> {}]
  /\ owner = [e \in Ends |-> {}]
  /\ wait = {}
  /\ told = [e \in Ends |-> [t \in Transfers |-> <<>>]]
  /\ running = [e \in Ends |-> [t \in Transfers |-> 0]]
  /\ events = [e \in Ends |-> <<>>]
  /\ outgoing = {}
  /\ offers = {}
  /\ incoming = [t \in Transfers |-> NoEntry]
  /\ recv = [t \in Transfers |-> [k \in Tasks |-> Task("none", 0, NoPath)]]
  /\ send = [t \in Transfers |-> [k \in Tasks |-> "none"]]
  /\ conn = [t \in Transfers |-> [k \in Tasks |-> "none"]]
  /\ \E there \in Before :
       disk = [p \in Paths |-> IF p[1] = 1 /\ p[2] \in there THEN KeptFile ELSE NoFile]
  /\ made = {}
  /\ pressed = [t \in Transfers |-> 0]
  /\ quit = [e \in Ends |-> {}]

-----------------------------------------------------------------------------
(* What several handlers do. *)

\* A message leaves if there is a session, and arrives if it is still one.
Send(e, m) ==
  chan' = IF up[e] /\ up[Other(e)] THEN [chan EXCEPT ![Other(e)] = Append(@, m)] ELSE chan

\* The next message to e, or the next event for its core, is this one.
TakeMessage(e, m) ==
  chan[e] # <<>> /\ Head(chan[e]) = m /\ chan' = [chan EXCEPT ![e] = Tail(@)]
TakeEvent(e, ev) ==
  events[e] # <<>> /\ Head(events[e]) = ev /\ events' = [events EXCEPT ![e] = Tail(@)]
Post(e, ev) == events' = [events EXCEPT ![e] = Append(@, ev)]

\* A plugin announces an ending to its host.
Tell(e, t, ok) == told' = [told EXCEPT ![e][t] = Append(@, ok)]

\* FileBulk::forget.
Forget(e, t) ==
  IF e = S THEN outgoing' = outgoing \ {t} /\ UNCHANGED <<offers, incoming>>
  ELSE /\ offers' = offers \ {t}
       /\ incoming' = [incoming EXCEPT ![t] = NoEntry]
       /\ UNCHANGED outgoing

\* A sender that stops before the last byte; or after it, when the socket that
\* closes is the end of file.
Hangup(t, k) ==
  \E how \in {"cut", "sent"} :
    conn' = [conn EXCEPT ![t][k] = IF @ = "open" THEN how ELSE @]

\* Action::BulkCancel: the task is aborted, then the host forgets.
BulkCancel(e, t) ==
  LET k == running[e][t] IN
  /\ running' = [running EXCEPT ![e][t] = 0]
  /\ Forget(e, t)
  /\ recv' = IF e = R /\ k # 0 THEN [recv EXCEPT ![t][k] = Over] ELSE recv
  /\ send' = IF e = S /\ k # 0 THEN [send EXCEPT ![t][k] = "over"] ELSE send
  /\ IF e = S /\ k # 0 THEN Hangup(t, k) ELSE UNCHANGED conn
  /\ UNCHANGED disk

\* Slip: an ending the host reports leaves the entry for the other end's.
OnBulkFinishedKeeping(e, t, ok) ==
  /\ IF t \in owner[e] /\ t \in entry[e]
     THEN Send(e, Note("finished", t, 0, ok)) /\ Tell(e, t, ok)
     ELSE UNCHANGED <<chan, told>>
  /\ owner' = [owner EXCEPT ![e] = @ \ {t}]
  /\ wait' = IF e = R THEN wait \ {t} ELSE wait
  /\ UNCHANGED entry

\* on_bulk_finished, through the transfer's owner, who is then forgotten.
OnBulkFinished(e, t, ok) ==
  /\ IF t \in owner[e] /\ t \in entry[e]
     THEN /\ Send(e, Note("finished", t, 0, ok))
          /\ Tell(e, t, ok)
          /\ entry' = [entry EXCEPT ![e] = @ \ {t}]
     ELSE UNCHANGED <<chan, told, entry>>
  /\ owner' = [owner EXCEPT ![e] = @ \ {t}]
  /\ wait' = IF e = R THEN wait \ {t} ELSE wait

-----------------------------------------------------------------------------
(* The session. *)

\* on_peer_disconnected at e; what was on its way to it is lost.
Disconnect(e) ==
  /\ up[e]
  /\ up' = [up EXCEPT ![e] = FALSE]
  /\ entry' = [entry EXCEPT ![e] = {}]
  /\ chan' = [chan EXCEPT ![e] = <<>>]
  /\ UNCHANGED <<owner, wait, told, running, events, files, tasks, people>>

Connect ==
  /\ \A e \in Ends : ~up[e]
  /\ up' = [e \in Ends |-> TRUE]
  /\ chan' = [e \in Ends |-> <<>>]
  /\ UNCHANGED <<entry, owner, wait, told, running, events, files, tasks, people>>

-----------------------------------------------------------------------------
(* Local commands. *)

\* A person sends a file.  Refused at once where no link carries files.
Offer(t) ==
  /\ t \notin made
  /\ made' = made \cup {t}
  /\ outgoing' = outgoing \cup {t}
  /\ \/ /\ entry' = [entry EXCEPT ![S] = @ \cup {t}]
        /\ Send(S, Note("offer", t, 0, TRUE))
        /\ UNCHANGED told
     \/ up[S] /\ Tell(S, t, FALSE) /\ UNCHANGED <<entry, chan>>
  /\ UNCHANGED <<up, owner, wait, running, events, offers, incoming, tasks, pressed, quit>>

\* A person accepts: the command goes to the core, the offer stays noted.
PressAccept(t) ==
  /\ t \in offers
  /\ pressed[t] < MaxAccepts
  /\ pressed' = [pressed EXCEPT ![t] = @ + 1]
  /\ Post(R, Note("accept", t, 0, TRUE))
  /\ UNCHANGED <<core, running, files, tasks, made, quit>>

\* A person refuses: the host forgets before the core hears of it.
PressReject(t) ==
  /\ t \in offers
  /\ Forget(R, t)
  /\ Post(R, Note("reject", t, 0, FALSE))
  /\ UNCHANGED <<core, running, tasks, people>>

\* The core starts the next task for t and sets the deadline; or no link
\* carries bulk, and it cancels and forgets whose transfer it was.
OnAccept(t) ==
  /\ TakeEvent(R, Note("accept", t, 0, TRUE))
  /\ \/ t \notin entry[R] /\ UNCHANGED <<owner, wait, running, files, tasks>>
     \/ /\ t \in entry[R]
        /\ \E k \in Tasks :
             /\ recv[t][k].at = "none" /\ \A j \in 1 .. k - 1 : recv[t][j].at # "none"
             /\ recv' = [recv EXCEPT ![t][k] = Task("spawned", 0, NoPath)]
             /\ running' = [running EXCEPT ![R][t] = k]
        /\ owner' = [owner EXCEPT ![R] = @ \cup {t}]
        /\ wait' = wait \cup {t}
        /\ UNCHANGED <<files, send, conn, disk>>
     \/ /\ t \in entry[R]
        /\ BulkCancel(R, t)
        /\ owner' = [owner EXCEPT ![R] = @ \ {t}]
        /\ UNCHANGED wait
  /\ UNCHANGED <<up, chan, entry, told, people>>

OnReject(t) ==
  /\ TakeEvent(R, Note("reject", t, 0, FALSE))
  /\ IF t \in entry[R]
     THEN entry' = [entry EXCEPT ![R] = @ \ {t}] /\ Send(R, Note("reject", t, 0, FALSE))
     ELSE UNCHANGED <<entry, chan>>
  /\ UNCHANGED <<up, owner, wait, told, running, files, tasks, people>>

\* A person cancels, where the host has a way to, until it hears of an
\* ending.  The receiver knows the sender's number from its entry; without one
\* it sends its own (as_the_peer_numbers_it), which to the sender is any
\* transfer's, or nobody's.
Cancel(e, t) ==
  /\ e \in Quitters
  /\ t \in made
  /\ told[e][t] = <<>>
  /\ t \notin quit[e]
  /\ quit' = [quit EXCEPT ![e] = @ \cup {t}]
  /\ entry' = [entry EXCEPT ![e] = @ \ {t}]
  /\ BulkCancel(e, t)
  /\ \/ \E u \in Transfers :
          /\ e = S \/ t \in entry[e] => u = t
          /\ Send(e, Note("finished", u, 0, FALSE))
     \/ e = R /\ t \notin entry[e] /\ UNCHANGED chan
  /\ UNCHANGED <<up, owner, wait, told, events, made, pressed>>

-----------------------------------------------------------------------------
(* Messages. *)

OnOffer(t) ==
  /\ TakeMessage(R, Note("offer", t, 0, TRUE))
  /\ entry' = [entry EXCEPT ![R] = @ \cup {t}]
  /\ offers' = offers \cup {t}
  /\ UNCHANGED <<up, owner, wait, told, running, events, outgoing, incoming, tasks, people>>

\* The sender is told where to dial.
OnAccepted(t, k) ==
  /\ TakeMessage(S, Note("accept", t, k, TRUE))
  /\ \/ t \notin entry[S] /\ UNCHANGED <<owner, running, files, tasks>>
     \/ /\ t \in entry[S]
        /\ owner' = [owner EXCEPT ![S] = @ \cup {t}]
        /\ send' = [send EXCEPT ![t][k] = "spawned"]
        /\ running' = [running EXCEPT ![S][t] = k]
        /\ UNCHANGED <<files, recv, conn, disk>>
     \/ /\ t \in entry[S]
        /\ owner' = [owner EXCEPT ![S] = @ \ {t}]
        /\ BulkCancel(S, t)
  /\ UNCHANGED <<up, entry, wait, told, events, people>>

\* "reject" to the sender, "finished" to either: an ending, if the transfer
\* is still one of theirs.
OnEnding(e, m) ==
  /\ m.ty = "finished" \/ (m.ty = "reject" /\ e = S)
  /\ TakeMessage(e, m)
  /\ IF m.t \in entry[e]
     THEN entry' = [entry EXCEPT ![e] = @ \ {m.t}] /\ Tell(e, m.t, m.ok)
     ELSE UNCHANGED <<entry, told>>
  /\ UNCHANGED <<up, owner, wait, running, events, files, tasks, people>>

-----------------------------------------------------------------------------
(* The host's reports, and the deadline. *)

\* Slip: the wait is over when there is something to wait for.
OnListeningEarly(t, k) ==
  /\ TakeEvent(R, Note("listening", t, k, TRUE))
  /\ IF t \in owner[R] /\ t \in entry[R] THEN Send(R, Note("accept", t, k, TRUE)) ELSE UNCHANGED chan
  /\ wait' = wait \ {t}
  /\ UNCHANGED <<up, entry, owner, told, running, files, tasks, people>>

\* BulkListening: the sender learns where to dial.
OnListening(t, k) ==
  /\ TakeEvent(R, Note("listening", t, k, TRUE))
  /\ IF t \in owner[R] /\ t \in entry[R] THEN Send(R, Note("accept", t, k, TRUE)) ELSE UNCHANGED chan
  /\ UNCHANGED <<up, entry, owner, wait, told, running, files, tasks, people>>

\* BulkStarted: nothing left to time out.
OnStarted(t) ==
  /\ TakeEvent(R, Note("started", t, 0, TRUE))
  /\ wait' = wait \ {t}
  /\ UNCHANGED <<up, chan, entry, owner, told, running, files, tasks, people>>

\* The runtime lets go of the task it holds, whichever that is.
OnFinished(e, t, ok) ==
  /\ TakeEvent(e, Note("finished", t, 0, ok))
  /\ running' = [running EXCEPT ![e][t] = 0]
  /\ OnBulkFinished(e, t, ok)
  /\ UNCHANGED <<up, files, tasks, people>>

\* on_tick: the sender never connected.
GiveUp(t) ==
  /\ t \in wait
  /\ BulkCancel(R, t)
  /\ OnBulkFinished(R, t, FALSE)
  /\ UNCHANGED <<up, events, people>>

-----------------------------------------------------------------------------
(* The receiving task. *)

\* Slip: a name is chosen without being claimed.
FreePathUnclaimed == {p \in Paths : p = <<1, 0>>}

\* reserve_path: the first name nobody has.
FreePath ==
  {p \in Paths : p[2] = 0 /\ disk[p] = NoFile /\ \A c \in 1 .. p[1] - 1 : disk[<<c, 0>>] # NoFile}

Reserve(t, p) == disk' = [disk EXCEPT ![p] = File(t, "reserved")]

\* The task ends and says how.
EndTask(t, k, ok) ==
  /\ recv' = [recv EXCEPT ![t][k] = Over]
  /\ Post(R, Note("finished", t, 0, ok))

\* FileBulk::listen: a name is reserved, a port bound.
Listen(t, k) ==
  /\ recv[t][k].at = "spawned"
  /\ t \in offers
  /\ \E p \in FreePath :
       /\ Reserve(t, p)
       /\ incoming' = [incoming EXCEPT ![t] = [dest |-> p, listening |-> k, connected |-> 0]]
  /\ recv' = [recv EXCEPT ![t][k] = Task("bound", 0, NoPath)]
  /\ Post(R, Note("listening", t, k, TRUE))
  /\ UNCHANGED <<core, running, outgoing, offers, send, conn, people>>

\* There is no offer, no name, or no port.
ListenFails(t, k) ==
  /\ recv[t][k].at = "spawned"
  /\ \/ t \notin offers /\ UNCHANGED disk
     \/ t \in offers /\ FreePath = {} /\ UNCHANGED disk
     \/ t \in offers /\ \E p \in FreePath : Reserve(t, p)
  /\ EndTask(t, k, FALSE)
  /\ UNCHANGED <<core, running, files, send, conn, people>>

\* FileBulk::accept takes the listener there is out of the map.
TakeListener(t, k) ==
  /\ recv[t][k].at = "bound"
  /\ IF incoming[t].listening # 0
     THEN /\ recv' = [recv EXCEPT ![t][k] = Task("waiting", incoming[t].listening, NoPath)]
          /\ incoming' = [incoming EXCEPT ![t].listening = 0]
          /\ UNCHANGED events
     ELSE EndTask(t, k, FALSE) /\ UNCHANGED incoming
  /\ UNCHANGED <<core, running, outgoing, offers, send, conn, disk, people>>

\* A connection arrives for a transfer that may be gone by now.
Accept(t, k) ==
  /\ recv[t][k].at = "waiting"
  /\ conn[t][recv[t][k].via] # "none"
  /\ IF incoming[t] # NoEntry
     THEN /\ recv' = [recv EXCEPT ![t][k] = Task("started", 0, NoPath)]
          /\ incoming' = [incoming EXCEPT ![t].connected = recv[t][k].via]
          /\ Post(R, Note("started", t, 0, TRUE))
     ELSE EndTask(t, k, FALSE) /\ UNCHANGED incoming
  /\ UNCHANGED <<core, running, outgoing, offers, send, conn, disk, people>>

\* Whoever connects does not greet, or greets for another transfer.
AcceptFails(t, k) ==
  /\ recv[t][k].at = "waiting"
  /\ EndTask(t, k, FALSE)
  /\ UNCHANGED <<core, running, files, send, conn, disk, people>>

\* The reservation goes, if it is still empty.
Unreserve(d, dest) == IF d[dest].is = "reserved" THEN [d EXCEPT ![dest] = NoFile] ELSE d

\* FileBulk::receive begins: a temporary beside the destination.
Read(t, k) ==
  /\ recv[t][k].at = "started"
  /\ IF incoming[t].connected # 0
     THEN LET dest == incoming[t].dest IN
          /\ recv' = [recv EXCEPT ![t][k] = Task("reading", incoming[t].connected, dest)]
          /\ incoming' = [incoming EXCEPT ![t].connected = 0]
          /\ disk' = [disk EXCEPT ![TempBeside(dest)] = File(t, "partial")]
          /\ UNCHANGED events
     ELSE EndTask(t, k, FALSE) /\ UNCHANGED <<incoming, disk>>
  /\ UNCHANGED <<core, running, outgoing, offers, send, conn, people>>

\* The temporary cannot be created.
CreateFails(t, k) ==
  /\ recv[t][k].at = "started"
  /\ incoming[t].connected # 0
  /\ disk' = Unreserve(disk, incoming[t].dest)
  /\ Forget(R, t)
  /\ EndTask(t, k, FALSE)
  /\ UNCHANGED <<core, running, send, conn, people>>

\* Slip: an end of file is taken for the end of the file.
PlaceShort(t, k) ==
  LET dest == recv[t][k].dest IN
  /\ recv[t][k].at = "reading"
  /\ conn[t][recv[t][k].via] \in {"sent", "cut"}
  /\ disk' = [disk EXCEPT ![dest] = File(t, "whole"), ![TempBeside(dest)] = NoFile]
  /\ recv' = [recv EXCEPT ![t][k] = Task("placed", 0, dest)]
  /\ UNCHANGED <<core, running, events, files, send, conn, people>>

\* A second task for t writes to the same temporary, and may have emptied it.
Shared(t, k) ==
  \E j \in Tasks \ {k} : recv[t][j].at = "reading" /\ recv[t][j].dest = recv[t][k].dest

\* Every byte came and then the end of the stream: whatever has the temporary's
\* name by now is renamed.
Place(t, k) ==
  LET dest == recv[t][k].dest
      tmp == TempBeside(dest)
  IN /\ recv[t][k].at = "reading"
     /\ conn[t][recv[t][k].via] = "sent"
     /\ disk[tmp] # NoFile
     /\ \E now \in {disk[tmp], File(t, "whole")} :
          /\ IF disk[tmp] = File(t, "partial") THEN now = disk[tmp] => Shared(t, k) ELSE now = disk[tmp]
          /\ disk' = [disk EXCEPT ![tmp] = NoFile, ![dest] = now]
     /\ recv' = [recv EXCEPT ![t][k] = Task("placed", 0, dest)]
     /\ UNCHANGED <<core, running, events, files, send, conn, people>>

Placed(t, k) ==
  /\ recv[t][k].at = "placed"
  /\ Forget(R, t)
  /\ EndTask(t, k, TRUE)
  /\ UNCHANGED <<core, running, send, conn, disk, people>>

\* Too few bytes, too many, or an error: the temporary goes, and the
\* reservation.
ReadFails(t, k) ==
  LET dest == recv[t][k].dest
  IN /\ recv[t][k].at = "reading"
     /\ disk' = Unreserve([disk EXCEPT ![TempBeside(dest)] = NoFile], dest)
     /\ Forget(R, t)
     /\ EndTask(t, k, FALSE)
     /\ UNCHANGED <<core, running, send, conn, people>>

-----------------------------------------------------------------------------
(* The sending task. *)

Listens(t, k) ==
  \/ incoming[t].listening = k
  \/ \E j \in Tasks : recv[t][j].at = "waiting" /\ recv[t][j].via = k

\* FileBulk::send: the file is opened and the endpoint dialled.
Dial(t, k) ==
  /\ send[t][k] = "spawned"
  /\ t \in outgoing
  /\ Listens(t, k)
  /\ send' = [send EXCEPT ![t][k] = "sending"]
  /\ conn' = [conn EXCEPT ![t][k] = "open"]
  /\ UNCHANGED <<core, running, events, files, recv, disk, people>>

\* Everything is written and the end of file with it.
SendDone(t, k) ==
  /\ send[t][k] = "sending"
  /\ send' = [send EXCEPT ![t][k] = "over"]
  /\ conn' = [conn EXCEPT ![t][k] = "sent"]
  /\ Forget(S, t)
  /\ Post(S, Note("finished", t, 0, TRUE))
  /\ UNCHANGED <<core, running, recv, disk, people>>

\* Nothing to send, nobody listening, or the connection breaks.
SendFails(t, k) ==
  /\ send[t][k] \in {"spawned", "sending"}
  /\ send' = [send EXCEPT ![t][k] = "over"]
  /\ Hangup(t, k)
  /\ IF t \in outgoing THEN Forget(S, t) ELSE UNCHANGED files
  /\ Post(S, Note("finished", t, 0, FALSE))
  /\ UNCHANGED <<core, running, recv, disk, people>>

-----------------------------------------------------------------------------
People(t) ==
  \/ Offer(t) \/ PressAccept(t) \/ PressReject(t)
  \/ \E e \in Ends : Cancel(e, t)

Core(t) ==
  \/ OnAccept(t) \/ OnReject(t) \/ OnOffer(t) \/ OnStarted(t) \/ GiveUp(t)
  \/ \E e \in Ends, ok \in BOOLEAN :
       \/ OnFinished(e, t, ok)
       \/ \E ty \in {"reject", "finished"} : OnEnding(e, Note(ty, t, 0, ok))
  \/ \E k \in Tasks : OnAccepted(t, k) \/ OnListening(t, k)

Receiving(t, k) ==
  \/ Listen(t, k) \/ ListenFails(t, k) \/ TakeListener(t, k)
  \/ Accept(t, k) \/ AcceptFails(t, k)
  \/ Read(t, k) \/ CreateFails(t, k) \/ Place(t, k) \/ Placed(t, k) \/ ReadFails(t, k)

Sending(t, k) == Dial(t, k) \/ SendDone(t, k) \/ SendFails(t, k)

Next ==
  \/ Connect
  \/ \E e \in Ends : Disconnect(e)
  \/ \E t \in Transfers : People(t) \/ Core(t)
  \/ \E t \in Transfers, k \in Tasks : Receiving(t, k) \/ Sending(t, k)

Spec == Init /\ [][Next]_vars

-----------------------------------------------------------------------------
(* Properties. *)

\* However the endings of the two ends race (a task's report, the other's
\* message, a deadline, a refusal), each host hears of one ending at most.
EndsOnce == \A e \in Ends, t \in Transfers : Len(told[e][t]) <= 1

\* Nobody is told that a file went across, and no file is in place, unless
\* every byte of it and the end of file were sent ("a failed transfer, not a
\* short file", PROTOCOL.md).
WasSent(t) == \E k \in Tasks : conn[t][k] = "sent"
SuccessIsReal ==
  /\ \A e \in Ends, t \in Transfers : told[e][t] = <<TRUE>> => WasSent(t)
  /\ \A p \in Paths : disk[p].is = "whole" => WasSent(disk[p].of)

Unconnected(t, k) == recv[t][k].at \in {"spawned", "bound", "waiting"}

\* An offer accepted once holds its port no longer than the deadline allows:
\* while its task has no connection, the deadline is set and would abort
\* this very task (BULK_DIAL_WAIT_MS).
ListenerIsTimed ==
  \A t \in Transfers, k \in Tasks :
    pressed[t] <= 1 /\ Unconnected(t, k) => t \in wait /\ running[R][t] = k

\* "It never replaces a file already there" (PROTOCOL.md), as far as the code
\* keeps it: while no offer was accepted twice, a file that was there before or
\* came whole stays as it is, whatever is received after it, unless its name is
\* that of a temporary (temp_beside claims no name).
AcceptedOnce == \A t \in Transfers : pressed[t] <= 1
NeverReplaced ==
  [][\A p \in Paths :
       AcceptedOnce /\ p[2] = 0 /\ disk[p].is \in {"whole", "kept"} => disk'[p] = disk[p]]_vars

\* "The port and the reserved filename go back before anyone is told the
\* transfer is over" (on_tick): once the receiving host hears of a failure of
\* an offer accepted once, no reservation of it is left.
ReservationGoesBack ==
  \A t \in Transfers, p \in Paths :
    told[R][t] = <<FALSE>> /\ pressed[t] <= 1 => disk[p] # File(t, "reserved")
=============================================================================
