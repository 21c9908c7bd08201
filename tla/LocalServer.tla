----------------------------- MODULE LocalServer -----------------------------
(***************************************************************************)
(* The HTTP servers of the project and the clipboard.                      *)
(*                                                                         *)
(* BoundedThreadingHTTPServer (http_resources.py) admits a connection      *)
(* before it creates a thread for it, and must give back every slot and    *)
(* end every thread when it closes.  It carries the relay (sync_server.py, *)
(* which bounds the requests as well) and the local admin UI (server.py,   *)
(* api.py), which stops when idle, when its owner quits or when asked.     *)
(*                                                                         *)
(* The UI copies secrets to the clipboard from its handler threads and     *)
(* clears them from one scheduler thread; keys copy leaves that to a       *)
(* process of its own (clipboard.py).  Delays and deadlines may elapse at  *)
(* any moment.                                                             *)
(***************************************************************************)
EXTENDS Integers, FiniteSets

CONSTANTS
  Conns,         \* the connections that clients make
  Browser,       \* those of them that reach an admin server
  Entries,       \* entries with a secret to copy
  Commands,      \* keys copy commands
  MaxWorkers,    \* handler threads
  RequestSlots   \* concurrent_requests of the relay

ASSUME ServerAssumption ==
  /\ MaxWorkers \in Nat \ {0} /\ RequestSlots \in Nat \ {0}
  /\ IsFiniteSet(Conns) /\ Browser \subseteq Conns

VARIABLES
  role,       \* "admin" or "relay"
  conn,       \* per connection: how far it is
  entry,      \* per connection: the entry its request is about
  slots,      \* _capacity
  requests,   \* _request_slots
  open,       \* _connections
  closing,    \* _closing; the cancel writer is closed with it
  reader,     \* "open" or "closed": the cancel reader
  thread,     \* the thread in serve_forever
  stopping,   \* _stop_event
  shutdown,   \* shutdown was requested
  stopper,    \* per caller of stop: how far it is
  alive,      \* the process
  clipboard, pending, cleaner,   \* the clipboard and _ClearScheduler
  command,    \* per command: how far it and its daemon are
  excused     \* history: why no one may be about to clear the secret in the clipboard

server == <<slots, requests, open, closing, reader>>
lifecycle == <<thread, stopping, shutdown, stopper, alive>>
board == <<clipboard, pending, cleaner, command, excused>>
serverVars == <<role, conn, entry, server, lifecycle, board>>

Empty == "empty"
Foreign == "foreign"   \* what the user copies elsewhere
NoEntry == "none"
Dead == "dead"         \* cleaner, when its thread has ended
Stoppers == {"watchdog", "owner"}

ASSUME EntriesAssumption == Entries \intersect {Empty, Foreign, NoEntry, Dead} = {}

Admin == role = "admin"

-----------------------------------------------------------------------------
(* Admission: the thread in serve_forever *)

Goto(c, pc) == conn' = [conn EXCEPT ![c] = pc]

\* At most one connection is on its way to a handler thread.
Admitting(c) == conn[c] \in {"slot", "listed"}

\* _close_cancel_reader_if_unused, with closing and _connections as given.
ReaderAfter(isClosing, connections) ==
  IF isClosing /\ connections = {} THEN "closed" ELSE reader

\* process_request, its first test: no thread without a slot.
Accept(c) ==
  /\ alive /\ thread = "loop" /\ ~shutdown
  /\ conn[c] = "new" /\ (Admin => c \in Browser) /\ \A d \in Conns : ~Admitting(d)
  /\ IF closing \/ slots = 0
     THEN Goto(c, "closed") /\ UNCHANGED slots
     ELSE Goto(c, "slot") /\ slots' = slots - 1
  /\ UNCHANGED <<role, entry, requests, open, closing, reader, lifecycle, board>>

\* The second test, under the lock of _connections.
Register(c) ==
  /\ alive /\ conn[c] = "slot"
  /\ IF closing
     THEN Goto(c, "closed") /\ slots' = slots + 1 /\ UNCHANGED open
     ELSE Goto(c, "listed") /\ open' = open \union {c} /\ UNCHANGED slots
  /\ UNCHANGED <<role, entry, requests, closing, reader, lifecycle, board>>

\* The thread is started, or cannot be.
StartThread(c) ==
  /\ alive /\ conn[c] = "listed"
  /\ Goto(c, "queued")
  /\ UNCHANGED <<role, entry, server, lifecycle, board>>

ThreadFails(c) ==
  /\ alive /\ conn[c] = "listed"
  /\ Goto(c, "closed")
  /\ open' = open \ {c} /\ reader' = ReaderAfter(closing, open \ {c})
  /\ slots' = slots + 1
  /\ UNCHANGED <<role, entry, requests, closing, lifecycle, board>>

-----------------------------------------------------------------------------
(* A handler thread *)

HandlerStep == UNCHANGED <<role, lifecycle>>

\* process_request_thread
Begin(c) ==
  /\ alive /\ conn[c] = "queued"
  /\ IF closing THEN Goto(c, "leave") ELSE Goto(c, "read")
  /\ UNCHANGED <<entry, server, board>> /\ HandlerStep

\* The headers do not come: the deadline is over, the client is gone, the
\* request is malformed, or the server is closing and the cancel reader says so.
ReadFails(c) ==
  /\ alive /\ conn[c] = "read"
  /\ Goto(c, "leave")
  /\ UNCHANGED <<entry, server, board>> /\ HandlerStep

\* The admin checks the token, and the watchdog sees the activity.
Dispatch(c) ==
  /\ alive /\ Admin /\ conn[c] = "read" /\ ~closing
  /\ Goto(c, "body")
  /\ UNCHANGED <<entry, server, board>> /\ HandlerStep

\* request_slot: the relay takes one, or answers that it is busy.
TakeRequestSlot(c) ==
  /\ alive /\ ~Admin /\ conn[c] = "read" /\ ~closing
  /\ IF requests = 0
     THEN Goto(c, "leave") /\ UNCHANGED requests
     ELSE Goto(c, "body") /\ requests' = requests - 1
  /\ UNCHANGED <<entry, slots, open, closing, reader, board>> /\ HandlerStep

\* The body does not come, or is refused; the relay's request slot is held until
\* then.
BodyFails(c) ==
  /\ alive /\ conn[c] = "body"
  /\ Goto(c, "leave")
  /\ requests' = IF Admin THEN requests ELSE requests + 1
  /\ UNCHANGED <<entry, slots, open, closing, reader, board>> /\ HandlerStep

\* The body is in, and the request is served: one of the relay's transactions,
\* or a page or an operation of the admin.
Serve(c) ==
  /\ alive /\ conn[c] = "body" /\ ~closing
  /\ Goto(c, "leave")
  /\ requests' = IF Admin THEN requests ELSE requests + 1
  /\ UNCHANGED <<entry, slots, open, closing, reader, board>> /\ HandlerStep

\* _copy, up to the clipboard.
CopyWrite(c, e) ==
  /\ alive /\ Admin /\ conn[c] = "body" /\ ~closing
  /\ Goto(c, "wrote")
  /\ entry' = [entry EXCEPT ![c] = e]
  /\ clipboard' = e /\ excused' = "no"
  /\ UNCHANGED <<server, pending, cleaner, command>> /\ HandlerStep

\* The clipboard's helper fails, and may have emptied or even set the clipboard
\* before it was given up.
HelperFails(e) ==
  \/ clipboard' = Empty /\ UNCHANGED excused
  \/ clipboard' = e /\ excused' = "failed"

CopyFails(c, e) ==
  /\ alive /\ Admin /\ conn[c] = "body" /\ ~closing
  /\ Goto(c, "leave")
  /\ HelperFails(e)
  /\ UNCHANGED <<entry, server, pending, cleaner, command>> /\ HandlerStep

\* Slip: the first copy's timer stays until it has run.
ScheduledOnce(e, after) == IF pending = NoEntry /\ after THEN e ELSE pending

\* schedule: the latest copy replaces what is pending; no delay, no clearing.
Scheduled(e, after) == IF after THEN e ELSE NoEntry

\* The one copy that nobody clears from here on: because its user asked for
\* that, or because a copy that it has overtaken takes the place of its timer.
Unscheduled(c, after) ==
  IF entry[c] = clipboard THEN (IF after THEN excused ELSE "asked")
  ELSE IF pending = clipboard THEN "overtaken" ELSE excused

\* schedule_clear_after, which another copy may have overtaken.
CopySchedule(c, after) ==
  /\ alive /\ conn[c] = "wrote"
  /\ Goto(c, "leave")
  /\ pending' = Scheduled(entry[c], after)
  /\ excused' = Unscheduled(c, after)
  /\ UNCHANGED <<entry, server, clipboard, cleaner, command>> /\ HandlerStep

\* /api/shutdown: the answer is sent, and the process exits at once.
Quit(c) ==
  /\ alive /\ Admin /\ conn[c] = "body" /\ ~closing
  /\ alive' = FALSE
  /\ excused' = "exited"
  /\ UNCHANGED <<role, conn, entry, server, thread, stopping, shutdown, stopper,
                 clipboard, pending, cleaner, command>>

\* The finally of process_request_thread: the connection is forgotten ...
Forget(c) ==
  /\ alive /\ conn[c] = "leave"
  /\ Goto(c, "release")
  /\ open' = open \ {c} /\ reader' = ReaderAfter(closing, open \ {c})
  /\ UNCHANGED <<entry, slots, requests, closing, board>> /\ HandlerStep

\* ... and then its slot is given back.
Release(c) ==
  /\ alive /\ conn[c] = "release"
  /\ Goto(c, "closed")
  /\ slots' = slots + 1
  /\ UNCHANGED <<entry, requests, open, closing, reader, board>> /\ HandlerStep

AdmissionStep(c) == Register(c) \/ StartThread(c)

\* What a handler does by itself, at the latest when its deadline is over.
HandlerGoesOn(c) ==
  Begin(c) \/ ReadFails(c) \/ BodyFails(c) \/ CopySchedule(c, TRUE) \/ Forget(c) \/ Release(c)

-----------------------------------------------------------------------------
(* Closing *)

\* Slip: the cancel reader is closed along with the writer.
ClosedWhole == closing' = TRUE /\ reader' = "closed"

\* server_close: no connection is admitted from here on, and every reader wakes.
Closed == closing' = TRUE /\ reader' = ReaderAfter(TRUE, open)

LifeStep == UNCHANGED <<role, conn, entry, slots, requests, open, board>>

\* Slip: the loop is entered even if the server was stopped before.
StartServingAnyway ==
  /\ alive /\ thread = "bound"
  /\ thread' = "loop"
  /\ UNCHANGED <<closing, reader, stopping, shutdown, stopper, alive>> /\ LifeStep

\* AdminServer.serve_forever, and that of the relay.
StartServing ==
  /\ alive /\ thread = "bound"
  /\ thread' = IF stopping THEN "returned" ELSE "loop"
  /\ UNCHANGED <<closing, reader, stopping, shutdown, stopper, alive>> /\ LifeStep

\* The loop sees the request between two connections; a signal interrupts the
\* relay's at any time.
LoopMayEnd == thread = "loop" /\ (\A c \in Conns : ~Admitting(c)) /\ (shutdown \/ ~Admin)
LoopEnded == thread \in {"close", "returned"}

LeaveLoop ==
  /\ alive /\ LoopMayEnd
  /\ thread' = "close"
  /\ UNCHANGED <<closing, reader, stopping, shutdown, stopper, alive>> /\ LifeStep

CloseAfterLoop ==
  /\ alive /\ thread = "close"
  /\ thread' = "returned" /\ Closed
  /\ UNCHANGED <<stopping, shutdown, stopper, alive>> /\ LifeStep

\* stop: by the idle watchdog or by the owner.
Stop(s) ==
  /\ alive /\ Admin /\ stopper[s] = "idle"
  /\ stopping' = TRUE
  /\ stopper' = [stopper EXCEPT ![s] = IF thread = "loop" THEN "shutdown" ELSE "close"]
  /\ UNCHANGED <<closing, reader, thread, shutdown, alive>> /\ LifeStep

RequestShutdown(s) ==
  /\ alive /\ stopper[s] = "shutdown"
  /\ shutdown' = TRUE
  /\ stopper' = [stopper EXCEPT ![s] = "wait"]
  /\ UNCHANGED <<closing, reader, thread, stopping, alive>> /\ LifeStep

AwaitShutdown(s) ==
  /\ alive /\ stopper[s] = "wait" /\ LoopEnded
  /\ stopper' = [stopper EXCEPT ![s] = "close"]
  /\ UNCHANGED <<closing, reader, thread, stopping, shutdown, alive>> /\ LifeStep

CloseAfterStop(s) ==
  /\ alive /\ stopper[s] = "close"
  /\ stopper' = [stopper EXCEPT ![s] = "done"] /\ Closed
  /\ UNCHANGED <<thread, stopping, shutdown, alive>> /\ LifeStep

\* The watchdog ends when someone else has stopped the server.
WatchdogMayEnd == Admin /\ stopping /\ stopper["watchdog"] = "idle"

WatchdogEnds ==
  /\ alive /\ WatchdogMayEnd
  /\ stopper' = [stopper EXCEPT !["watchdog"] = "done"]
  /\ UNCHANGED <<closing, reader, thread, stopping, shutdown, alive>> /\ LifeStep

StopperStep(s) == RequestShutdown(s) \/ AwaitShutdown(s) \/ CloseAfterStop(s)

\* keys serve returns when the loop has ended, and the threads end with it.
Exit ==
  /\ alive /\ thread = "returned"
  /\ alive' = FALSE
  /\ excused' = "exited"
  /\ UNCHANGED <<role, conn, entry, server, thread, stopping, shutdown, stopper,
                 clipboard, pending, cleaner, command>>

-----------------------------------------------------------------------------
(* The clipboard *)

BoardStep == UNCHANGED <<role, conn, entry, server, lifecycle>>

UserCopies ==
  /\ clipboard \in Entries /\ clipboard' = Foreign
  /\ UNCHANGED <<pending, cleaner, command, excused>> /\ BoardStep

\* The digest of the clipboard is that of the secret copied.
Matches(e) == clipboard = e

\* _take_due and the first half of _clear_if_matching: the delay is over, and
\* the clipboard is read.
TakeDue ==
  /\ alive /\ cleaner = NoEntry /\ pending # NoEntry
  /\ cleaner' = IF Matches(pending) THEN pending ELSE NoEntry
  /\ pending' = NoEntry
  /\ UNCHANGED <<clipboard, command, excused>> /\ BoardStep

\* The second half: whatever is there by now is cleared.
Clear ==
  /\ alive /\ cleaner \in Entries
  /\ clipboard' = Empty /\ cleaner' = NoEntry
  /\ UNCHANGED <<pending, command, excused>> /\ BoardStep

\* Either half fails (ClipboardUnavailable, OSError): that secret is given up.
ClearFails ==
  /\ alive
  /\ \/ /\ cleaner = NoEntry /\ pending # NoEntry
        /\ excused' = IF Matches(pending) THEN "failed" ELSE excused
        /\ pending' = NoEntry /\ UNCHANGED cleaner
     \/ /\ cleaner \in Entries
        /\ excused' = IF Matches(cleaner) THEN "failed" ELSE excused
        /\ cleaner' = NoEntry /\ UNCHANGED pending
  /\ UNCHANGED <<clipboard, command>> /\ BoardStep

\* What the user copied may be no text: the error of its decoding is none of
\* those, and ends the scheduler's thread, which is not started again.
SchedulerDies ==
  /\ alive /\ cleaner = NoEntry /\ pending # NoEntry /\ clipboard = Foreign
  /\ cleaner' = Dead /\ pending' = NoEntry
  /\ UNCHANGED <<clipboard, command, excused>> /\ BoardStep

\* cmd_copy
CommandWrites(k, e) ==
  /\ Admin /\ command[k] = [pc |-> "idle", entry |-> NoEntry]
  /\ command' = [command EXCEPT ![k] = [pc |-> "wrote", entry |-> e]]
  /\ clipboard' = e /\ excused' = "no"
  /\ UNCHANGED <<pending, cleaner>> /\ BoardStep

CommandFails(k, e) ==
  /\ Admin /\ command[k] = [pc |-> "idle", entry |-> NoEntry]
  /\ command' = [command EXCEPT ![k].pc = "done"]
  /\ HelperFails(e)
  /\ UNCHANGED <<pending, cleaner>> /\ BoardStep

\* spawn_clear_after: the daemon gets its own digest.
SpawnClearAfter(k) ==
  /\ command[k].pc = "wrote"
  /\ command' = [command EXCEPT ![k].pc = "sleep"]
  /\ UNCHANGED <<clipboard, pending, cleaner, excused>> /\ BoardStep

\* The daemon's delay is over.
DaemonReads(k) ==
  /\ command[k].pc = "sleep"
  /\ command' = [command EXCEPT ![k].pc = IF Matches(command[k].entry) THEN "clear" ELSE "done"]
  /\ UNCHANGED <<clipboard, pending, cleaner, excused>> /\ BoardStep

DaemonClears(k) ==
  /\ command[k].pc = "clear"
  /\ clipboard' = Empty
  /\ command' = [command EXCEPT ![k].pc = "done"]
  /\ UNCHANGED <<pending, cleaner, excused>> /\ BoardStep

\* No daemon was asked for or can be started, or its helper fails: this copy
\* stays, if it is still there.
NotCleared(k) ==
  /\ command[k].pc \in {"wrote", "sleep", "clear"}
  /\ command' = [command EXCEPT ![k].pc = "done"]
  /\ \/ Matches(command[k].entry) /\ command[k].pc = "wrote" /\ excused' = "asked"
     \/ Matches(command[k].entry) /\ excused' = "failed"
     \/ ~Matches(command[k].entry) /\ UNCHANGED excused
  /\ UNCHANGED <<clipboard, pending, cleaner>> /\ BoardStep

CommandStep(k) == SpawnClearAfter(k) \/ DaemonReads(k) \/ DaemonClears(k) \/ NotCleared(k)

-----------------------------------------------------------------------------
InitServer ==
  /\ role \in {"admin", "relay"}
  /\ conn = [c \in Conns |-> "new"] /\ entry = [c \in Conns |-> NoEntry]
  /\ slots = MaxWorkers /\ requests = RequestSlots /\ open = {}
  /\ closing = FALSE /\ reader = "open"
  /\ thread = "bound" /\ stopping = FALSE /\ shutdown = FALSE
  /\ stopper = [s \in Stoppers |-> "idle"] /\ alive = TRUE
  /\ clipboard = Empty /\ pending = NoEntry /\ cleaner = NoEntry
  /\ command = [k \in Commands |-> [pc |-> "idle", entry |-> NoEntry]]
  /\ excused = "no"

NextServer ==
  \/ \E c \in Conns : \/ Accept(c) \/ AdmissionStep(c) \/ ThreadFails(c) \/ HandlerGoesOn(c)
                      \/ Dispatch(c) \/ TakeRequestSlot(c) \/ Serve(c) \/ Quit(c) \/ CopySchedule(c, FALSE)
                      \/ \E e \in Entries : CopyWrite(c, e) \/ CopyFails(c, e)
  \/ StartServing \/ LeaveLoop \/ CloseAfterLoop \/ WatchdogEnds \/ Exit
  \/ \E s \in Stoppers : Stop(s) \/ StopperStep(s)
  \/ UserCopies \/ TakeDue \/ Clear \/ ClearFails \/ SchedulerDies
  \/ \E k \in Commands : CommandStep(k) \/ \E e \in Entries : CommandWrites(k, e) \/ CommandFails(k, e)

ServerSpec == InitServer /\ [][NextServer]_serverVars

-----------------------------------------------------------------------------
Holding == {c \in Conns : conn[c] \notin {"new", "closed"}}

ServerTypeOK ==
  /\ role \in {"admin", "relay"} /\ entry \in [Conns -> Entries \union {NoEntry}]
  /\ conn \in [Conns -> {"new", "slot", "listed", "queued", "read", "body", "wrote", "leave", "release", "closed"}]
  /\ slots \in 0..MaxWorkers /\ requests \in 0..RequestSlots /\ open \subseteq Conns
  /\ reader \in {"open", "closed"} /\ thread \in {"bound", "loop", "close", "returned"}
  /\ {closing, stopping, shutdown, alive} \subseteq BOOLEAN
  /\ excused \in {"no", "asked", "failed", "exited", "overtaken"}
  /\ stopper \in [Stoppers -> {"idle", "shutdown", "wait", "close", "done"}]
  /\ clipboard \in Entries \union {Empty, Foreign} /\ pending \in Entries \union {NoEntry}
  /\ cleaner \in Entries \union {NoEntry, Dead}
  /\ command \in [Commands -> [pc : {"idle", "wrote", "sleep", "clear", "done"}, entry : Entries \union {NoEntry}]]

\* "A queued handler owns a connection too, so its select descriptor survives
\* until that owner exits": every slot and every request slot is either free or
\* held by a connection that will give it back, and the cancel reader is open as
\* long as a thread may wait on it.
ResourcesAccounted ==
  /\ ServerTypeOK
  /\ slots + Cardinality(Holding) = MaxWorkers
  /\ ~Admin => requests + Cardinality({c \in Conns : conn[c] = "body"}) = RequestSlots
  /\ (\E c \in Conns : conn[c] \in {"listed", "queued", "read", "body", "wrote"}) => reader = "open"

\* What is left to do for the threads of a server: a connection to serve or to
\* give up, a loop to enter or leave, a stop to go through with.
AtWork ==
  \/ Holding # {}
  \/ thread \in {"bound", "close"} \/ LoopMayEnd \/ WatchdogMayEnd
  \/ \E s \in Stoppers : stopper[s] \in {"shutdown", "close"} \/ (stopper[s] = "wait" /\ LoopEnded)

\* A server that is told to stop does: when its threads have nothing left to do,
\* the loop has returned, no connection is admitted any more, the cancel reader
\* is closed, every slot is back, and whoever asked is done.
StopsCompletely ==
  alive /\ (stopping \/ closing) /\ ~AtWork =>
    /\ thread = "returned" /\ closing /\ reader = "closed"
    /\ slots = MaxWorkers /\ requests = RequestSlots
    /\ \A s \in Stoppers : stopper[s] \in {"idle", "done"}

\* Someone is about to clear just the secret that is in the clipboard.
AboutToClear ==
  \/ cleaner # Dead /\ clipboard = pending
  \/ clipboard = cleaner
  \/ \E c \in Conns : conn[c] = "wrote" /\ entry[c] = clipboard
  \/ \E k \in Commands : command[k].pc \in {"wrote", "sleep", "clear"} /\ command[k].entry = clipboard

\* A secret that was copied will leave the clipboard, whatever is copied before
\* and after.  The exceptions: its user asked for that, the clipboard's helper
\* failed, the process exited, an older copy was scheduled after it and took
\* the place of its timer, or the scheduler's thread has died.
CopiesCleared == clipboard \in Entries /\ excused = "no" /\ cleaner # Dead => AboutToClear
=============================================================================
