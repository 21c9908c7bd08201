------------------------------ MODULE AutoSync ------------------------------
(***************************************************************************)
(* Automatic synchronization of one scope: the daily claim                 *)
(* (auto_schedule.py), the watchers that make it (ProjectRuntime.watch,    *)
(* PersonalSync.watch, the launcher of sync_autostart.py) and the process  *)
(* tree of an attempt (auto_worker.py): the watcher runs a supervisor,     *)
(* which runs the worker.                                                  *)
(*                                                                         *)
(* Watcher and supervisor both execute run_auto_worker, one level apart:   *)
(* a guardian record says where.  Time passes in ticks of one worker       *)
(* timeout or less; what takes seconds at most (starting, stopping and     *)
(* reaping a process) is over before the next tick.                        *)
(***************************************************************************)
EXTENDS Integers, Sequences

CONSTANTS
  Loops,         \* watch commands that run until they are stopped
  Launchers,     \* one-cycle watches that the system's timer starts
  Interval,      \* DAILY_INTERVAL
  Timeout,       \* AUTO_TIMEOUT
  MinSleep,      \* the interval option of a watch command
  JobObject,     \* TRUE where the death of a supervisor takes its worker along
  MaxTime, MaxFaults

Watchers == Loops \union Launchers

ASSUME AutoAssumption ==
  /\ Interval \in Nat /\ Timeout \in Nat \ {0} /\ Timeout < Interval
  /\ MinSleep \in 1..Interval
  /\ JobObject \in BOOLEAN /\ MaxTime \in Nat /\ MaxFaults \in Nat

VARIABLES
  now,       \* time.time
  marker,    \* last-attempt.json of the scope
  legacy,    \* last-attempt.json under the profile's old identity
  auto,      \* the setting
  watch,     \* per watcher: its state and, while it runs an attempt, its guardian
  trees,     \* the attempts so far: supervisor, worker
  attempts,  \* history: the times of all attempts
  faults

vars == <<now, marker, legacy, auto, watch, trees, attempts, faults>>

None == -1         \* no marker
Invalid == -2      \* a marker that does not parse

-----------------------------------------------------------------------------
(* run_auto_worker *)

NoGuardian == [pc |-> "none", pending |-> FALSE, since |-> 0, term |-> FALSE]

\* Popen has started: signals are held back until it has returned.
Spawning(t) == [pc |-> "spawn", pending |-> FALSE, since |-> t, term |-> FALSE]

\* Slip: a signal cancels at once, whether or not the child is known yet.
CancelledAtOnce(g) ==
  IF g.pc = "wait" THEN [g EXCEPT !.pc = "stop", !.term = TRUE]
  ELSE IF g.pc = "spawn" THEN [g EXCEPT !.pc = "gone"]
  ELSE g

\* _cancel_on_termination: the handler of TERM, HUP and INT.  While the child is
\* being started or reaped it takes note only.
Cancelled(g) ==
  IF g.pc = "wait" THEN [g EXCEPT !.pc = "stop", !.term = TRUE]
  ELSE [g EXCEPT !.pending = TRUE]

\* The handle of the child is known; a signal that came before is acted upon.
Acquired(g) == IF g.pending THEN [g EXCEPT !.pc = "stop", !.term = TRUE] ELSE [g EXCEPT !.pc = "wait"]

\* Slip: the wait for the child has no limit.
TimedOutNever(g) == FALSE

\* process.wait(timeout)
TimedOut(g) == g.pc = "wait" /\ now >= g.since + Timeout

-----------------------------------------------------------------------------
(* Attempts *)

\* The tree of a new attempt: a Python process that will be the supervisor.
NewTree(w) == [by |-> w, sup |-> [NoGuardian EXCEPT !.pc = "boot"], wkr |-> "none", at |-> now, killed |-> FALSE]

Alive(k) == trees[k].sup.pc # "gone"
WorkerRuns(k) == trees[k].wkr \in {"boot", "run"}

\* The supervisor is gone: its job object ends the worker, where there is one.
WithoutSupervisor(t) ==
  [t EXCEPT !.sup = [@ EXCEPT !.pc = "gone"],
            !.wkr = IF JobObject /\ @ \in {"boot", "run"} THEN "gone" ELSE @]

\* SIGTERM reaches the supervisor: before it has its handlers it just dies.
Terminated(t) ==
  IF t.sup.pc = "boot" THEN WithoutSupervisor(t)
  ELSE IF t.sup.pc = "gone" THEN t
  ELSE [t EXCEPT !.sup = Cancelled(@)]

\* SIGKILL reaches it.
Killed(t) == [WithoutSupervisor(t) EXCEPT !.killed = t.sup.pc # "gone"]

SetTree(k, t) == trees' = [trees EXCEPT ![k] = t]
TreeStep == UNCHANGED <<now, marker, legacy, auto, watch, attempts, faults>>

\* main with --supervise: the worker is started in a session of its own.
SupervisorStarts(k) ==
  /\ trees[k].sup.pc = "boot"
  /\ SetTree(k, [trees[k] EXCEPT !.sup = Spawning(now), !.wkr = "boot"])
  /\ TreeStep

SupervisorAcquires(k) ==
  /\ trees[k].sup.pc = "spawn"
  /\ SetTree(k, [trees[k] EXCEPT !.sup = Acquired(@)])
  /\ TreeStep

SupervisorTimesOut(k) ==
  /\ TimedOut(trees[k].sup)
  /\ SetTree(k, [trees[k] EXCEPT !.sup.pc = "stop"])
  /\ TreeStep

\* The worker has ended, or must end: _stop_tree kills its session and waits.
SupervisorReaps(k) ==
  /\ \/ trees[k].sup.pc = "stop"
     \/ trees[k].sup.pc = "wait" /\ trees[k].wkr = "gone"
  /\ SetTree(k, WithoutSupervisor([trees[k] EXCEPT !.wkr = "gone"]))
  /\ TreeStep

\* main without --supervise: the setting is read again before any work.
WorkerStarts(k) ==
  /\ trees[k].wkr = "boot"
  /\ SetTree(k, [trees[k] EXCEPT !.wkr = IF auto THEN "run" ELSE "gone"])
  /\ TreeStep

WorkerEnds(k) ==
  /\ trees[k].wkr = "run"
  /\ SetTree(k, [trees[k] EXCEPT !.wkr = "gone"])
  /\ TreeStep

SupervisorStep(k) ==
  SupervisorStarts(k) \/ SupervisorAcquires(k) \/ SupervisorTimesOut(k) \/ SupervisorReaps(k)

-----------------------------------------------------------------------------
(* The claim *)

\* Slip: the profile's old identity is not looked at.
PreviousOfScope == marker

\* The latest attempt known, under either identity.
Previous == IF legacy > marker THEN legacy ELSE marker

Readable == marker # Invalid /\ legacy # Invalid
Due == Previous + Interval
Claimable == Previous = None \/ now >= Due

-----------------------------------------------------------------------------
(* Watchers *)

Off == [pc |-> "off", wake |-> 0, start |-> 0, guardian |-> NoGuardian, tree |-> 0]

SetWatch(w, r) == watch' = [watch EXCEPT ![w] = r]

\* When a watcher runs again: a launcher when the system's timer says so, a loop
\* when the slot is due but never before its minimum.
WakeAt(w, due) ==
  IF w \in Launchers THEN watch[w].start + Interval
  ELSE IF due > now + MinSleep THEN due ELSE now + MinSleep

Asleep(w, due) == [Off EXCEPT !.pc = "sleep", !.wake = WakeAt(w, due)]

\* The process of a watcher has ended: the system's timer will start another.
Ended(w) ==
  IF w \in Launchers /\ auto THEN [Off EXCEPT !.pc = "sleep", !.wake = watch[w].start + Interval] ELSE Off

WatchStep == UNCHANGED <<now, legacy, auto, faults>>

\* A user starts a loop.
StartLoop(w) ==
  /\ w \in Loops /\ watch[w].pc = "off" /\ auto
  /\ SetWatch(w, [Off EXCEPT !.pc = "claim", !.start = now])
  /\ UNCHANGED <<marker, trees, attempts>> /\ WatchStep

\* A cycle begins: personal watches read the setting, and end when it is off.
Wake(w) ==
  /\ watch[w].pc = "sleep" /\ now >= watch[w].wake
  /\ SetWatch(w, IF auto THEN [Off EXCEPT !.pc = "claim", !.start = now] ELSE Off)
  /\ UNCHANGED <<marker, trees, attempts>> /\ WatchStep

\* claim_auto_sync, in a lock of its own: an attempt before the slot is due is
\* deferred; a claim is recorded before any work; and an old identity's attempt
\* is taken over.
Claim(w) ==
  /\ watch[w].pc = "claim"
  /\ \/ /\ ~Readable
        /\ SetWatch(w, Asleep(w, now + Interval))
        /\ UNCHANGED <<marker, trees, attempts>>
     \/ /\ Readable /\ ~Claimable
        /\ marker' = Previous
        /\ SetWatch(w, Asleep(w, Due))
        /\ UNCHANGED <<trees, attempts>>
     \/ /\ Readable /\ Claimable /\ now + Timeout <= MaxTime
        /\ marker' = now
        /\ attempts' = Append(attempts, now)
        /\ trees' = Append(trees, NewTree(w))
        /\ SetWatch(w, [watch[w] EXCEPT !.pc = "run", !.guardian = Spawning(now), !.tree = Len(trees) + 1])
  /\ WatchStep

\* The profile lock is busy for a second.
ClaimFails(w) ==
  /\ watch[w].pc = "claim" /\ faults < MaxFaults
  /\ faults' = faults + 1
  /\ SetWatch(w, Asleep(w, now + Interval))
  /\ UNCHANGED <<now, marker, legacy, auto, trees, attempts>>

RunStep == UNCHANGED <<marker, attempts>> /\ WatchStep

WatcherAcquires(w) ==
  /\ watch[w].pc = "run" /\ watch[w].guardian.pc = "spawn"
  /\ SetWatch(w, [watch[w] EXCEPT !.guardian = Acquired(@)])
  /\ UNCHANGED trees /\ RunStep

WatcherTimesOut(w) ==
  /\ watch[w].pc = "run" /\ TimedOut(watch[w].guardian)
  /\ SetWatch(w, [watch[w] EXCEPT !.guardian.pc = "stop"])
  /\ UNCHANGED trees /\ RunStep

\* _stop_tree, graceful: the supervisor gets a SIGTERM, and time to act on it.
StopTree(w) ==
  /\ watch[w].pc = "run" /\ watch[w].guardian.pc = "stop"
  /\ SetWatch(w, [watch[w] EXCEPT !.guardian.pc = "reap"])
  /\ SetTree(watch[w].tree, Terminated(trees[watch[w].tree]))
  /\ RunStep

\* Five seconds are over while the supervisor is still starting its worker.
GraceExpires(w) ==
  /\ watch[w].pc = "run" /\ watch[w].guardian.pc = "reap"
  /\ trees[watch[w].tree].sup.pc = "spawn" /\ faults < MaxFaults
  /\ faults' = faults + 1
  /\ SetTree(watch[w].tree, Killed(trees[watch[w].tree]))
  /\ UNCHANGED <<now, marker, legacy, auto, watch, attempts>>

\* The supervisor has ended.  A cancelled watcher ends, any other goes on,
\* whatever the result was.
WatcherReaps(w) ==
  /\ watch[w].pc = "run" /\ watch[w].guardian.pc \in {"wait", "reap"}
  /\ ~Alive(watch[w].tree)
  /\ SetWatch(w, IF watch[w].guardian.term THEN Ended(w) ELSE Asleep(w, marker + Interval))
  /\ UNCHANGED trees /\ RunStep

WatcherStep(w) ==
  Claim(w) \/ WatcherAcquires(w) \/ WatcherTimesOut(w) \/ StopTree(w) \/ WatcherReaps(w)

-----------------------------------------------------------------------------
(* The setting *)

\* SIGTERM reaches a watcher.
Stopped(w) ==
  IF watch[w].pc = "run" THEN [watch[w] EXCEPT !.guardian = Cancelled(@)] ELSE Ended(w)

\* set_auto: the setting is saved, and then the system's timer is installed
\* afresh or removed; either stops a cycle of it that is running.
SetAuto(enabled) ==
  /\ auto # enabled /\ faults < MaxFaults
  /\ faults' = faults + 1
  /\ auto' = enabled
  /\ watch' = [w \in Watchers |->
       IF w \in Loops THEN watch[w]
       ELSE IF watch[w].pc = "run" THEN [Stopped(w) EXCEPT !.start = now]
       ELSE IF enabled THEN [Off EXCEPT !.pc = "sleep", !.wake = now + Interval] ELSE Off]
  /\ UNCHANGED <<now, marker, legacy, trees, attempts>>

-----------------------------------------------------------------------------
(* Signals from outside *)

Fault == faults < MaxFaults /\ faults' = faults + 1

TermWatcher(w) ==
  /\ Fault /\ watch[w].pc \in {"claim", "run"} \union (IF w \in Loops THEN {"sleep"} ELSE {})
  /\ SetWatch(w, Stopped(w))
  /\ UNCHANGED <<now, marker, legacy, auto, trees, attempts>>

KillWatcher(w) ==
  /\ Fault /\ watch[w].pc \in {"claim", "run"} \union (IF w \in Loops THEN {"sleep"} ELSE {})
  /\ SetWatch(w, Ended(w))
  /\ UNCHANGED <<now, marker, legacy, auto, trees, attempts>>

TermSupervisor(k) ==
  /\ Fault /\ Alive(k)
  /\ SetTree(k, Terminated(trees[k]))
  /\ UNCHANGED <<now, marker, legacy, auto, watch, attempts>>

KillSupervisor(k) ==
  /\ Fault /\ Alive(k)
  /\ SetTree(k, Killed(trees[k]))
  /\ UNCHANGED <<now, marker, legacy, auto, watch, attempts>>

-----------------------------------------------------------------------------
\* Time passes when nothing that takes only seconds is under way.
Settled ==
  /\ \A w \in Watchers : /\ watch[w].pc # "claim" \/ now + Timeout > MaxTime
                         /\ watch[w].pc = "sleep" => now < watch[w].wake
                         /\ watch[w].pc = "run" => watch[w].guardian.pc = "wait"
                                                   /\ ~TimedOut(watch[w].guardian)
                                                   /\ Alive(watch[w].tree)
  /\ \A k \in DOMAIN trees : /\ trees[k].sup.pc \in {"wait", "gone"} /\ ~TimedOut(trees[k].sup)
                             /\ trees[k].sup.pc = "wait" => trees[k].wkr = "run"
                             /\ trees[k].wkr # "boot"

Tick ==
  /\ now < MaxTime /\ Settled
  /\ now' = now + 1
  /\ UNCHANGED <<marker, legacy, auto, watch, trees, attempts, faults>>

Init ==
  /\ now = 0 /\ marker = None
  /\ legacy \in {None, Invalid, 0}
  /\ auto = TRUE
  /\ watch = [w \in Watchers |->
       IF w \in Launchers THEN [Off EXCEPT !.pc = "sleep", !.wake = Interval] ELSE Off]
  /\ trees = <<>>
  /\ attempts = IF legacy = 0 THEN <<0>> ELSE <<>>
  /\ faults = 0

Next ==
  \/ \E w \in Watchers : \/ StartLoop(w) \/ Wake(w) \/ WatcherStep(w)
                         \/ ClaimFails(w) \/ GraceExpires(w) \/ TermWatcher(w) \/ KillWatcher(w)
  \/ \E k \in DOMAIN trees : \/ SupervisorStep(k) \/ WorkerStarts(k) \/ WorkerEnds(k)
                             \/ TermSupervisor(k) \/ KillSupervisor(k)
  \/ \E enabled \in BOOLEAN : SetAuto(enabled)
  \/ Tick

Spec == Init /\ [][Next]_vars

\* Processes go on, time passes; nothing makes a worker end by itself.
FairSpec ==
  /\ Spec
  /\ WF_vars(Tick)
  /\ \A w \in Watchers : WF_vars(Wake(w)) /\ WF_vars(WatcherStep(w))
  /\ \A k \in 1..MaxTime : WF_vars(k \in DOMAIN trees /\ (SupervisorStep(k) \/ WorkerStarts(k)))

-----------------------------------------------------------------------------
\* Types; and an attempt has one tree and one entry in the history.
TypeOK ==
  /\ now \in 0..MaxTime /\ {marker, legacy} \subseteq {None, Invalid} \union 0..MaxTime
  /\ auto \in BOOLEAN /\ faults \in 0..MaxFaults
  /\ \A w \in Watchers : /\ watch[w].pc \in {"off", "sleep", "claim", "run"}
                         /\ watch[w].pc = "run" <=> watch[w].tree \in DOMAIN trees
  /\ \A k \in DOMAIN trees : /\ trees[k].sup.pc \in {"boot", "spawn", "wait", "stop", "gone"}
                             /\ trees[k].wkr \in {"none", "boot", "run", "gone"}
  /\ Len(attempts) = Len(trees) + (IF legacy = 0 THEN 1 ELSE 0)

\* "A failed attempt consumes the daily slot", "Migration never resets a daily
\* slot": whatever watchers run, die and start again, two attempts are a full
\* interval apart.
AttemptsApart == \A i \in 1..Len(attempts) - 1 : attempts[i + 1] >= attempts[i] + Interval

\* "no timed-out thread keeps writing": a worker runs under a live supervisor and
\* within its time; a watcher that has moved on, or ended after a signal, has
\* left none behind; and no two run at a time.  The exception is a supervisor
\* that was killed outright on a system without job objects.
WorkersContained ==
  /\ \A k \in DOMAIN trees : WorkerRuns(k) => \/ trees[k].killed /\ ~JobObject
                                              \/ Alive(k) /\ now <= trees[k].at + Timeout
  /\ \A j, k \in DOMAIN trees : WorkerRuns(j) /\ WorkerRuns(k) /\ ~trees[j].killed => j >= k

\* A watcher that sleeps is back before two intervals have passed since the
\* last attempt, unless its claim failed.
AttemptsKeepUp ==
  faults = 0 /\ Readable /\ marker # None =>
    \A w \in Watchers : watch[w].pc = "sleep" => watch[w].wake < marker + 2 * Interval

\* One automatic attempt a day: not sooner, and hardly later.
AttemptsDaily == TypeOK /\ AttemptsApart /\ AttemptsKeepUp

\* "with a hard process-tree deadline": every worker ends, whoever is killed,
\* unless its supervisor was.
WorkersEnd ==
  \A k \in 1..MaxTime : []<>(k \in DOMAIN trees => ~WorkerRuns(k) \/ trees[k].killed)
=============================================================================
