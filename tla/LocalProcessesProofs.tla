------------------------- MODULE LocalProcessesProofs -------------------------
(***************************************************************************)
(* Proofs about the two models of processes on one computer.               *)
(*                                                                         *)
(* AutoSync: the daily claim and the process trees, for every set of       *)
(* watchers and every interval, timeout and minimum sleep.  The claim is a *)
(* lock on time: it is made only a full interval after the last one, and a *)
(* worker lives at most a timeout, which is shorter.  So the invariant is  *)
(* about the clock: since when each guardian waits, and that time does not *)
(* pass beyond its deadline while it does.                                 *)
(*                                                                         *)
(* LocalServer: the bounded HTTP server and the clipboard, for every       *)
(* number of connections, handler threads and request slots.  The          *)
(* invariant counts: every slot is free or held by a connection that is    *)
(* somewhere on its way; and it says who is about to close the server once *)
(* someone was asked to.                                                   *)
(***************************************************************************)
EXTENDS AutoSync, LocalServer, FiniteSetTheorems, TLAPS

-----------------------------------------------------------------------------
(* AutoSync: the daily claim and the process trees *)

SupPcs == {"boot", "spawn", "wait", "stop", "gone"}
Sups == [pc : SupPcs, pending : BOOLEAN, since : Int, term : BOOLEAN]
Guardians ==
  [pc : {"none", "spawn", "wait", "stop", "reap"}, pending : BOOLEAN, since : Int, term : BOOLEAN]
WorkerPcs == {"none", "boot", "run", "gone"}
Trees == [by : Watchers, sup : Sups, wkr : WorkerPcs, at : Int, killed : BOOLEAN]
Watches ==
  [pc : {"off", "sleep", "claim", "run"}, wake : Int, start : Int, guardian : Guardians, tree : Nat]

Typed ==
  /\ now \in 0..MaxTime /\ marker \in {None} \union 0..MaxTime /\ legacy \in {None, Invalid, 0}
  /\ auto \in BOOLEAN /\ faults \in 0..MaxFaults
  /\ watch \in [Watchers -> Watches]
  /\ trees \in Seq(Trees) /\ attempts \in Seq(Int)
  /\ marker <= now
  /\ Len(attempts) = Len(trees) + (IF legacy = 0 THEN 1 ELSE 0)

\* No attempt is later than the one that is on record, and any two are apart.
Recorded ==
  /\ \A i \in DOMAIN attempts : attempts[i] <= Previous /\ attempts[i] >= 0
  /\ \A i, j \in DOMAIN attempts : i < j => attempts[i] + Interval <= attempts[j]
  /\ \A k \in DOMAIN trees : trees[k].at <= Previous
  /\ \A j, k \in DOMAIN trees : j < k => trees[j].at + Interval <= trees[k].at

\* A supervisor that lives has not outlived its deadline, and a worker without
\* one is there only because the supervisor was killed.
TreeSound(t) ==
  /\ t.sup.pc = "boot" => now = t.at /\ t.wkr = "none"
  /\ t.sup.pc \in {"spawn", "wait", "stop"} => t.sup.since = t.at /\ now <= t.at + Timeout
  /\ t.sup.pc = "gone" /\ t.wkr \in {"boot", "run"} => t.killed /\ ~JobObject

\* A watcher that runs an attempt made it within the timeout.
WatchHolds(r) ==
  /\ r.start <= now
  /\ r.pc = "run" =>
       /\ r.tree \in DOMAIN trees /\ r.guardian.pc # "none"
       /\ r.guardian.since <= marker /\ now <= r.guardian.since + Timeout
  /\ r.pc # "run" => r.tree = 0
  /\ r.pc = "sleep" => r.wake <= now + Interval

\* One that sleeps will be back in time, and so will one that runs.
Punctual(r) ==
  /\ r.pc = "run" => r.start <= marker
  /\ r.pc = "sleep" /\ Readable /\ marker # None => r.wake < marker + 2 * Interval

WatchSound(r) == WatchHolds(r) /\ (faults = 0 => Punctual(r))

TreesSound == \A k \in DOMAIN trees : TreeSound(trees[k])
WatchesSound == \A w \in Watchers : WatchSound(watch[w])

AutoInv == Typed /\ Recorded /\ TreesSound /\ WatchesSound

-----------------------------------------------------------------------------
(* The parameters and the record of attempts *)

LEMMA Parameters ==
  /\ Interval \in Nat /\ Timeout \in Nat /\ Timeout > 0 /\ Timeout < Interval
  /\ MinSleep \in Nat /\ MinSleep >= 1 /\ MinSleep <= Interval
  /\ MaxTime \in Nat /\ MaxFaults \in Nat
BY AutoAssumption

\* The latest attempt known is on record under one identity or the other.
LEMMA PreviousIs ==
  ASSUME Typed
  PROVE  /\ Previous \in Int /\ Previous >= marker /\ Previous >= None /\ Previous <= now
         /\ Readable => Previous >= legacy
         /\ Previous # None => Previous >= 0
<1>1. /\ now \in Nat /\ marker \in Int /\ marker >= -1 /\ marker <= now
      /\ marker = -1 \/ marker >= 0
      /\ legacy \in {-1, -2, 0}
  BY Parameters DEF Typed, None, Invalid
<1>2. QED
  BY <1>1 DEF Previous, Readable, None, Invalid

-----------------------------------------------------------------------------
(* Process trees *)

LEMMA SignalsKept ==
  /\ \A g \in Sups : /\ Cancelled(g) \in Sups /\ Cancelled(g).since = g.since
                     /\ Cancelled(g).pc \in {g.pc, "stop"} /\ (g.pc # "wait" => Cancelled(g).pc = g.pc)
                     /\ g.pc = "spawn" => /\ Acquired(g) \in Sups /\ Acquired(g).since = g.since
                                          /\ Acquired(g).pc \in {"wait", "stop"}
  /\ \A g \in Guardians : /\ Cancelled(g) \in Guardians /\ Cancelled(g).since = g.since
                          /\ g.pc # "none" => Cancelled(g).pc # "none"
                          /\ g.pc = "spawn" => /\ Acquired(g) \in Guardians /\ Acquired(g).since = g.since
                                               /\ Acquired(g).pc \in {"wait", "stop"}
<1>1. ASSUME NEW g \in Sups
      PROVE  /\ Cancelled(g) \in Sups /\ Cancelled(g).since = g.since
             /\ Cancelled(g).pc \in {g.pc, "stop"} /\ (g.pc # "wait" => Cancelled(g).pc = g.pc)
             /\ g.pc = "spawn" => /\ Acquired(g) \in Sups /\ Acquired(g).since = g.since
                                  /\ Acquired(g).pc \in {"wait", "stop"}
  BY DEF Sups, SupPcs, Cancelled, Acquired
<1>2. ASSUME NEW g \in Guardians
      PROVE  /\ Cancelled(g) \in Guardians /\ Cancelled(g).since = g.since
             /\ g.pc # "none" => Cancelled(g).pc # "none"
             /\ g.pc = "spawn" => /\ Acquired(g) \in Guardians /\ Acquired(g).since = g.since
                                  /\ Acquired(g).pc \in {"wait", "stop"}
  BY DEF Guardians, Cancelled, Acquired
<1>3. QED
  BY <1>1, <1>2

\* What a signal makes of a sound tree.
LEMMA TerminatedSound ==
  ASSUME NEW t \in Trees, TreeSound(t)
  PROVE  Terminated(t) \in Trees /\ Terminated(t).at = t.at /\ TreeSound(Terminated(t))
<1>1. t.sup \in Sups /\ t.sup.pc \in SupPcs /\ t.wkr \in WorkerPcs
  BY DEF Trees, Sups
<1>2. CASE t.sup.pc = "boot"
  <2>1. Terminated(t) = [t EXCEPT !.sup = [t.sup EXCEPT !.pc = "gone"]]
    BY <1>2 DEF Terminated, WithoutSupervisor, TreeSound, Trees
  <2>2. QED
    BY <1>1, <1>2, <2>1 DEF TreeSound, Trees, Sups, SupPcs
<1>3. CASE t.sup.pc = "gone"
  BY <1>3 DEF Terminated
<1>4. CASE t.sup.pc \in {"spawn", "wait", "stop"}
  <2>1. Terminated(t) = [t EXCEPT !.sup = Cancelled(t.sup)]
    BY <1>4 DEF Terminated
  <2>2. Cancelled(t.sup) \in Sups /\ Cancelled(t.sup).since = t.sup.since
        /\ Cancelled(t.sup).pc \in {"spawn", "wait", "stop"}
    BY <1>1, <1>4, SignalsKept
  <2>3. QED
    BY <1>4, <2>1, <2>2 DEF TreeSound, Trees
<1>5. QED
  BY <1>1, <1>2, <1>3, <1>4 DEF SupPcs

LEMMA KilledSound ==
  ASSUME NEW t \in Trees, TreeSound(t), t.sup.pc # "gone"
  PROVE  Killed(t) \in Trees /\ Killed(t).at = t.at /\ TreeSound(Killed(t))
<1>1. t.sup \in Sups /\ t.wkr \in WorkerPcs
  BY DEF Trees
<1> DEFINE wkr == IF JobObject /\ t.wkr \in {"boot", "run"} THEN "gone" ELSE t.wkr
<1>2. Killed(t) = [t EXCEPT !.sup = [t.sup EXCEPT !.pc = "gone"], !.wkr = wkr, !.killed = TRUE]
  BY DEF Killed, WithoutSupervisor, Trees
<1>3. wkr \in WorkerPcs /\ (wkr \in {"boot", "run"} => ~JobObject)
  BY <1>1 DEF WorkerPcs
<1> DEFINE sup == [t.sup EXCEPT !.pc = "gone"]
<1>4. sup \in Sups /\ sup.pc = "gone" /\ Killed(t) = [t EXCEPT !.sup = sup, !.wkr = wkr, !.killed = TRUE]
  BY <1>1, <1>2 DEF Sups, SupPcs
<1> HIDE DEF wkr, sup
<1>5. /\ Killed(t) \in Trees /\ Killed(t).at = t.at
      /\ Killed(t).sup.pc = "gone" /\ Killed(t).wkr = wkr /\ Killed(t).killed = TRUE
  BY <1>3, <1>4 DEF Trees
<1>6. TreeSound(Killed(t))
  BY <1>3, <1>5 DEF TreeSound
<1>7. QED
  BY <1>5, <1>6

\* A step of one process tree that keeps it sound keeps the record.
LEMMA SetTreeKeeps ==
  ASSUME Typed, Recorded, TreesSound, UNCHANGED <<now, marker, legacy, attempts>>,
         NEW k \in DOMAIN trees, NEW t \in Trees, t.at = trees[k].at, TreeSound(t), SetTree(k, t)
  PROVE  /\ trees' \in Seq(Trees) /\ Len(trees') = Len(trees) /\ DOMAIN trees' = DOMAIN trees
         /\ Recorded' /\ TreesSound'
<1>1. trees' = [trees EXCEPT ![k] = t] /\ trees \in Seq(Trees)
  BY DEF SetTree, Typed
<1>2. /\ trees' \in Seq(Trees) /\ Len(trees') = Len(trees) /\ DOMAIN trees' = DOMAIN trees
      /\ \A j \in DOMAIN trees : trees'[j] = IF j = k THEN t ELSE trees[j]
  BY <1>1
<1>3. Recorded'
  <2>1. \A j \in DOMAIN trees : trees'[j].at = trees[j].at
    BY <1>2
  <2>2. QED
    BY <1>2, <2>1 DEF Recorded, Previous
<1>4. TreesSound'
  BY <1>2 DEF TreesSound, TreeSound
<1>5. QED
  BY <1>2, <1>3, <1>4

-----------------------------------------------------------------------------
(* Steps in which time stands still and nothing is claimed *)

\* A fault excuses lateness; it never makes a sound watcher unsound.
LEMMA WatchKept ==
  ASSUME Typed, UNCHANGED <<now, marker, legacy>>,
         faults' \in {faults, faults + 1}, DOMAIN trees' = DOMAIN trees,
         NEW w \in Watchers, NEW r, watch'[w] = r, WatchHolds(r), faults' # 0 \/ Punctual(r)
  PROVE  WatchSound(watch[w])'
BY DEF WatchSound, WatchHolds, Punctual, Readable

LEMMA WatchesStill ==
  ASSUME Typed, WatchesSound, UNCHANGED <<now, marker, legacy, watch>>,
         faults' \in {faults, faults + 1}, DOMAIN trees' = DOMAIN trees
  PROVE  WatchesSound'
<1>1. SUFFICES ASSUME NEW w \in Watchers PROVE WatchSound(watch[w])'
  BY DEF WatchesSound
<1>2. faults' = 0 => faults = 0
  BY Parameters DEF Typed
<1>3. QED
  BY <1>2 DEF WatchesSound, WatchSound, WatchHolds, Punctual, Readable

\* What a step of one process tree has to show.
LEMMA TreeStepKeeps ==
  ASSUME AutoInv, UNCHANGED <<now, marker, legacy, auto, watch, attempts>>,
         faults' \in {faults, faults + 1}, faults' \in 0..MaxFaults,
         NEW k \in DOMAIN trees, NEW t \in Trees, t.at = trees[k].at, TreeSound(t), SetTree(k, t)
  PROVE  AutoInv'
<1>1. /\ trees' \in Seq(Trees) /\ Len(trees') = Len(trees) /\ DOMAIN trees' = DOMAIN trees
      /\ Recorded' /\ TreesSound'
  BY SetTreeKeeps DEF AutoInv
<1>2. Typed'
  BY <1>1 DEF AutoInv, Typed
<1>3. WatchesSound'
  <2>1. Typed /\ WatchesSound
    BY DEF AutoInv
  <2>2. QED
    BY <1>1, <2>1, WatchesStill
<1>4. QED
  BY <1>1, <1>2, <1>3 DEF AutoInv

LEMMA TreeOf ==
  ASSUME AutoInv, NEW k \in DOMAIN trees
  PROVE  /\ trees[k] \in Trees /\ TreeSound(trees[k])
         /\ trees[k].sup \in Sups /\ trees[k].sup.pc \in SupPcs /\ trees[k].wkr \in WorkerPcs
         /\ trees[k].at \in Int /\ now \in Int /\ faults \in 0..MaxFaults
<1>1. trees[k] \in Trees /\ TreeSound(trees[k]) /\ now \in Int /\ faults \in 0..MaxFaults
  BY Parameters DEF AutoInv, Typed, TreesSound
<1>2. QED
  BY <1>1 DEF Trees, Sups

\* The clock of a tree starts with its supervisor, before any tick.
LEMMA SupervisorStartsKeeps == ASSUME AutoInv, NEW k \in DOMAIN trees, SupervisorStarts(k) PROVE AutoInv'
<1> DEFINE t == [trees[k] EXCEPT !.sup = Spawning(now), !.wkr = "boot"]
<1>1. SetTree(k, t) /\ trees[k].sup.pc = "boot" /\ UNCHANGED <<now, marker, legacy, auto, watch, attempts, faults>>
  BY DEF SupervisorStarts, TreeStep
<1>2. Spawning(now) \in Sups /\ Spawning(now).pc = "spawn" /\ Spawning(now).since = now
  BY TreeOf DEF Spawning, Sups, SupPcs
<1>3. t \in Trees /\ t.at = trees[k].at /\ t.sup = Spawning(now) /\ t.wkr = "boot"
  BY <1>2, TreeOf DEF Trees, WorkerPcs
<1>4. TreeSound(t)
  <2>1. now = trees[k].at
    BY <1>1, TreeOf DEF TreeSound
  <2> HIDE DEF t
  <2>2. QED
    BY <1>2, <1>3, <2>1, TreeOf, Parameters DEF TreeSound
<1> HIDE DEF t
<1>5. QED
  BY <1>1, <1>3, <1>4, TreeOf, TreeStepKeeps

LEMMA SupervisorAcquiresKeeps == ASSUME AutoInv, NEW k \in DOMAIN trees, SupervisorAcquires(k) PROVE AutoInv'
<1> DEFINE t == [trees[k] EXCEPT !.sup = Acquired(trees[k].sup)]
<1>1. SetTree(k, t) /\ trees[k].sup.pc = "spawn" /\ UNCHANGED <<now, marker, legacy, auto, watch, attempts, faults>>
  BY DEF SupervisorAcquires, TreeStep
<1>2. /\ Acquired(trees[k].sup) \in Sups /\ Acquired(trees[k].sup).since = trees[k].sup.since
      /\ Acquired(trees[k].sup).pc \in {"wait", "stop"}
  BY <1>1, TreeOf, SignalsKept
<1>3. t \in Trees /\ t.at = trees[k].at /\ t.sup = Acquired(trees[k].sup) /\ t.wkr = trees[k].wkr
  BY <1>2, TreeOf DEF Trees
<1> HIDE DEF t
<1>4. TreeSound(t)
  BY <1>1, <1>2, <1>3, TreeOf DEF TreeSound
<1>5. QED
  BY <1>1, <1>3, <1>4, TreeOf, TreeStepKeeps

LEMMA SupervisorTimesOutKeeps == ASSUME AutoInv, NEW k \in DOMAIN trees, SupervisorTimesOut(k) PROVE AutoInv'
<1> DEFINE t == [trees[k] EXCEPT !.sup.pc = "stop"]
<1>1. SetTree(k, t) /\ trees[k].sup.pc = "wait" /\ UNCHANGED <<now, marker, legacy, auto, watch, attempts, faults>>
  BY DEF SupervisorTimesOut, TreeStep, TimedOut
<1>2. t \in Trees /\ t.at = trees[k].at /\ t.sup.pc = "stop" /\ t.sup.since = trees[k].sup.since
  BY TreeOf DEF Trees, Sups, SupPcs
<1> HIDE DEF t
<1>3. TreeSound(t)
  BY <1>1, <1>2, TreeOf DEF TreeSound
<1>4. QED
  BY <1>1, <1>2, <1>3, TreeOf, TreeStepKeeps

\* _stop_tree: the supervisor goes only after its worker.
LEMMA SupervisorReapsKeeps == ASSUME AutoInv, NEW k \in DOMAIN trees, SupervisorReaps(k) PROVE AutoInv'
<1> DEFINE t == [trees[k] EXCEPT !.wkr = "gone", !.sup = [trees[k].sup EXCEPT !.pc = "gone"]]
<1>1. SetTree(k, t) /\ UNCHANGED <<now, marker, legacy, auto, watch, attempts, faults>>
  <2>1. WithoutSupervisor([trees[k] EXCEPT !.wkr = "gone"]) = t
    BY TreeOf DEF WithoutSupervisor, Trees
  <2>2. QED
    BY <2>1 DEF SupervisorReaps, TreeStep
<1>2. t \in Trees /\ t.at = trees[k].at /\ t.sup.pc = "gone" /\ t.wkr = "gone"
  BY TreeOf DEF Trees, Sups, SupPcs, WorkerPcs
<1> HIDE DEF t
<1>3. TreeSound(t)
  BY <1>2 DEF TreeSound
<1>4. QED
  BY <1>1, <1>2, <1>3, TreeOf, TreeStepKeeps

LEMMA WorkerKeeps ==
  ASSUME AutoInv, NEW k \in DOMAIN trees, WorkerStarts(k) \/ WorkerEnds(k) PROVE AutoInv'
<1>1. PICK wkr \in {"run", "gone"} :
        /\ SetTree(k, [trees[k] EXCEPT !.wkr = wkr]) /\ trees[k].wkr \in {"boot", "run"}
        /\ UNCHANGED <<now, marker, legacy, auto, watch, attempts, faults>>
  BY DEF WorkerStarts, WorkerEnds, TreeStep
<1> DEFINE t == [trees[k] EXCEPT !.wkr = wkr]
<1>2. t \in Trees /\ t.at = trees[k].at /\ t.sup = trees[k].sup /\ t.wkr = wkr /\ t.killed = trees[k].killed
  BY TreeOf DEF Trees, WorkerPcs
<1> HIDE DEF t
<1>3. TreeSound(t)
  BY <1>1, <1>2, TreeOf DEF TreeSound
<1>4. QED
  BY <1>1, <1>2, <1>3, TreeOf, TreeStepKeeps DEF t

LEMMA SupervisorSignalsKeep ==
  ASSUME AutoInv, NEW k \in DOMAIN trees, TermSupervisor(k) \/ KillSupervisor(k) PROVE AutoInv'
<1>1. /\ UNCHANGED <<now, marker, legacy, auto, watch, attempts>>
      /\ faults' = faults + 1 /\ faults < MaxFaults /\ trees[k].sup.pc # "gone"
  BY DEF TermSupervisor, KillSupervisor, Fault, Alive
<1>2. faults' \in 0..MaxFaults
  BY <1>1, TreeOf, Parameters
<1>3. CASE TermSupervisor(k)
  <2>1. SetTree(k, Terminated(trees[k]))
    BY <1>3 DEF TermSupervisor
  <2>2. QED
    BY <1>1, <1>2, <2>1, TreeOf, TerminatedSound, TreeStepKeeps
<1>4. CASE KillSupervisor(k)
  <2>1. SetTree(k, Killed(trees[k]))
    BY <1>4 DEF KillSupervisor
  <2>2. QED
    BY <1>1, <1>2, <2>1, TreeOf, KilledSound, TreeStepKeeps
<1>5. QED
  BY <1>3, <1>4

\* What a step of one watcher has to show.
LEMMA WatchStepKeeps ==
  ASSUME AutoInv, UNCHANGED <<now, marker, legacy, attempts>>, auto' \in BOOLEAN,
         faults' \in {faults, faults + 1}, faults' \in 0..MaxFaults,
         trees' \in Seq(Trees), Len(trees') = Len(trees), DOMAIN trees' = DOMAIN trees,
         Recorded', TreesSound',
         NEW w \in Watchers, NEW r \in Watches, SetWatch(w, r), WatchHolds(r), faults' # 0 \/ Punctual(r)
  PROVE  AutoInv'
<1>1. Typed /\ WatchesSound /\ watch \in [Watchers -> Watches]
  BY DEF AutoInv, Typed
<1>2. watch' = [watch EXCEPT ![w] = r]
  BY DEF SetWatch
<1>3. Typed'
  BY <1>1, <1>2 DEF Typed
<1>4. WatchesSound'
  <2>1. SUFFICES ASSUME NEW v \in Watchers PROVE WatchSound(watch[v])'
    BY DEF WatchesSound
  <2>2. CASE v = w
    <3>1. watch'[v] = r
      BY <1>1, <1>2, <2>2
    <3>2. QED
      BY <1>1, <3>1, WatchKept
  <2>3. CASE v # w
    <3>1. watch'[v] = watch[v]
      BY <1>1, <1>2, <2>3
    <3>2. WatchHolds(watch[v]) /\ (faults' # 0 \/ Punctual(watch[v]))
      BY <1>1, Parameters DEF WatchesSound, WatchSound, Typed
    <3>3. QED
      BY <1>1, <3>1, <3>2, WatchKept
  <2>4. QED
    BY <2>2, <2>3
<1>5. QED
  BY <1>3, <1>4 DEF AutoInv

\* The trees are sound when none of them has changed.
LEMMA TreesStill ==
  ASSUME AutoInv, UNCHANGED <<now, marker, legacy, attempts, trees>>
  PROVE  /\ trees' \in Seq(Trees) /\ Len(trees') = Len(trees) /\ DOMAIN trees' = DOMAIN trees
         /\ Recorded' /\ TreesSound'
BY DEF AutoInv, Typed, Recorded, Previous, TreesSound, TreeSound

LEMMA WatchOf ==
  ASSUME AutoInv, NEW w \in Watchers
  PROVE  /\ watch[w] \in Watches /\ WatchHolds(watch[w]) /\ (faults = 0 => Punctual(watch[w]))
         /\ watch[w].guardian \in Guardians /\ watch[w].start \in Int /\ watch[w].start <= now
         /\ watch[w].guardian.since \in Int
         /\ now \in Int /\ marker \in Int /\ marker >= None /\ marker <= now /\ faults \in 0..MaxFaults
         /\ auto \in BOOLEAN
<1>1. watch[w] \in Watches /\ WatchSound(watch[w])
  BY DEF AutoInv, Typed, WatchesSound
<1>2. watch[w].guardian \in Guardians /\ watch[w].start \in Int
  BY <1>1 DEF Watches
<1>3. watch[w].guardian.since \in Int
  BY <1>2 DEF Guardians
<1>4. now \in Int /\ marker \in Int /\ marker >= None /\ marker <= now /\ faults \in 0..MaxFaults /\ auto \in BOOLEAN
  BY Parameters DEF AutoInv, Typed, None
<1>5. QED
  BY <1>1, <1>2, <1>3, <1>4 DEF WatchSound, WatchHolds

LEMMA OffTyped == Off \in Watches /\ NoGuardian \in Guardians
BY DEF Off, NoGuardian, Watches, Guardians

\* A watcher that is off or about to claim has nothing to answer for.
LEMMA OffHolds ==
  ASSUME AutoInv, NEW pc \in {"off", "claim"}, NEW start \in Int, start <= now
  PROVE  LET r == [Off EXCEPT !.pc = pc, !.start = start]
         IN  r \in Watches /\ WatchHolds(r) /\ Punctual(r)
<1> DEFINE r == [Off EXCEPT !.pc = pc, !.start = start]
<1>1. r \in Watches /\ r.pc = pc /\ r.start = start /\ r.tree = 0
  BY OffTyped DEF Off, Watches
<1> HIDE DEF r
<1>2. WatchHolds(r) /\ Punctual(r)
  BY <1>1 DEF WatchHolds, Punctual
<1>3. QED
  BY <1>1, <1>2 DEF r

LEMMA JustOff ==
  ASSUME AutoInv
  PROVE  Off \in Watches /\ WatchHolds(Off) /\ Punctual(Off)
<1>1. 0 <= now
  BY DEF AutoInv, Typed
<1>2. Off.pc = "off" /\ Off.start = 0 /\ Off.tree = 0
  BY DEF Off
<1>3. QED
  BY <1>1, <1>2, OffTyped DEF WatchHolds, Punctual

\* A watcher that sleeps until then.
LEMMA SleepHolds ==
  ASSUME AutoInv, NEW wake \in Int, wake <= now + Interval
  PROVE  LET r == [Off EXCEPT !.pc = "sleep", !.wake = wake]
         IN  /\ r \in Watches /\ WatchHolds(r)
             /\ (Readable /\ marker # None => wake < marker + 2 * Interval) => Punctual(r)
<1> DEFINE r == [Off EXCEPT !.pc = "sleep", !.wake = wake]
<1>1. r \in Watches /\ r.pc = "sleep" /\ r.start = 0 /\ r.tree = 0 /\ r.wake = wake
  BY OffTyped DEF Off, Watches
<1>2. 0 <= now
  BY DEF AutoInv, Typed
<1> HIDE DEF r
<1>3. /\ WatchHolds(r)
      /\ (Readable /\ marker # None => wake < marker + 2 * Interval) => Punctual(r)
  BY <1>1, <1>2 DEF WatchHolds, Punctual
<1>4. QED
  BY <1>1, <1>3 DEF r

\* The next cycle comes within an interval of now.
LEMMA WakeBound ==
  ASSUME AutoInv, NEW w \in Watchers, NEW due \in Int, due <= now + Interval
  PROVE  /\ WakeAt(w, due) \in Int /\ WakeAt(w, due) <= now + Interval
         /\ \/ WakeAt(w, due) = watch[w].start + Interval
            \/ WakeAt(w, due) = due
            \/ WakeAt(w, due) = now + MinSleep
BY WatchOf, Parameters DEF WakeAt

LEMMA EndedHolds ==
  ASSUME AutoInv, NEW w \in Watchers
  PROVE  /\ Ended(w) \in Watches /\ WatchHolds(Ended(w))
         /\ watch[w].start < marker + Interval => Punctual(Ended(w))
<1>1. watch[w].start + Interval \in Int /\ watch[w].start + Interval <= now + Interval
      /\ marker \in Int /\ watch[w].start \in Int /\ Interval \in Int
  BY WatchOf, Parameters
<1>2. CASE w \in Launchers /\ auto
  <2>1. Ended(w) = [Off EXCEPT !.pc = "sleep", !.wake = watch[w].start + Interval]
    BY <1>2 DEF Ended
  <2>2. watch[w].start < marker + Interval => watch[w].start + Interval < marker + 2 * Interval
    BY <1>1
  <2>3. QED
    BY <1>1, <2>1, <2>2, SleepHolds
<1>3. CASE ~(w \in Launchers /\ auto)
  BY <1>3, JustOff DEF Ended
<1>4. QED
  BY <1>2, <1>3

-----------------------------------------------------------------------------
(* The steps of a watcher, its claim apart *)

LEMMA CycleBegins ==
  ASSUME AutoInv, NEW w \in Watchers, StartLoop(w) \/ Wake(w) PROVE AutoInv'
<1>1. UNCHANGED <<now, marker, legacy, auto, faults, trees, attempts>>
  BY DEF StartLoop, Wake, WatchStep
<1>2. PICK r \in {[Off EXCEPT !.pc = "claim", !.start = now], Off} : SetWatch(w, r)
  BY DEF StartLoop, Wake
<1>3. r \in Watches /\ WatchHolds(r) /\ Punctual(r)
  <2>1. now \in Int /\ now <= now /\ "claim" \in {"off", "claim"}
    BY WatchOf
  <2>2. CASE r = Off
    BY <2>2, JustOff
  <2>3. CASE r = [Off EXCEPT !.pc = "claim", !.start = now]
    BY <2>1, <2>3, OffHolds
  <2>4. QED
    BY <2>2, <2>3
<1>4. QED
  BY <1>1, <1>2, <1>3, WatchOf, TreesStill, WatchStepKeeps

LEMMA ClaimFailsKeeps == ASSUME AutoInv, NEW w \in Watchers, ClaimFails(w) PROVE AutoInv'
<1>1. /\ UNCHANGED <<now, marker, legacy, auto, trees, attempts>>
      /\ faults' = faults + 1 /\ faults < MaxFaults /\ SetWatch(w, Asleep(w, now + Interval))
  BY DEF ClaimFails
<1>2. faults' \in 0..MaxFaults /\ faults' # 0 /\ now + Interval \in Int
  BY <1>1, WatchOf, Parameters
<1>3. WakeAt(w, now + Interval) \in Int /\ WakeAt(w, now + Interval) <= now + Interval
  BY <1>2, WakeBound
<1>4. Asleep(w, now + Interval) \in Watches /\ WatchHolds(Asleep(w, now + Interval))
  BY <1>3, SleepHolds DEF Asleep
<1>5. QED
  BY <1>1, <1>2, <1>4, WatchOf, TreesStill, WatchStepKeeps

\* A guardian that goes on keeps the time since when it waits.
LEMMA GuardianSteps ==
  ASSUME AutoInv, NEW w \in Watchers, watch[w].pc = "run",
         NEW g \in Guardians, g.pc # "none", g.since = watch[w].guardian.since
  PROVE  LET r == [watch[w] EXCEPT !.guardian = g]
         IN  r \in Watches /\ WatchHolds(r) /\ (faults = 0 => Punctual(r))
<1> DEFINE r == [watch[w] EXCEPT !.guardian = g]
<1>1. /\ r \in Watches /\ r.pc = "run" /\ r.start = watch[w].start /\ r.tree = watch[w].tree
      /\ r.guardian = g
  BY WatchOf DEF Watches
<1> HIDE DEF r
<1>2. WatchHolds(r) /\ (faults = 0 => Punctual(r))
  BY <1>1, WatchOf DEF WatchHolds, Punctual
<1>3. QED
  BY <1>1, <1>2 DEF r

LEMMA WatcherGoesOn ==
  ASSUME AutoInv, NEW w \in Watchers, WatcherAcquires(w) \/ WatcherTimesOut(w) PROVE AutoInv'
<1>1. UNCHANGED <<now, marker, legacy, auto, faults, trees, attempts>> /\ watch[w].pc = "run"
  BY DEF WatcherAcquires, WatcherTimesOut, RunStep, WatchStep
<1>2. CASE WatcherAcquires(w)
  <2>1. /\ watch[w].guardian.pc = "spawn"
        /\ SetWatch(w, [watch[w] EXCEPT !.guardian = Acquired(watch[w].guardian)])
    BY <1>2 DEF WatcherAcquires
  <2>2. /\ Acquired(watch[w].guardian) \in Guardians
        /\ Acquired(watch[w].guardian).since = watch[w].guardian.since
        /\ Acquired(watch[w].guardian).pc # "none"
    BY <2>1, WatchOf, SignalsKept
  <2>3. QED
    BY <1>1, <2>1, <2>2, WatchOf, GuardianSteps, TreesStill, WatchStepKeeps
<1>3. CASE WatcherTimesOut(w)
  <2> DEFINE g == [watch[w].guardian EXCEPT !.pc = "stop"]
  <2>1. SetWatch(w, [watch[w] EXCEPT !.guardian = g])
    BY <1>3 DEF WatcherTimesOut
  <2>2. g \in Guardians /\ g.since = watch[w].guardian.since /\ g.pc # "none"
    BY WatchOf DEF Guardians
  <2> HIDE DEF g
  <2>3. QED
    BY <1>1, <2>1, <2>2, WatchOf, GuardianSteps, TreesStill, WatchStepKeeps
<1>4. QED
  BY <1>2, <1>3

LEMMA StopTreeKeeps == ASSUME AutoInv, NEW w \in Watchers, StopTree(w) PROVE AutoInv'
<1> DEFINE g == [watch[w].guardian EXCEPT !.pc = "reap"]
           k == watch[w].tree
<1>1. /\ UNCHANGED <<now, marker, legacy, auto, faults, attempts>> /\ watch[w].pc = "run"
      /\ SetWatch(w, [watch[w] EXCEPT !.guardian = g]) /\ SetTree(k, Terminated(trees[k]))
  BY DEF StopTree, RunStep, WatchStep
<1>2. g \in Guardians /\ g.since = watch[w].guardian.since /\ g.pc # "none"
  BY WatchOf DEF Guardians
<1>3. k \in DOMAIN trees
  BY <1>1, WatchOf DEF WatchHolds
<1> HIDE DEF g, k
<1>4. Terminated(trees[k]) \in Trees /\ Terminated(trees[k]).at = trees[k].at /\ TreeSound(Terminated(trees[k]))
  BY <1>3, TreeOf, TerminatedSound
<1>5. /\ trees' \in Seq(Trees) /\ Len(trees') = Len(trees) /\ DOMAIN trees' = DOMAIN trees
      /\ Recorded' /\ TreesSound'
  BY <1>1, <1>3, <1>4, SetTreeKeeps DEF AutoInv
<1>6. QED
  BY <1>1, <1>2, <1>5, WatchOf, GuardianSteps, WatchStepKeeps

LEMMA GraceExpiresKeeps == ASSUME AutoInv, NEW w \in Watchers, GraceExpires(w) PROVE AutoInv'
<1> DEFINE k == watch[w].tree
<1>1. /\ UNCHANGED <<now, marker, legacy, auto, watch, attempts>> /\ watch[w].pc = "run"
      /\ faults' = faults + 1 /\ faults < MaxFaults
      /\ trees[k].sup.pc = "spawn" /\ SetTree(k, Killed(trees[k]))
  BY DEF GraceExpires
<1>2. k \in DOMAIN trees /\ faults' \in 0..MaxFaults
  BY <1>1, WatchOf, Parameters DEF WatchHolds
<1> HIDE DEF k
<1>3. QED
  BY <1>1, <1>2, TreeOf, KilledSound, TreeStepKeeps

\* The attempt is over within the timeout, so the next one is due in less than
\* an interval, and a loop that sleeps its minimum is back in time.
LEMMA WatcherReapsKeeps == ASSUME AutoInv, NEW w \in Watchers, WatcherReaps(w) PROVE AutoInv'
<1>1. UNCHANGED <<now, marker, legacy, auto, faults, trees, attempts>> /\ watch[w].pc = "run"
  BY DEF WatcherReaps, RunStep, WatchStep
<1>2. /\ now < marker + Interval /\ marker + Interval \in Int /\ marker + Interval <= now + Interval
      /\ faults = 0 => watch[w].start < marker + Interval
  BY <1>1, WatchOf, Parameters DEF WatchHolds, Punctual
<1>3. CASE watch[w].guardian.term
  <2>1. SetWatch(w, Ended(w))
    BY <1>3 DEF WatcherReaps
  <2>2. QED
    BY <1>1, <1>2, <2>1, WatchOf, EndedHolds, TreesStill, WatchStepKeeps
<1>4. CASE ~watch[w].guardian.term
  <2> DEFINE wake == WakeAt(w, marker + Interval)
  <2>1. SetWatch(w, [Off EXCEPT !.pc = "sleep", !.wake = wake])
    BY <1>4 DEF WatcherReaps, Asleep
  <2>2. wake \in Int /\ wake <= now + Interval
        /\ (wake = watch[w].start + Interval \/ wake = marker + Interval \/ wake = now + MinSleep)
    BY <1>2, WakeBound
  <2> HIDE DEF wake
  <2>3. faults = 0 => wake < marker + 2 * Interval
    BY <1>2, <2>2, WatchOf, Parameters
  <2>4. QED
    BY <1>1, <2>1, <2>2, <2>3, WatchOf, SleepHolds, TreesStill, WatchStepKeeps
<1>5. QED
  BY <1>3, <1>4

LEMMA StoppedHolds ==
  ASSUME AutoInv, NEW w \in Watchers
  PROVE  Stopped(w) \in Watches /\ WatchHolds(Stopped(w))
<1>1. CASE watch[w].pc = "run"
  <2>1. /\ Cancelled(watch[w].guardian) \in Guardians
        /\ Cancelled(watch[w].guardian).since = watch[w].guardian.since
        /\ Cancelled(watch[w].guardian).pc # "none"
    BY <1>1, WatchOf, SignalsKept DEF WatchHolds
  <2>2. Stopped(w) = [watch[w] EXCEPT !.guardian = Cancelled(watch[w].guardian)]
    BY <1>1 DEF Stopped
  <2>3. QED
    BY <1>1, <2>1, <2>2, GuardianSteps
<1>2. CASE watch[w].pc # "run"
  BY <1>2, EndedHolds DEF Stopped
<1>3. QED
  BY <1>1, <1>2

LEMMA WatcherSignalsKeep ==
  ASSUME AutoInv, NEW w \in Watchers, TermWatcher(w) \/ KillWatcher(w) PROVE AutoInv'
<1>1. /\ UNCHANGED <<now, marker, legacy, auto, trees, attempts>>
      /\ faults' = faults + 1 /\ faults < MaxFaults
      /\ SetWatch(w, Stopped(w)) \/ SetWatch(w, Ended(w))
  BY DEF TermWatcher, KillWatcher, Fault
<1>2. faults' \in 0..MaxFaults /\ faults' # 0
  BY <1>1, WatchOf, Parameters
<1>3. QED
  BY <1>1, <1>2, WatchOf, StoppedHolds, EndedHolds, TreesStill, WatchStepKeeps

-----------------------------------------------------------------------------
(* The claim *)

\* A claim, made or deferred, moves the record forward, to less than an
\* interval ago: who sleeps is still back before two are over.
LEMMA OthersAfterClaim ==
  ASSUME AutoInv, Readable, marker' \in Int, marker' >= marker, marker' >= 0, marker' <= now,
         now < marker' + Interval, UNCHANGED <<now, legacy, faults>>, DOMAIN trees \subseteq DOMAIN trees',
         NEW v \in Watchers, watch'[v] = watch[v]
  PROVE  WatchSound(watch[v])'
<1>1. /\ watch[v].wake \in Int /\ watch[v].start \in Int /\ watch[v].guardian.since \in Int
      /\ now \in Int /\ marker \in Int /\ WatchHolds(watch[v]) /\ (faults = 0 => Punctual(watch[v]))
  BY WatchOf DEF Watches
<1>2. WatchHolds(watch[v])'
  BY <1>1, Parameters DEF WatchHolds
<1>3. ASSUME faults = 0 PROVE Punctual(watch[v])'
  <2>1. watch[v].pc = "run" => watch[v].start <= marker'
    BY <1>1, <1>3 DEF Punctual
  <2>2. watch[v].pc = "sleep" => watch[v].wake < marker' + 2 * Interval
    BY <1>1, Parameters DEF WatchHolds
  <2>3. QED
    BY <2>1, <2>2 DEF Punctual
<1>4. QED
  BY <1>2, <1>3 DEF WatchSound

LEMMA ClaimUnread == ASSUME AutoInv, NEW w \in Watchers, Claim(w), ~Readable PROVE AutoInv'
<1>1. /\ UNCHANGED <<now, marker, legacy, auto, faults, trees, attempts>>
      /\ SetWatch(w, Asleep(w, now + Interval))
  BY DEF Claim, WatchStep
<1>2. WakeAt(w, now + Interval) \in Int /\ WakeAt(w, now + Interval) <= now + Interval
  BY WakeBound, WatchOf, Parameters
<1>3. /\ Asleep(w, now + Interval) \in Watches /\ WatchHolds(Asleep(w, now + Interval))
      /\ Punctual(Asleep(w, now + Interval))
  BY <1>2, SleepHolds DEF Asleep
<1>4. QED
  BY <1>1, <1>3, WatchOf, TreesStill, WatchStepKeeps

\* Before the slot is due the record takes over the old identity's attempt.
LEMMA ClaimDeferred == ASSUME AutoInv, NEW w \in Watchers, Claim(w), Readable, ~Claimable PROVE AutoInv'
<1>1. /\ UNCHANGED <<now, legacy, auto, faults, trees, attempts>>
      /\ marker' = Previous /\ SetWatch(w, Asleep(w, Due))
  BY DEF Claim, WatchStep
<1>2. /\ Typed /\ Previous \in Int /\ Previous >= marker /\ Previous >= 0 /\ Previous <= now
      /\ Due \in Int /\ now < Due /\ Due = Previous + Interval /\ Previous >= legacy
      /\ now \in Int /\ legacy \in Int /\ marker \in Int
  <2>1. Typed /\ now \in Int /\ legacy \in Int /\ marker \in Int
    BY Parameters DEF AutoInv, Typed, None, Invalid
  <2>2. /\ Previous \in Int /\ Previous >= marker /\ Previous >= 0 /\ Previous <= now
        /\ Previous # None /\ Previous >= legacy
    BY <2>1, PreviousIs DEF Claimable
  <2>3. QED
    BY <2>1, <2>2, Parameters DEF Claimable, Due
<1>3. Previous' = Previous
  BY <1>1, <1>2 DEF Previous
<1>4. Recorded' /\ TreesSound'
  BY <1>1, <1>3 DEF AutoInv, Recorded, TreesSound, TreeSound
<1> DEFINE wake == WakeAt(w, Due)
<1>5. /\ wake \in Int /\ wake <= now + Interval
      /\ wake = watch[w].start + Interval \/ wake = Due \/ wake = now + MinSleep
  BY <1>2, WakeBound, Parameters
<1>6. wake < Previous + 2 * Interval
  BY <1>2, <1>5, WatchOf, Parameters
<1>7. watch' = [watch EXCEPT ![w] = [Off EXCEPT !.pc = "sleep", !.wake = wake]]
  BY <1>1 DEF SetWatch, Asleep
<1> HIDE DEF wake
<1> DEFINE r == [Off EXCEPT !.pc = "sleep", !.wake = wake]
<1>8. r \in Watches /\ r.pc = "sleep" /\ r.start = 0 /\ r.tree = 0 /\ r.wake = wake
  BY <1>5, OffTyped DEF Off, Watches
<1> HIDE DEF r
<1>9. watch \in [Watchers -> Watches] /\ watch' = [watch EXCEPT ![w] = r]
  BY <1>7 DEF AutoInv, Typed, r
<1>10. Typed'
  <2>1. marker' \in {None} \union 0..MaxTime /\ marker' <= now
    BY <1>1, <1>2, Parameters DEF Typed
  <2>2. watch' \in [Watchers -> Watches]
    BY <1>8, <1>9
  <2>3. QED
    BY <1>1, <1>2, <2>1, <2>2 DEF Typed
<1>11. WatchesSound'
  <2>1. SUFFICES ASSUME NEW v \in Watchers PROVE WatchSound(watch[v])'
    BY DEF WatchesSound
  <2>2. CASE v = w
    <3>1. watch'[v] = r
      BY <1>9, <2>2
    <3>2. 0 <= now
      BY <1>2
    <3>3. QED
      BY <1>1, <1>5, <1>6, <1>8, <3>1, <3>2 DEF WatchSound, WatchHolds, Punctual
  <2>3. CASE v # w
    <3>1. watch'[v] = watch[v]
      BY <1>9, <2>3
    <3>2. QED
      BY <1>1, <1>2, <3>1, OthersAfterClaim
  <2>4. QED
    BY <2>2, <2>3
<1>12. QED
  BY <1>4, <1>10, <1>11 DEF AutoInv

\* A claim is a full interval after every attempt before it, and its attempt
\* gets a tree of its own.
LEMMA ClaimMade == ASSUME AutoInv, NEW w \in Watchers, Claim(w), Readable, Claimable PROVE AutoInv'
<1> DEFINE r == [watch[w] EXCEPT !.pc = "run", !.guardian = Spawning(now), !.tree = Len(trees) + 1]
           t == NewTree(w)
<1>1. /\ UNCHANGED <<now, legacy, auto, faults>> /\ watch[w].pc = "claim"
      /\ marker' = now /\ attempts' = Append(attempts, now) /\ trees' = Append(trees, t)
      /\ SetWatch(w, r)
  BY DEF Claim, WatchStep
<1>2. /\ Typed /\ now \in Int /\ now >= 0 /\ now \in 0..MaxTime /\ legacy \in Int /\ legacy <= 0
      /\ marker \in Int /\ marker <= now
      /\ trees \in Seq(Trees) /\ attempts \in Seq(Int) /\ watch \in [Watchers -> Watches]
      /\ Len(attempts) = Len(trees) + (IF legacy = 0 THEN 1 ELSE 0)
  BY Parameters DEF AutoInv, Typed, None, Invalid
<1>3. Previous \in Int /\ (Previous = None \/ now >= Previous + Interval)
  BY <1>2, PreviousIs DEF Claimable, Due
<1>4. /\ \A i \in DOMAIN attempts : attempts[i] + Interval <= now /\ attempts[i] >= 0
      /\ \A k \in DOMAIN trees : trees[k].at + Interval <= now
  <2>1. CASE Previous = None
    <3>1. DOMAIN attempts = {}
      BY <1>2, <2>1 DEF AutoInv, Recorded, None
    <3>2. DOMAIN attempts = 1..Len(attempts) /\ Len(attempts) \in Nat
          /\ DOMAIN trees = 1..Len(trees) /\ Len(trees) \in Nat
      BY <1>2
    <3>3. Len(attempts) < 1
      BY <3>1, <3>2
    <3>4. DOMAIN trees = {}
      BY <1>2, <3>2, <3>3
    <3>5. QED
      BY <3>1, <3>4
  <2>2. CASE now >= Previous + Interval
    <3>1. \A i \in DOMAIN attempts : attempts[i] \in Int /\ attempts[i] <= Previous /\ attempts[i] >= 0
      BY <1>2 DEF AutoInv, Recorded
    <3>2. \A k \in DOMAIN trees : trees[k].at \in Int /\ trees[k].at <= Previous
      BY TreeOf DEF AutoInv, Recorded
    <3>3. QED
      BY <1>2, <1>3, <2>2, <3>1, <3>2, Parameters
  <2>3. QED
    BY <1>3, <2>1, <2>2
<1>5. t \in Trees /\ t.at = now /\ t.sup.pc = "boot" /\ t.wkr = "none"
  <2>1. [NoGuardian EXCEPT !.pc = "boot"] \in Sups
    <3>1. NoGuardian \in [pc : {"none"}, pending : BOOLEAN, since : Int, term : BOOLEAN]
      BY DEF NoGuardian
    <3>2. QED
      BY <3>1 DEF Sups, SupPcs
  <2>2. QED
    BY <1>2, <2>1 DEF NewTree, Trees, WorkerPcs, NoGuardian
<1>6. /\ r \in Watches /\ r.pc = "run" /\ r.start = watch[w].start /\ r.tree = Len(trees) + 1
      /\ r.guardian.pc = "spawn" /\ r.guardian.since = now
  <2>1. Spawning(now) \in Guardians /\ Spawning(now).pc = "spawn" /\ Spawning(now).since = now
    BY <1>2 DEF Spawning, Guardians
  <2>2. watch[w] \in Watches /\ Len(trees) + 1 \in Nat
    BY <1>2
  <2>3. QED
    BY <2>1, <2>2 DEF Watches
<1> HIDE DEF r, t
<1>7. /\ trees' \in Seq(Trees) /\ Len(trees') = Len(trees) + 1 /\ DOMAIN trees' = 1..(Len(trees) + 1)
      /\ \A k \in DOMAIN trees : k \in 1..Len(trees) /\ trees'[k] = trees[k]
      /\ trees'[Len(trees) + 1] = t /\ DOMAIN trees = 1..Len(trees) /\ Len(trees) \in Nat
  BY <1>1, <1>2, <1>5
<1>8. /\ attempts' \in Seq(Int) /\ Len(attempts') = Len(attempts) + 1
      /\ DOMAIN attempts' = 1..(Len(attempts) + 1)
      /\ \A k \in DOMAIN attempts : attempts'[k] = attempts[k]
      /\ attempts'[Len(attempts) + 1] = now /\ DOMAIN attempts = 1..Len(attempts) /\ Len(attempts) \in Nat
  BY <1>1, <1>2
<1>9. watch' = [watch EXCEPT ![w] = r]
  BY <1>1 DEF SetWatch
<1>10. Typed'
  <2>1. watch' \in [Watchers -> Watches]
    BY <1>2, <1>6, <1>9
  <2>2. Len(attempts') = Len(trees') + (IF legacy = 0 THEN 1 ELSE 0)
    BY <1>2, <1>7, <1>8
  <2>3. QED
    BY <1>1, <1>2, <1>7, <1>8, <2>1, <2>2 DEF Typed
<1>11. Previous' = now
  BY <1>1, <1>2 DEF Previous
<1>12. Recorded'
  <2>1. ASSUME NEW i \in DOMAIN attempts' PROVE attempts'[i] <= now /\ attempts'[i] >= 0
    <3>1. i \in DOMAIN attempts \/ i = Len(attempts) + 1
      BY <1>8, <2>1
    <3>2. CASE i \in DOMAIN attempts
      <4>1. attempts[i] \in Int
        BY <1>2, <3>2
      <4>2. QED
        BY <1>2, <1>4, <1>8, <3>2, <4>1, Parameters
    <3>3. QED
      BY <1>2, <1>8, <3>1, <3>2
  <2>2. ASSUME NEW i \in DOMAIN attempts', NEW j \in DOMAIN attempts', i < j
        PROVE  attempts'[i] + Interval <= attempts'[j]
    <3>1. i \in DOMAIN attempts /\ (j \in DOMAIN attempts \/ j = Len(attempts) + 1)
      BY <1>8, <2>2
    <3>2. QED
      BY <1>4, <1>8, <2>2, <3>1 DEF AutoInv, Recorded
  <2>3. ASSUME NEW k \in DOMAIN trees' PROVE trees'[k].at <= now
    <3>1. k \in DOMAIN trees \/ k = Len(trees) + 1
      BY <1>7, <2>3
    <3>2. CASE k \in DOMAIN trees
      <4>1. trees[k].at \in Int
        BY <3>2, TreeOf
      <4>2. QED
        BY <1>2, <1>4, <1>7, <3>2, <4>1, Parameters
    <3>3. QED
      BY <1>2, <1>5, <1>7, <3>1, <3>2
  <2>4. ASSUME NEW j \in DOMAIN trees', NEW k \in DOMAIN trees', j < k
        PROVE  trees'[j].at + Interval <= trees'[k].at
    <3>1. j \in DOMAIN trees /\ (k \in DOMAIN trees \/ k = Len(trees) + 1)
      BY <1>7, <2>4
    <3>2. QED
      BY <1>4, <1>5, <1>7, <2>4, <3>1 DEF AutoInv, Recorded
  <2>5. QED
    BY <1>11, <2>1, <2>2, <2>3, <2>4 DEF Recorded
<1>13. TreesSound'
  <2>1. ASSUME NEW k \in DOMAIN trees' PROVE TreeSound(trees[k])'
    <3>1. k \in DOMAIN trees \/ k = Len(trees) + 1
      BY <1>7, <2>1
    <3>2. CASE k \in DOMAIN trees
      BY <1>1, <1>7, <3>2 DEF AutoInv, TreesSound, TreeSound
    <3>3. CASE k = Len(trees) + 1
      BY <1>1, <1>5, <1>7, <3>3 DEF TreeSound
    <3>4. QED
      BY <3>1, <3>2, <3>3
  <2>2. QED
    BY <2>1 DEF TreesSound
<1>14. WatchesSound'
  <2>1. SUFFICES ASSUME NEW v \in Watchers PROVE WatchSound(watch[v])'
    BY DEF WatchesSound
  <2>2. CASE v = w
    <3>1. watch'[v] = r /\ watch[w].start \in Int /\ watch[w].start <= now
      BY <1>2, <1>9, <2>2, WatchOf
    <3>2. Len(trees) + 1 \in DOMAIN trees' /\ now <= now + Timeout
      BY <1>2, <1>7, Parameters
    <3>3. QED
      BY <1>1, <1>2, <1>6, <3>1, <3>2 DEF WatchSound, WatchHolds, Punctual
  <2>3. CASE v # w
    <3>1. watch'[v] = watch[v]
      BY <1>2, <1>9, <2>3
    <3>2. /\ marker' \in Int /\ marker' >= marker /\ marker' >= 0 /\ marker' <= now
          /\ now < marker' + Interval /\ DOMAIN trees \subseteq DOMAIN trees'
      BY <1>1, <1>2, <1>7, Parameters
    <3>3. QED
      BY <1>1, <3>1, <3>2, OthersAfterClaim
  <2>4. QED
    BY <2>2, <2>3
<1>15. QED
  BY <1>10, <1>12, <1>13, <1>14 DEF AutoInv

-----------------------------------------------------------------------------
(* The setting and the clock *)

LEMMA SetAutoKeeps == ASSUME AutoInv, NEW enabled \in BOOLEAN, SetAuto(enabled) PROVE AutoInv'
<1>1. /\ UNCHANGED <<now, marker, legacy, trees, attempts>>
      /\ faults' = faults + 1 /\ faults < MaxFaults /\ auto' = enabled
  BY DEF SetAuto
<1>2. Typed /\ faults \in 0..MaxFaults /\ now \in Int /\ now >= 0
  BY Parameters DEF AutoInv, Typed
<1>3. faults' \in 0..MaxFaults /\ faults' # 0
  BY <1>1, <1>2, Parameters
<1>4. DOMAIN trees' = DOMAIN trees /\ Recorded' /\ TreesSound'
  BY <1>1, TreesStill
<1>5. ASSUME NEW w \in Watchers
      PROVE  watch'[w] \in Watches /\ WatchHolds(watch'[w])
  <2>1. watch'[w] = IF w \in Loops THEN watch[w]
                    ELSE IF watch[w].pc = "run" THEN [Stopped(w) EXCEPT !.start = now]
                    ELSE IF enabled THEN [Off EXCEPT !.pc = "sleep", !.wake = now + Interval] ELSE Off
    BY DEF SetAuto
  <2>2. CASE w \in Loops
    BY <2>1, <2>2, WatchOf
  <2>3. CASE w \notin Loops /\ watch[w].pc = "run"
    <3> DEFINE s == Stopped(w)
               r == [s EXCEPT !.start = now]
    <3>1. s \in Watches /\ WatchHolds(s)
      BY StoppedHolds
    <3>2. watch'[w] = r
      BY <2>1, <2>3
    <3> HIDE DEF s
    <3>3. /\ r \in Watches /\ r.start = now /\ r.pc = s.pc /\ r.wake = s.wake /\ r.tree = s.tree
          /\ r.guardian = s.guardian
      BY <1>2, <3>1 DEF Watches
    <3> HIDE DEF r
    <3>4. WatchHolds(r)
      BY <1>2, <3>1, <3>3 DEF WatchHolds
    <3>5. QED
      BY <3>2, <3>3, <3>4
  <2>4. CASE w \notin Loops /\ watch[w].pc # "run" /\ enabled
    <3>1. now + Interval \in Int /\ now + Interval <= now + Interval
      BY <1>2, Parameters
    <3>2. QED
      BY <2>1, <2>4, <3>1, SleepHolds
  <2>5. CASE w \notin Loops /\ watch[w].pc # "run" /\ ~enabled
    BY <2>1, <2>5, JustOff
  <2>6. QED
    BY <2>2, <2>3, <2>4, <2>5
<1>6. watch' \in [Watchers -> Watches]
  <2>1. watch' = [w \in Watchers |-> watch'[w]]
    BY DEF SetAuto
  <2>2. QED
    BY <1>5, <2>1
<1>7. Typed'
  BY <1>1, <1>2, <1>3, <1>6 DEF Typed
<1>8. WatchesSound'
  <2>1. SUFFICES ASSUME NEW w \in Watchers PROVE WatchSound(watch[w])'
    BY DEF WatchesSound
  <2>2. QED
    BY <1>1, <1>2, <1>3, <1>4, <1>5, WatchKept
<1>9. QED
  BY <1>4, <1>7, <1>8 DEF AutoInv

\* Time passes only while everyone waits, within the deadlines.
LEMMA TickKeeps == AutoInv /\ Tick => AutoInv'
<1>1. SUFFICES ASSUME AutoInv, Tick PROVE AutoInv'
  OBVIOUS
<1>2. /\ UNCHANGED <<marker, legacy, auto, watch, trees, attempts, faults>>
      /\ now' = now + 1 /\ now < MaxTime /\ Settled
  BY <1>1 DEF Tick
<1>3. now \in 0..MaxTime /\ now \in Int /\ marker \in Int /\ marker <= now
  BY <1>1, Parameters DEF AutoInv, Typed, None
<1>4. Typed'
  BY <1>1, <1>2, <1>3, Parameters DEF AutoInv, Typed
<1>5. Recorded'
  BY <1>1, <1>2 DEF AutoInv, Recorded, Previous
<1>6. TreesSound'
  <2>1. SUFFICES ASSUME NEW k \in DOMAIN trees PROVE TreeSound(trees[k])'
    BY <1>2 DEF TreesSound
  <2>2. trees[k].sup.pc \in {"wait", "gone"} /\ ~TimedOut(trees[k].sup)
    BY <1>2 DEF Settled
  <2>3. trees[k].sup.since \in Int
    BY <1>1, TreeOf DEF Sups
  <2>4. trees[k].sup.pc = "wait" => now < trees[k].sup.since + Timeout
    BY <1>3, <2>2, <2>3, Parameters DEF TimedOut
  <2>5. QED
    BY <1>1, <1>2, <1>3, <2>2, <2>3, <2>4, TreeOf, Parameters DEF TreeSound
<1>7. WatchesSound'
  <2>1. SUFFICES ASSUME NEW w \in Watchers PROVE WatchSound(watch[w])'
    BY DEF WatchesSound
  <2>2. /\ WatchHolds(watch[w]) /\ (faults = 0 => Punctual(watch[w]))
        /\ watch[w].start \in Int /\ watch[w].guardian.since \in Int /\ watch[w].wake \in Int
    BY <1>1, WatchOf DEF Watches
  <2>3. watch[w].pc = "run" => now < watch[w].guardian.since + Timeout
    BY <1>2, <1>3, <2>2, Parameters DEF Settled, TimedOut
  <2>4. WatchHolds(watch[w])'
    BY <1>2, <1>3, <2>2, <2>3, Parameters DEF WatchHolds
  <2>5. faults' = 0 => Punctual(watch[w])'
    BY <1>2, <2>2 DEF Punctual, Readable
  <2>6. QED
    BY <2>4, <2>5 DEF WatchSound
<1>8. QED
  BY <1>4, <1>5, <1>6, <1>7 DEF AutoInv

-----------------------------------------------------------------------------
(* The invariant *)

LEMMA AutoInit == Init => AutoInv
<1>1. SUFFICES ASSUME Init PROVE AutoInv
  OBVIOUS
<1>2. /\ now = 0 /\ marker = None /\ legacy \in {None, Invalid, 0} /\ auto = TRUE /\ faults = 0
      /\ trees = <<>> /\ attempts = IF legacy = 0 THEN <<0>> ELSE <<>>
      /\ watch = [w \in Watchers |->
           IF w \in Launchers THEN [Off EXCEPT !.pc = "sleep", !.wake = Interval] ELSE Off]
  BY <1>1 DEF Init
<1>3. Typed
  <2>1. watch \in [Watchers -> Watches]
    <3>1. [Off EXCEPT !.pc = "sleep", !.wake = Interval] \in Watches
      <4>1. Interval \in Int /\ "sleep" \in {"off", "sleep", "claim", "run"}
        BY Parameters
      <4>2. QED
        BY <4>1, OffTyped DEF Watches
    <3>2. QED
      BY <1>2, <3>1, OffTyped
  <2>2. attempts \in Seq(Int) /\ Len(attempts) = (IF legacy = 0 THEN 1 ELSE 0)
    BY <1>2
  <2>3. trees \in Seq(Trees) /\ Len(trees) = 0
    BY <1>2
  <2>4. QED
    BY <1>2, <2>1, <2>2, <2>3, Parameters DEF Typed, None
<1>4. DOMAIN trees = {}
  BY <1>2
<1>5. Recorded
  <2>1. CASE legacy = 0
    <3>1. attempts = <<0>> /\ Previous = 0
      BY <1>2, <2>1 DEF Previous, None
    <3>2. DOMAIN attempts = {1} /\ attempts[1] = 0
      BY <3>1
    <3>3. QED
      BY <1>4, <3>1, <3>2 DEF Recorded
  <2>2. CASE legacy # 0
    <3>1. DOMAIN attempts = {}
      BY <1>2, <2>2
    <3>2. QED
      BY <1>4, <3>1 DEF Recorded
  <2>3. QED
    BY <2>1, <2>2
<1>6. TreesSound
  BY <1>4 DEF TreesSound
<1>7. WatchesSound
  <2>1. SUFFICES ASSUME NEW w \in Watchers PROVE WatchHolds(watch[w]) /\ Punctual(watch[w])
    BY DEF WatchesSound, WatchSound
  <2>2. CASE w \in Launchers
    <3>1. /\ watch[w].pc = "sleep" /\ watch[w].wake = Interval /\ watch[w].start = 0 /\ watch[w].tree = 0
      BY <1>2, <2>2 DEF Off
    <3>2. QED
      BY <1>2, <3>1, Parameters DEF WatchHolds, Punctual
  <2>3. CASE w \notin Launchers
    <3>1. watch[w].pc = "off" /\ watch[w].start = 0 /\ watch[w].tree = 0
      BY <1>2, <2>3 DEF Off
    <3>2. QED
      BY <1>2, <3>1 DEF WatchHolds, Punctual
  <2>4. QED
    BY <2>2, <2>3
<1>8. QED
  BY <1>3, <1>5, <1>6, <1>7 DEF AutoInv

\* The inductive invariant: the claims, the clock and the guardians agree,
\* whichever watchers run and whoever is signalled or killed.
THEOREM AutoInductive == Spec => []AutoInv
<1>1. AutoInv /\ [Next]_vars => AutoInv'
  <2>1. SUFFICES ASSUME AutoInv, [Next]_vars PROVE AutoInv'
    OBVIOUS
  <2>2. ASSUME NEW w \in Watchers, StartLoop(w) \/ Wake(w) \/ ClaimFails(w) \/ GraceExpires(w)
                                   \/ TermWatcher(w) \/ KillWatcher(w)
        PROVE  AutoInv'
    BY <2>1, <2>2, CycleBegins, ClaimFailsKeeps, GraceExpiresKeeps, WatcherSignalsKeep
  <2>3. ASSUME NEW w \in Watchers, WatcherStep(w) PROVE AutoInv'
    BY <2>1, <2>3, ClaimUnread, ClaimDeferred, ClaimMade, WatcherGoesOn, StopTreeKeeps, WatcherReapsKeeps
       DEF WatcherStep
  <2>4. ASSUME NEW k \in DOMAIN trees, SupervisorStep(k) PROVE AutoInv'
    BY <2>1, <2>4, SupervisorStartsKeeps, SupervisorAcquiresKeeps, SupervisorTimesOutKeeps,
       SupervisorReapsKeeps DEF SupervisorStep
  <2>5. ASSUME NEW k \in DOMAIN trees,
               WorkerStarts(k) \/ WorkerEnds(k) \/ TermSupervisor(k) \/ KillSupervisor(k)
        PROVE  AutoInv'
    BY <2>1, <2>5, WorkerKeeps, SupervisorSignalsKeep
  <2>6. ASSUME NEW enabled \in BOOLEAN, SetAuto(enabled) PROVE AutoInv'
    BY <2>1, <2>6, SetAutoKeeps
  <2>7. CASE Tick
    BY <2>1, <2>7, TickKeeps
  <2>8. CASE UNCHANGED vars
    <3>1. UNCHANGED <<now, marker, legacy, auto, watch, trees, attempts, faults>>
      BY <2>8 DEF vars
    <3>2. Recorded' /\ TreesSound'
      BY <2>1, <3>1, TreesStill
    <3>3. Typed'
      BY <2>1, <3>1 DEF AutoInv, Typed
    <3>4. Typed /\ WatchesSound /\ faults' \in {faults, faults + 1} /\ DOMAIN trees' = DOMAIN trees
      BY <2>1, <3>1 DEF AutoInv
    <3>5. WatchesSound'
      BY <3>1, <3>4, WatchesStill
    <3>6. QED
      BY <3>2, <3>3, <3>5 DEF AutoInv
  <2>9. QED
    BY <2>1, <2>2, <2>3, <2>4, <2>5, <2>6, <2>7, <2>8 DEF Next
<1>2. QED
  BY <1>1, AutoInit, PTL DEF Spec

\* One automatic attempt a day: whatever watchers run, die and start again and
\* whatever identity the profile had, two attempts are a full interval apart
\* (claim_auto_sync), and a watcher that sleeps is back before two are over.
THEOREM AttemptsDailyHolds == Spec => []AttemptsDaily
<1>1. AutoInv => AttemptsDaily
  <2>1. SUFFICES ASSUME AutoInv PROVE AttemptsDaily
    OBVIOUS
  <2>2. TypeOK
    <3>1. /\ now \in 0..MaxTime /\ {marker, legacy} \subseteq {None, Invalid} \union 0..MaxTime
          /\ auto \in BOOLEAN /\ faults \in 0..MaxFaults
          /\ Len(attempts) = Len(trees) + (IF legacy = 0 THEN 1 ELSE 0)
      BY <2>1, Parameters DEF AutoInv, Typed
    <3>2. ASSUME NEW w \in Watchers
          PROVE  /\ watch[w].pc \in {"off", "sleep", "claim", "run"}
                 /\ watch[w].pc = "run" <=> watch[w].tree \in DOMAIN trees
      <4>1. watch[w] \in Watches /\ WatchHolds(watch[w])
        BY <2>1, WatchOf
      <4>2. 0 \notin DOMAIN trees
        BY <2>1 DEF AutoInv, Typed
      <4>3. QED
        BY <4>1, <4>2 DEF Watches, WatchHolds
    <3>3. \A k \in DOMAIN trees : /\ trees[k].sup.pc \in {"boot", "spawn", "wait", "stop", "gone"}
                                  /\ trees[k].wkr \in {"none", "boot", "run", "gone"}
      BY <2>1, TreeOf DEF SupPcs, WorkerPcs
    <3>4. QED
      BY <3>1, <3>2, <3>3 DEF TypeOK
  <2>3. AttemptsApart
    <3>1. attempts \in Seq(Int) /\ \A i, j \in DOMAIN attempts : i < j => attempts[i] + Interval <= attempts[j]
      BY <2>1 DEF AutoInv, Typed, Recorded
    <3>2. SUFFICES ASSUME NEW i \in 1..Len(attempts) - 1 PROVE attempts[i + 1] >= attempts[i] + Interval
      BY DEF AttemptsApart
    <3>3. i \in DOMAIN attempts /\ i + 1 \in DOMAIN attempts /\ i < i + 1
      BY <3>1
    <3>4. attempts[i] \in Int /\ attempts[i + 1] \in Int /\ attempts[i] + Interval <= attempts[i + 1]
      BY <3>1, <3>3
    <3>5. QED
      BY <3>4, Parameters
  <2>4. AttemptsKeepUp
    BY <2>1, WatchOf DEF AttemptsKeepUp, Punctual
  <2>5. QED
    BY <2>2, <2>3, <2>4 DEF AttemptsDaily
<1>2. QED
  BY <1>1, AutoInductive, PTL

\* Every worker runs under a live supervisor and within its time, unless that
\* was killed where no job object takes the worker along, and so no two
\* attempts ever work at a time (run_auto_worker).
THEOREM WorkersContainedHolds == Spec => []WorkersContained
<1>1. AutoInv => WorkersContained
  <2>1. SUFFICES ASSUME AutoInv PROVE WorkersContained
    OBVIOUS
  <2>2. ASSUME NEW k \in DOMAIN trees, WorkerRuns(k)
        PROVE  \/ trees[k].killed /\ ~JobObject
               \/ Alive(k) /\ now <= trees[k].at + Timeout
    BY <2>1, <2>2, TreeOf, Parameters DEF WorkerRuns, Alive, TreeSound, SupPcs
  <2>3. ASSUME NEW j \in DOMAIN trees, NEW k \in DOMAIN trees, WorkerRuns(j), WorkerRuns(k), ~trees[j].killed
        PROVE  j >= k
    <3>1. now <= trees[j].at + Timeout /\ trees[j].at \in Int /\ trees[k].at \in Int /\ now \in Int
      BY <2>1, <2>2, <2>3, TreeOf
    <3>2. trees[k].at <= now
      BY <2>1, <3>1, PreviousIs DEF AutoInv, Recorded
    <3>3. j < k => trees[j].at + Interval <= trees[k].at
      BY <2>1 DEF AutoInv, Recorded
    <3>4. j \in Int /\ k \in Int
      BY <2>1 DEF AutoInv, Typed
    <3>5. QED
      BY <3>1, <3>2, <3>3, <3>4, Parameters
  <2>4. QED
    BY <2>2, <2>3 DEF WorkersContained
<1>2. QED
  BY <1>1, AutoInductive, PTL

-----------------------------------------------------------------------------
(* LocalServer: connections, stopping and the clipboard *)

\* The states of a connection that has a slot, and of one that is listed.
Held == {"slot", "listed", "queued", "read", "body", "wrote", "leave", "release"}
Listed == {"listed", "queued", "read", "body", "wrote", "leave"}

Bodies == {c \in Conns : conn[c] = "body"}

\* Every slot is free or held, and so is every request slot of the relay.
SlotsAccounted == slots + Cardinality(Holding) = MaxWorkers
RequestsAccounted == ~Admin => requests + Cardinality(Bodies) = RequestSlots

\* _connections holds the connections between their registration and the
\* moment their handler forgets them, and the cancel reader is closed only
\* after the last of them; none is registered any more then.
ConnectionsListed == \A c \in Conns : c \in open <=> conn[c] \in Listed
ReaderLasts == reader = "closed" => closing /\ open = {}

ServerInv == ServerTypeOK /\ SlotsAccounted /\ RequestsAccounted /\ ConnectionsListed /\ ReaderLasts

-----------------------------------------------------------------------------
(* Counting connections *)

LEMMA HoldingFinite ==
  ASSUME ServerTypeOK
  PROVE  /\ IsFiniteSet(Holding) /\ Cardinality(Holding) \in Nat
         /\ IsFiniteSet(Bodies) /\ Cardinality(Bodies) \in Nat
         /\ Holding = {c \in Conns : conn[c] \in Held}
<1>1. IsFiniteSet(Holding) /\ IsFiniteSet(Bodies)
  BY FS_Subset, ServerAssumption DEF Holding, Bodies
<1>2. Holding = {c \in Conns : conn[c] \in Held}
  BY DEF Holding, Held, ServerTypeOK
<1>3. QED
  BY <1>1, <1>2, FS_CardinalityType

\* A connection that moves on takes a slot, gives one back or keeps what it has.
LEMMA Moved ==
  ASSUME ServerTypeOK, NEW c \in Conns, NEW pc, Goto(c, pc), pc \in Held \union {"closed"}
  PROVE  /\ conn[c] = "new" /\ pc \in Held => Cardinality(Holding') = Cardinality(Holding) + 1
         /\ conn[c] \in Held /\ pc = "closed" => Cardinality(Holding') = Cardinality(Holding) - 1
         /\ conn[c] \in Held /\ pc \in Held => Holding' = Holding
         /\ conn[c] = "new" /\ pc = "closed" => Holding' = Holding
         /\ conn[c] # "body" /\ pc = "body" => Cardinality(Bodies') = Cardinality(Bodies) + 1
         /\ conn[c] = "body" /\ pc # "body" => Cardinality(Bodies') = Cardinality(Bodies) - 1
         /\ conn[c] # "body" /\ pc # "body" => Bodies' = Bodies
<1>1. conn' = [conn EXCEPT ![c] = pc] /\ c \in DOMAIN conn /\ DOMAIN conn = Conns
  BY DEF Goto, ServerTypeOK
<1>2. Holding = {d \in Conns : conn[d] \in Held} /\ IsFiniteSet(Holding) /\ IsFiniteSet(Bodies)
  BY HoldingFinite
<1>3. Holding' = {d \in Conns : conn'[d] \in Held}
  BY <1>1 DEF Holding, Held, ServerTypeOK
<1>4. ASSUME conn[c] = "new", pc \in Held PROVE Cardinality(Holding') = Cardinality(Holding) + 1
  <2>1. c \notin Holding /\ Holding' = Holding \union {c}
    BY <1>1, <1>2, <1>3, <1>4 DEF Held
  <2>2. QED
    BY <1>2, <2>1, FS_AddElement
<1>5. ASSUME conn[c] \in Held, pc = "closed" PROVE Cardinality(Holding') = Cardinality(Holding) - 1
  <2>1. c \in Holding /\ Holding' = Holding \ {c}
    BY <1>1, <1>2, <1>3, <1>5 DEF Held
  <2>2. QED
    BY <1>2, <2>1, FS_RemoveElement
<1>6. ASSUME conn[c] # "body", pc = "body" PROVE Cardinality(Bodies') = Cardinality(Bodies) + 1
  <2>1. c \notin Bodies /\ Bodies' = Bodies \union {c}
    BY <1>1, <1>6 DEF Bodies
  <2>2. QED
    BY <1>2, <2>1, FS_AddElement
<1>7. ASSUME conn[c] = "body", pc # "body" PROVE Cardinality(Bodies') = Cardinality(Bodies) - 1
  <2>1. c \in Bodies /\ Bodies' = Bodies \ {c}
    BY <1>1, <1>7 DEF Bodies
  <2>2. QED
    BY <1>2, <2>1, FS_RemoveElement
<1>8. /\ conn[c] \in Held /\ pc \in Held => Holding' = Holding
      /\ conn[c] = "new" /\ pc = "closed" => Holding' = Holding
  BY <1>1, <1>2, <1>3 DEF Held
<1>9. conn[c] # "body" /\ pc # "body" => Bodies' = Bodies
  BY <1>1 DEF Bodies
<1>10. QED
  BY <1>4, <1>5, <1>6, <1>7, <1>8, <1>9

-----------------------------------------------------------------------------
(* The initial states *)

LEMMA ServerInit == InitServer => ServerInv
<1>1. SUFFICES ASSUME InitServer PROVE ServerInv
  OBVIOUS
<1>2. Holding = {} /\ Bodies = {}
  BY <1>1 DEF InitServer, Holding, Bodies
<1>3. Cardinality(Holding) = 0 /\ Cardinality(Bodies) = 0
  BY <1>2, FS_EmptySet
<1>4. ServerTypeOK
  <2>1. /\ role \in {"admin", "relay"} /\ open \subseteq Conns
        /\ slots \in 0..MaxWorkers /\ requests \in 0..RequestSlots
        /\ reader = "open" /\ thread = "bound"
        /\ closing = FALSE /\ stopping = FALSE /\ shutdown = FALSE /\ alive = TRUE /\ excused = "no"
        /\ clipboard = Empty /\ pending = NoEntry /\ cleaner = NoEntry
    BY <1>1, ServerAssumption DEF InitServer
  <2>2. entry \in [Conns -> Entries \union {NoEntry}]
    BY <1>1 DEF InitServer
  <2>3. conn \in [Conns -> {"new", "slot", "listed", "queued", "read", "body", "wrote", "leave",
                            "release", "closed"}]
    BY <1>1 DEF InitServer
  <2>4. stopper \in [Stoppers -> {"idle", "shutdown", "wait", "close", "done"}]
    BY <1>1 DEF InitServer
  <2>5. command \in [Commands -> [pc : {"idle", "wrote", "sleep", "clear", "done"},
                                  entry : Entries \union {NoEntry}]]
    BY <1>1 DEF InitServer
  <2>6. QED
    BY <2>1, <2>2, <2>3, <2>4, <2>5 DEF ServerTypeOK
<1>5. SlotsAccounted /\ RequestsAccounted
  BY <1>1, <1>3, ServerAssumption DEF InitServer, SlotsAccounted, RequestsAccounted
<1>6. ConnectionsListed /\ ReaderLasts
  BY <1>1 DEF InitServer, ConnectionsListed, ReaderLasts, Listed
<1>7. QED
  BY <1>4, <1>5, <1>6 DEF ServerInv

-----------------------------------------------------------------------------
(* The steps of a connection *)

\* What the steps of a connection leave of the types.
OtherTypes ==
  /\ role \in {"admin", "relay"} /\ entry \in [Conns -> Entries \union {NoEntry}]
  /\ reader \in {"open", "closed"} /\ thread \in {"bound", "loop", "close", "returned"}
  /\ {closing, stopping, shutdown, alive} \subseteq BOOLEAN
  /\ excused \in {"no", "asked", "failed", "exited", "overtaken"}
  /\ stopper \in [Stoppers -> {"idle", "shutdown", "wait", "close", "done"}]
  /\ clipboard \in Entries \union {Empty, Foreign} /\ pending \in Entries \union {NoEntry}
  /\ cleaner \in Entries \union {NoEntry, Dead}
  /\ command \in [Commands -> [pc : {"idle", "wrote", "sleep", "clear", "done"}, entry : Entries \union {NoEntry}]]

\* A connection whose move is matched by slots, requests and _connections
\* keeps the account.
LEMMA MoveKeeps ==
  ASSUME ServerInv, NEW c \in Conns, NEW pc, Goto(c, pc), pc \in Held \union {"closed"},
         conn[c] \in Held \union {"new"},
         UNCHANGED <<role, closing>>, OtherTypes',
         slots' = slots - (IF conn[c] = "new" /\ pc \in Held THEN 1 ELSE 0)
                        + (IF conn[c] \in Held /\ pc = "closed" THEN 1 ELSE 0),
         ~Admin => requests' = requests - (IF conn[c] # "body" /\ pc = "body" THEN 1 ELSE 0)
                                        + (IF conn[c] = "body" /\ pc # "body" THEN 1 ELSE 0),
         Admin => requests' = requests,
         conn[c] = "new" /\ pc \in Held => slots # 0,
         ~Admin /\ conn[c] # "body" /\ pc = "body" => requests # 0,
         open' = IF pc \in Listed THEN open \union {c} ELSE open \ {c},
         reader' = "closed" => closing /\ open' = {}
  PROVE  ServerInv'
<1>1. ServerTypeOK /\ conn' = [conn EXCEPT ![c] = pc] /\ c \in DOMAIN conn /\ DOMAIN conn = Conns
  BY DEF Goto, ServerInv, ServerTypeOK
<1>2. conn' \in [Conns -> {"new", "slot", "listed", "queued", "read", "body", "wrote", "leave",
                           "release", "closed"}]
  BY <1>1 DEF ServerTypeOK, Held
<1>3. Holding' = {d \in Conns : conn'[d] \in Held}
  BY <1>2 DEF Holding, Held
<1>4. /\ IsFiniteSet(Holding') /\ Cardinality(Holding') \in Nat
      /\ IsFiniteSet(Bodies') /\ Cardinality(Bodies') \in Nat
  <2>1. IsFiniteSet(Holding') /\ IsFiniteSet(Bodies')
    BY <1>3, FS_Subset, ServerAssumption DEF Bodies
  <2>2. QED
    BY <2>1, FS_CardinalityType
<1>5. Cardinality(Holding) \in Nat /\ Cardinality(Bodies) \in Nat
  BY <1>1, HoldingFinite
<1>6. slots' + Cardinality(Holding') = MaxWorkers /\ slots' \in 0..MaxWorkers
  <2>1. slots + Cardinality(Holding) = MaxWorkers /\ slots \in 0..MaxWorkers /\ MaxWorkers \in Nat
    BY <1>1, ServerAssumption DEF ServerInv, SlotsAccounted, ServerTypeOK
  <2>2. CASE conn[c] = "new" /\ pc \in Held
    <3>1. Cardinality(Holding') = Cardinality(Holding) + 1 /\ slots' = slots - 1 /\ slots # 0
      BY <1>1, <2>1, <2>2, Moved DEF Held
    <3>2. QED
      BY <1>4, <1>5, <2>1, <3>1
  <2>3. CASE conn[c] \in Held /\ pc = "closed"
    <3>1. Cardinality(Holding') = Cardinality(Holding) - 1 /\ slots' = slots + 1
      BY <1>1, <2>1, <2>3, Moved DEF Held
    <3>2. QED
      BY <1>4, <1>5, <2>1, <3>1
  <2>4. CASE ~(conn[c] = "new" /\ pc \in Held) /\ ~(conn[c] \in Held /\ pc = "closed")
    <3>1. Holding' = Holding /\ slots' = slots
      BY <1>1, <2>1, <2>4, Moved DEF Held
    <3>2. QED
      BY <1>4, <1>5, <2>1, <3>1
  <2>5. QED
    BY <2>2, <2>3, <2>4
<1>7. /\ ~Admin => requests' + Cardinality(Bodies') = RequestSlots
      /\ requests' \in 0..RequestSlots
  <2>1. requests \in 0..RequestSlots /\ RequestSlots \in Nat
    BY <1>1, ServerAssumption DEF ServerTypeOK
  <2>2. CASE ~Admin
    <3>1. requests + Cardinality(Bodies) = RequestSlots
      BY <2>2 DEF ServerInv, RequestsAccounted
    <3>2. CASE conn[c] # "body" /\ pc = "body"
      <4>1. Cardinality(Bodies') = Cardinality(Bodies) + 1 /\ requests' = requests - 1 /\ requests # 0
        BY <1>1, <2>1, <2>2, <3>2, Moved
      <4>2. QED
        BY <1>4, <1>5, <2>1, <3>1, <4>1
    <3>3. CASE conn[c] = "body" /\ pc # "body"
      <4>1. Cardinality(Bodies') = Cardinality(Bodies) - 1 /\ requests' = requests + 1
        BY <1>1, <2>1, <2>2, <3>3, Moved
      <4>2. QED
        BY <1>4, <1>5, <2>1, <3>1, <4>1
    <3>4. CASE (conn[c] # "body" /\ pc # "body") \/ (conn[c] = "body" /\ pc = "body")
      <4>1. Bodies' = Bodies
        BY <1>1, <3>4 DEF Bodies
      <4>2. requests' = requests
        BY <2>1, <2>2, <3>4
      <4>3. QED
        BY <1>4, <1>5, <2>1, <3>1, <4>1, <4>2
    <3>5. QED
      BY <3>2, <3>3, <3>4
  <2>3. QED
    BY <2>1, <2>2
<1>8. open' \subseteq Conns
  BY <1>1 DEF ServerTypeOK
<1>9. ServerTypeOK'
  BY <1>2, <1>6, <1>7, <1>8 DEF ServerTypeOK, OtherTypes
<1>10. ConnectionsListed'
  BY <1>1 DEF ServerInv, ConnectionsListed
<1>11. QED
  BY <1>6, <1>7, <1>9, <1>10
     DEF ServerInv, SlotsAccounted, RequestsAccounted, ReaderLasts, Admin

\* A step that moves no connection has only its own variables to answer for.
LEMMA StillKeeps ==
  ASSUME ServerInv, UNCHANGED <<role, conn, slots, requests, open>>, OtherTypes',
         reader' = "closed" => closing' /\ open = {}
  PROVE  ServerInv'
<1>1. ServerTypeOK'
  BY DEF ServerInv, ServerTypeOK, OtherTypes
<1>2. Holding' = Holding /\ Bodies' = Bodies
  BY DEF Holding, Bodies
<1>3. QED
  BY <1>1, <1>2 DEF ServerInv, SlotsAccounted, RequestsAccounted, ConnectionsListed, ReaderLasts, Admin

LEMMA TypesOfOthers == ServerTypeOK => OtherTypes
BY DEF ServerTypeOK, OtherTypes

LEMMA TypesUnchanged ==
  ASSUME ServerTypeOK, UNCHANGED <<role, entry, reader, closing, lifecycle, board>>
  PROVE  OtherTypes'
BY DEF ServerTypeOK, OtherTypes, lifecycle, board

\* process_request: no thread without a slot.
LEMMA AcceptKeeps == ASSUME ServerInv, NEW c \in Conns, Accept(c) PROVE ServerInv'
<1>1. ServerTypeOK /\ conn[c] = "new" /\ conn[c] \notin Listed
  BY DEF ServerInv, Accept, Listed
<1>2. c \notin open
  BY <1>1 DEF ServerInv, ConnectionsListed
<1>3. OtherTypes'
  BY <1>1, TypesUnchanged DEF Accept
<1>4. CASE closing \/ slots = 0
  <2>1. Goto(c, "closed") /\ UNCHANGED <<role, slots, requests, open, closing, reader>>
    BY <1>4 DEF Accept
  <2>2. slots' = slots - 0 + 0 /\ requests' = requests - 0 + 0
    BY <1>1, <2>1 DEF ServerTypeOK
  <2>3. QED
    BY <1>1, <1>2, <1>3, <2>1, <2>2, MoveKeeps DEF Held, Listed, ServerInv, ReaderLasts
<1>5. CASE ~(closing \/ slots = 0)
  <2>1. Goto(c, "slot") /\ slots' = slots - 1 /\ UNCHANGED <<role, requests, open, closing, reader>>
    BY <1>5 DEF Accept
  <2>2. slots' = slots - 1 + 0 /\ requests' = requests - 0 + 0
    BY <1>1, <2>1 DEF ServerTypeOK
  <2>3. QED
    BY <1>1, <1>2, <1>3, <1>5, <2>1, <2>2, MoveKeeps DEF Held, Listed, ServerInv, ReaderLasts
<1>6. QED
  BY <1>4, <1>5

\* A connection is registered only while the server is not closing, so that the
\* cancel reader is there for its handler.
LEMMA RegisterKeeps == ASSUME ServerInv, NEW c \in Conns, Register(c) PROVE ServerInv'
<1>1. ServerTypeOK /\ conn[c] = "slot" /\ conn[c] \notin Listed
  BY DEF ServerInv, Register, Listed
<1>2. c \notin open
  BY <1>1 DEF ServerInv, ConnectionsListed
<1>3. OtherTypes'
  BY <1>1, TypesUnchanged DEF Register
<1>4. CASE closing
  <2>1. /\ Goto(c, "closed") /\ slots' = slots + 1
        /\ UNCHANGED <<role, requests, open, closing, reader>>
    BY <1>4 DEF Register
  <2>2. slots' = slots - 0 + 1 /\ requests' = requests - 0 + 0
    BY <1>1, <2>1 DEF ServerTypeOK
  <2>3. QED
    BY <1>1, <1>2, <1>3, <2>1, <2>2, MoveKeeps DEF Held, Listed, ServerInv, ReaderLasts
<1>5. CASE ~closing
  <2>1. /\ Goto(c, "listed") /\ open' = open \union {c}
        /\ UNCHANGED <<role, slots, requests, closing, reader>>
    BY <1>5 DEF Register
  <2>2. slots' = slots - 0 + 0 /\ requests' = requests - 0 + 0
    BY <1>1, <2>1 DEF ServerTypeOK
  <2>3. reader' # "closed"
    BY <1>5, <2>1 DEF ServerInv, ReaderLasts
  <2>4. QED
    BY <1>1, <1>2, <1>3, <2>1, <2>2, <2>3, MoveKeeps DEF Held, Listed
<1>6. QED
  BY <1>4, <1>5

\* A connection that goes from one listed state to another, outside its
\* request slot, changes nothing of the account.
LEMMA GoesOn ==
  ASSUME ServerInv, NEW c \in Conns, NEW pc, conn[c] \in Listed, pc \in Listed,
         conn[c] = "body" <=> pc = "body",
         Goto(c, pc), UNCHANGED <<role, slots, requests, open, closing, reader>>, OtherTypes'
  PROVE  ServerInv'
<1>1. ServerTypeOK /\ c \in open /\ Listed \subseteq Held
  BY DEF ServerInv, ConnectionsListed, Listed, Held
<1>2. slots' = slots - 0 + 0 /\ requests' = requests - 0 + 0
  BY <1>1 DEF ServerTypeOK
<1>3. /\ ~(conn[c] = "new") /\ ~(pc = "closed")
      /\ ~(conn[c] # "body" /\ pc = "body") /\ ~(conn[c] = "body" /\ pc # "body")
  BY DEF Listed
<1>4. reader' = "closed" => closing /\ open' = {}
  BY DEF ServerInv, ReaderLasts
<1>5. open' = open \union {c}
  BY <1>1
<1>6. QED
  BY <1>1, <1>2, <1>3, <1>4, <1>5, MoveKeeps

LEMMA StartThreadKeeps == ASSUME ServerInv, NEW c \in Conns, StartThread(c) PROVE ServerInv'
<1>1. /\ conn[c] \in Listed /\ conn[c] # "body" /\ Goto(c, "queued")
      /\ UNCHANGED <<role, slots, requests, open, closing, reader>>
  BY DEF StartThread, server, Listed
<1>2. OtherTypes'
  BY TypesUnchanged DEF StartThread, server, ServerInv
<1>3. QED
  BY <1>1, <1>2, GoesOn DEF Listed

\* _close_cancel_reader_if_unused leaves the reader to those that are listed.
LEMMA ReaderAfterLasts ==
  ASSUME ServerInv, NEW connections, connections \subseteq open
  PROVE  /\ ReaderAfter(closing, connections) \in {"open", "closed"}
         /\ ReaderAfter(closing, connections) = "closed" => closing /\ connections = {}
BY DEF ServerInv, ServerTypeOK, ReaderLasts, ReaderAfter

LEMMA ThreadFailsKeeps == ASSUME ServerInv, NEW c \in Conns, ThreadFails(c) PROVE ServerInv'
<1>1. /\ conn[c] = "listed" /\ Goto(c, "closed") /\ open' = open \ {c}
      /\ reader' = ReaderAfter(closing, open \ {c}) /\ slots' = slots + 1
      /\ UNCHANGED <<role, entry, requests, closing, lifecycle, board>>
  BY DEF ThreadFails
<1>2. /\ reader' \in {"open", "closed"}
      /\ reader' = "closed" => closing /\ open' = {}
  BY <1>1, ReaderAfterLasts
<1>3. OtherTypes'
  BY <1>1, <1>2 DEF OtherTypes, ServerInv, ServerTypeOK, lifecycle, board
<1>4. slots' = slots - 0 + 1 /\ requests' = requests - 0 + 0
  BY <1>1 DEF ServerInv, ServerTypeOK
<1>5. QED
  BY <1>1, <1>2, <1>3, <1>4, MoveKeeps DEF Held, Listed

LEMMA BeginKeeps == ASSUME ServerInv, NEW c \in Conns, Begin(c) PROVE ServerInv'
<1>1. /\ conn[c] = "queued" /\ (Goto(c, "leave") \/ Goto(c, "read"))
      /\ UNCHANGED <<role, slots, requests, open, closing, reader>>
  BY DEF Begin, server, HandlerStep
<1>2. OtherTypes'
  BY TypesUnchanged DEF Begin, server, HandlerStep, ServerInv
<1>3. QED
  BY <1>1, <1>2, GoesOn DEF Listed

LEMMA ReadFailsKeeps == ASSUME ServerInv, NEW c \in Conns, ReadFails(c) PROVE ServerInv'
<1>1. /\ conn[c] = "read" /\ Goto(c, "leave")
      /\ UNCHANGED <<role, slots, requests, open, closing, reader>>
  BY DEF ReadFails, server, HandlerStep
<1>2. OtherTypes'
  BY TypesUnchanged DEF ReadFails, server, HandlerStep, ServerInv
<1>3. QED
  BY <1>1, <1>2, GoesOn DEF Listed

\* A request enters or leaves its body: only the relay counts it.
LEMMA BodyStep ==
  ASSUME ServerInv, NEW c \in Conns, NEW pc \in {"body", "leave", "wrote"}, conn[c] \in {"read", "body"},
         Goto(c, pc), (pc = "body") # (conn[c] = "body"),
         requests' = IF Admin THEN requests ELSE IF pc = "body" THEN requests - 1 ELSE requests + 1,
         ~Admin /\ pc = "body" => requests # 0,
         UNCHANGED <<role, slots, open, closing, reader>>, OtherTypes'
  PROVE  ServerInv'
<1>1. ServerTypeOK /\ c \in open
  BY DEF ServerInv, ConnectionsListed, Listed
<1>2. slots' = slots - 0 + 0
  BY <1>1 DEF ServerTypeOK
<1>3. /\ Admin => requests' = requests
      /\ ~Admin => requests' = requests - (IF conn[c] # "body" /\ pc = "body" THEN 1 ELSE 0)
                                        + (IF conn[c] = "body" /\ pc # "body" THEN 1 ELSE 0)
  BY <1>1 DEF ServerTypeOK
<1>4. reader' = "closed" => closing /\ open' = {}
  BY DEF ServerInv, ReaderLasts
<1>5. open' = open \union {c}
  BY <1>1
<1>6. pc \in Listed /\ pc \in Held /\ conn[c] \in Held /\ conn[c] # "new" /\ pc # "closed"
  BY DEF Listed, Held
<1>7. QED
  BY <1>2, <1>3, <1>4, <1>5, <1>6, MoveKeeps

LEMMA DispatchKeeps == ASSUME ServerInv, NEW c \in Conns, Dispatch(c) PROVE ServerInv'
<1>1. /\ Admin /\ conn[c] = "read" /\ Goto(c, "body")
      /\ UNCHANGED <<role, slots, requests, open, closing, reader>>
  BY DEF Dispatch, server, HandlerStep
<1>2. OtherTypes'
  BY TypesUnchanged DEF Dispatch, server, HandlerStep, ServerInv
<1>3. QED
  BY <1>1, <1>2, BodyStep

LEMMA TakeRequestSlotKeeps == ASSUME ServerInv, NEW c \in Conns, TakeRequestSlot(c) PROVE ServerInv'
<1>1. /\ ~Admin /\ conn[c] = "read" /\ UNCHANGED <<role, slots, open, closing, reader>>
      /\ IF requests = 0
         THEN Goto(c, "leave") /\ UNCHANGED requests
         ELSE Goto(c, "body") /\ requests' = requests - 1
  BY DEF TakeRequestSlot, HandlerStep
<1>2. OtherTypes'
  BY TypesUnchanged DEF TakeRequestSlot, HandlerStep, ServerInv
<1>3. CASE requests = 0
  BY <1>1, <1>2, <1>3, GoesOn DEF Listed
<1>4. CASE requests # 0
  BY <1>1, <1>2, <1>4, BodyStep
<1>5. QED
  BY <1>3, <1>4

\* The request slot is given back whether the body came or not.
LEMMA ServeKeeps == ASSUME ServerInv, NEW c \in Conns, BodyFails(c) \/ Serve(c) PROVE ServerInv'
<1>1. /\ conn[c] = "body" /\ Goto(c, "leave") /\ UNCHANGED <<role, slots, open, closing, reader>>
      /\ requests' = IF Admin THEN requests ELSE requests + 1
  BY DEF BodyFails, Serve, HandlerStep
<1>2. OtherTypes'
  BY TypesUnchanged DEF BodyFails, Serve, HandlerStep, ServerInv
<1>3. QED
  BY <1>1, <1>2, BodyStep

LEMMA CopyWriteKeeps ==
  ASSUME ServerInv, NEW c \in Conns, NEW e \in Entries, CopyWrite(c, e) PROVE ServerInv'
<1>1. /\ Admin /\ conn[c] = "body" /\ Goto(c, "wrote")
      /\ UNCHANGED <<role, slots, requests, open, closing, reader>>
  BY DEF CopyWrite, server, HandlerStep
<1>2. OtherTypes'
  BY DEF CopyWrite, server, HandlerStep, lifecycle, ServerInv, ServerTypeOK, OtherTypes
<1>3. QED
  BY <1>1, <1>2, BodyStep

\* A copy that fails leaves its body like a request that was served.
LEMMA CopyFailsKeeps ==
  ASSUME ServerInv, NEW c \in Conns, NEW e \in Entries, CopyFails(c, e) PROVE ServerInv'
<1>1. /\ Admin /\ conn[c] = "body" /\ Goto(c, "leave")
      /\ UNCHANGED <<role, slots, requests, open, closing, reader>>
  BY DEF CopyFails, server, HandlerStep
<1>2. OtherTypes'
  <2>1. UNCHANGED <<role, entry, reader, closing, lifecycle, pending, cleaner, command>>
    BY DEF CopyFails, HandlerStep, server
  <2>2. /\ clipboard' \in Entries \union {Empty, Foreign}
        /\ excused' \in {"no", "asked", "failed", "exited", "overtaken"}
    BY DEF CopyFails, HelperFails, ServerInv, ServerTypeOK
  <2>3. QED
    BY <2>1, <2>2 DEF ServerInv, ServerTypeOK, OtherTypes, lifecycle
<1>3. QED
  BY <1>1, <1>2, BodyStep

LEMMA CopyScheduleKeeps ==
  ASSUME ServerInv, NEW c \in Conns, NEW after \in BOOLEAN, CopySchedule(c, after) PROVE ServerInv'
<1>1. /\ conn[c] = "wrote" /\ Goto(c, "leave")
      /\ UNCHANGED <<role, slots, requests, open, closing, reader>>
  BY DEF CopySchedule, server, HandlerStep
<1>2. OtherTypes'
  <2>1. /\ pending' \in Entries \union {NoEntry}
        /\ excused' \in {"no", "asked", "failed", "exited", "overtaken"}
    BY DEF CopySchedule, Scheduled, Unscheduled, ServerInv, ServerTypeOK
  <2>2. UNCHANGED <<role, entry, reader, closing, lifecycle, clipboard, cleaner, command>>
    BY DEF CopySchedule, HandlerStep, server
  <2>3. QED
    BY <2>1, <2>2 DEF ServerInv, ServerTypeOK, OtherTypes, lifecycle
<1>3. QED
  BY <1>1, <1>2, GoesOn DEF Listed

LEMMA ForgetKeeps == ASSUME ServerInv, NEW c \in Conns, Forget(c) PROVE ServerInv'
<1>1. /\ conn[c] = "leave" /\ Goto(c, "release") /\ open' = open \ {c}
      /\ reader' = ReaderAfter(closing, open \ {c})
      /\ UNCHANGED <<role, entry, slots, requests, closing, lifecycle, board>>
  BY DEF Forget, HandlerStep
<1>2. /\ reader' \in {"open", "closed"}
      /\ reader' = "closed" => closing /\ open' = {}
  BY <1>1, ReaderAfterLasts
<1>3. OtherTypes'
  BY <1>1, <1>2 DEF OtherTypes, ServerInv, ServerTypeOK, lifecycle, board
<1>4. slots' = slots - 0 + 0 /\ requests' = requests - 0 + 0
  BY <1>1 DEF ServerInv, ServerTypeOK
<1>5. QED
  BY <1>1, <1>2, <1>3, <1>4, MoveKeeps DEF Held, Listed

LEMMA ReleaseKeeps == ASSUME ServerInv, NEW c \in Conns, Release(c) PROVE ServerInv'
<1>1. /\ conn[c] = "release" /\ Goto(c, "closed") /\ slots' = slots + 1
      /\ UNCHANGED <<role, entry, requests, open, closing, reader, lifecycle, board>>
  BY DEF Release, HandlerStep
<1>2. OtherTypes'
  BY <1>1, TypesUnchanged DEF ServerInv
<1>3. slots' = slots - 0 + 1 /\ requests' = requests - 0 + 0
  BY <1>1 DEF ServerInv, ServerTypeOK
<1>4. open' = open \ {c} /\ (reader' = "closed" => closing /\ open' = {})
  BY <1>1 DEF ServerInv, ConnectionsListed, Listed, ReaderLasts
<1>5. QED
  BY <1>1, <1>2, <1>3, <1>4, MoveKeeps DEF Held, Listed

-----------------------------------------------------------------------------
(* The steps of the process and of the clipboard *)

LEMMA ClosedLasts ==
  ASSUME ServerInv, Closed
  PROVE  /\ closing' = TRUE /\ reader' \in {"open", "closed"}
         /\ reader' = "closed" => open = {}
BY DEF Closed, ServerInv, ServerTypeOK, ReaderLasts, ReaderAfter

LEMMA LifeKeeps ==
  ASSUME ServerInv,
         \/ StartServing \/ LeaveLoop \/ CloseAfterLoop \/ WatchdogEnds \/ Exit
         \/ \E s \in Stoppers : Stop(s) \/ StopperStep(s)
         \/ \E c \in Conns : Quit(c)
  PROVE  ServerInv'
<1>1. ServerTypeOK /\ OtherTypes /\ (reader = "closed" => closing /\ open = {})
  BY TypesOfOthers DEF ServerInv, ReaderLasts
<1>2. ASSUME UNCHANGED <<role, conn, entry, slots, requests, open, closing, reader, clipboard, pending,
                         cleaner, command>>,
             {stopping', shutdown', alive'} \subseteq BOOLEAN, excused' \in {excused, "exited"},
             thread' \in {"bound", "loop", "close", "returned"},
             stopper' \in [Stoppers -> {"idle", "shutdown", "wait", "close", "done"}]
      PROVE  ServerInv'
  <2>1. OtherTypes' /\ (reader' = "closed" => closing' /\ open = {})
    BY <1>1, <1>2 DEF OtherTypes
  <2>2. QED
    BY <1>2, <2>1, StillKeeps
<1>3. ASSUME UNCHANGED <<role, conn, entry, slots, requests, open, clipboard, pending,
                         cleaner, command, stopping, shutdown, alive, excused>>,
             Closed,
             thread' \in {"bound", "loop", "close", "returned"},
             stopper' \in [Stoppers -> {"idle", "shutdown", "wait", "close", "done"}]
      PROVE  ServerInv'
  <2>1. closing' = TRUE /\ reader' \in {"open", "closed"} /\ (reader' = "closed" => open = {})
    BY <1>3, ClosedLasts
  <2>2. OtherTypes'
    BY <1>1, <1>3, <2>1 DEF OtherTypes
  <2>3. QED
    BY <1>3, <2>1, <2>2, StillKeeps
<1>4. ASSUME StartServing \/ LeaveLoop PROVE ServerInv'
  BY <1>1, <1>2, <1>4 DEF StartServing, LeaveLoop, LifeStep, board, OtherTypes
<1>5. ASSUME CloseAfterLoop PROVE ServerInv'
  BY <1>1, <1>3, <1>5 DEF CloseAfterLoop, LifeStep, board, OtherTypes
<1>6. ASSUME WatchdogEnds PROVE ServerInv'
  BY <1>1, <1>2, <1>6 DEF WatchdogEnds, LifeStep, board, OtherTypes
<1>7. ASSUME Exit \/ \E c \in Conns : Quit(c) PROVE ServerInv'
  BY <1>1, <1>2, <1>7 DEF Exit, Quit, server, OtherTypes
<1>8. ASSUME NEW s \in Stoppers, Stop(s) \/ RequestShutdown(s) \/ AwaitShutdown(s) PROVE ServerInv'
  BY <1>1, <1>2, <1>8 DEF Stop, RequestShutdown, AwaitShutdown, LifeStep, board, OtherTypes
<1>9. ASSUME NEW s \in Stoppers, CloseAfterStop(s) PROVE ServerInv'
  BY <1>1, <1>3, <1>9 DEF CloseAfterStop, LifeStep, board, OtherTypes
<1>10. QED
  BY <1>4, <1>5, <1>6, <1>7, <1>8, <1>9 DEF StopperStep

LEMMA BoardKeeps ==
  ASSUME ServerInv,
         \/ UserCopies \/ TakeDue \/ Clear \/ ClearFails \/ SchedulerDies
         \/ \E k \in Commands : \/ CommandStep(k)
                               \/ \E e \in Entries : CommandWrites(k, e) \/ CommandFails(k, e)
  PROVE  ServerInv'
<1>1. ServerTypeOK /\ OtherTypes /\ (reader = "closed" => closing /\ open = {})
  BY TypesOfOthers DEF ServerInv, ReaderLasts
<1>2. ASSUME BoardStep, clipboard' \in Entries \union {Empty, Foreign},
             pending' \in Entries \union {NoEntry}, cleaner' \in Entries \union {NoEntry, Dead},
             excused' \in {excused, "no", "asked", "failed"},
             command' \in [Commands -> [pc : {"idle", "wrote", "sleep", "clear", "done"},
                                        entry : Entries \union {NoEntry}]]
      PROVE  ServerInv'
  <2>1. OtherTypes' /\ (reader' = "closed" => closing' /\ open = {})
    BY <1>1, <1>2 DEF OtherTypes, BoardStep, server, lifecycle
  <2>2. QED
    BY <1>2, <2>1, StillKeeps DEF BoardStep, server
<1>3. ASSUME UserCopies \/ TakeDue \/ Clear PROVE ServerInv'
  BY <1>1, <1>2, <1>3 DEF UserCopies, TakeDue, Clear, OtherTypes
<1>4. ASSUME ClearFails \/ SchedulerDies PROVE ServerInv'
  BY <1>1, <1>2, <1>4 DEF ClearFails, SchedulerDies, OtherTypes
<1>5. ASSUME NEW k \in Commands, NEW e \in Entries, CommandWrites(k, e) \/ CommandFails(k, e) PROVE ServerInv'
  <2>1. command' \in [Commands -> [pc : {"idle", "wrote", "sleep", "clear", "done"},
                                   entry : Entries \union {NoEntry}]]
    BY <1>1, <1>5 DEF CommandWrites, CommandFails, OtherTypes
  <2>2. BoardStep /\ UNCHANGED <<pending, cleaner>> /\ excused' \in {excused, "no", "failed"}
    BY <1>5 DEF CommandWrites, CommandFails, HelperFails
  <2>3. clipboard' \in Entries \union {Empty, Foreign}
    BY <1>5 DEF CommandWrites, CommandFails, HelperFails
  <2>4. QED
    BY <1>1, <1>2, <2>1, <2>2, <2>3 DEF OtherTypes
<1>6. ASSUME NEW k \in Commands, CommandStep(k) PROVE ServerInv'
  <2>1. command' \in [Commands -> [pc : {"idle", "wrote", "sleep", "clear", "done"},
                                   entry : Entries \union {NoEntry}]]
    BY <1>1, <1>6 DEF CommandStep, SpawnClearAfter, DaemonReads, DaemonClears, NotCleared, OtherTypes
  <2>2. /\ clipboard' \in Entries \union {Empty, Foreign} /\ BoardStep /\ UNCHANGED <<pending, cleaner>>
        /\ excused' \in {excused, "asked", "failed"}
    BY <1>1, <1>6 DEF CommandStep, SpawnClearAfter, DaemonReads, DaemonClears, NotCleared, OtherTypes
  <2>3. QED
    BY <1>1, <1>2, <2>1, <2>2 DEF OtherTypes
<1>7. QED
  BY <1>3, <1>4, <1>5, <1>6

-----------------------------------------------------------------------------
(* The account of the server *)

\* The inductive invariant: no interleaving of admission, handlers, closing and
\* copies loses a slot or closes the cancel reader under a handler.
THEOREM ServerInductive == ServerSpec => []ServerInv
<1>1. ServerInv /\ [NextServer]_serverVars => ServerInv'
  <2>1. SUFFICES ASSUME ServerInv, [NextServer]_serverVars PROVE ServerInv'
    OBVIOUS
  <2>2. ASSUME NEW c \in Conns, Accept(c) \/ AdmissionStep(c) \/ ThreadFails(c) PROVE ServerInv'
    BY <2>1, <2>2, AcceptKeeps, RegisterKeeps, StartThreadKeeps, ThreadFailsKeeps DEF AdmissionStep
  <2>3. ASSUME NEW c \in Conns, HandlerGoesOn(c) PROVE ServerInv'
    BY <2>1, <2>3, BeginKeeps, ReadFailsKeeps, ServeKeeps, CopyScheduleKeeps, ForgetKeeps, ReleaseKeeps
       DEF HandlerGoesOn
  <2>4. ASSUME NEW c \in Conns, Dispatch(c) \/ TakeRequestSlot(c) \/ Serve(c) PROVE ServerInv'
    BY <2>1, <2>4, DispatchKeeps, TakeRequestSlotKeeps, ServeKeeps
  <2>5. ASSUME NEW c \in Conns, CopySchedule(c, FALSE) \/ \E e \in Entries : CopyWrite(c, e) \/ CopyFails(c, e)
        PROVE  ServerInv'
    BY <2>1, <2>5, CopyScheduleKeeps, CopyWriteKeeps, CopyFailsKeeps
  <2>6. ASSUME \/ StartServing \/ LeaveLoop \/ CloseAfterLoop \/ WatchdogEnds \/ Exit
               \/ \E s \in Stoppers : Stop(s) \/ StopperStep(s)
               \/ \E c \in Conns : Quit(c)
        PROVE  ServerInv'
    BY <2>1, <2>6, LifeKeeps
  <2>7. ASSUME \/ UserCopies \/ TakeDue \/ Clear \/ ClearFails \/ SchedulerDies
               \/ \E k \in Commands : \/ CommandStep(k)
                                     \/ \E e \in Entries : CommandWrites(k, e) \/ CommandFails(k, e)
        PROVE  ServerInv'
    BY <2>1, <2>7, BoardKeeps
  <2>8. CASE UNCHANGED serverVars
    <3>1. OtherTypes' /\ (reader' = "closed" => closing' /\ open = {})
      BY <2>1, <2>8, TypesOfOthers DEF serverVars, server, lifecycle, board, ServerInv, ReaderLasts, OtherTypes
    <3>2. QED
      BY <2>1, <2>8, <3>1, StillKeeps DEF serverVars, server
  <2>9. QED
    BY <2>1, <2>2, <2>3, <2>4, <2>5, <2>6, <2>7, <2>8 DEF NextServer
<1>2. QED
  BY <1>1, ServerInit, PTL DEF ServerSpec

\* Every slot and every request slot is free or held by a connection that gives
\* it back, and the cancel reader is open for whoever may wait on it
\* (BoundedThreadingHTTPServer, and request_slot of the relay).
THEOREM ResourcesAccountedHolds == ServerSpec => []ResourcesAccounted
<1>1. ServerInv => ResourcesAccounted
  BY DEF ServerInv, ResourcesAccounted, SlotsAccounted, RequestsAccounted, Bodies, ConnectionsListed,
         Listed, ReaderLasts, ServerTypeOK
<1>2. QED
  BY <1>1, ServerInductive, PTL

-----------------------------------------------------------------------------
(* Copies leave the clipboard *)

ByServer == (cleaner # Dead /\ clipboard = pending) \/ clipboard = cleaner
ByHandler == \E c \in Conns : conn[c] = "wrote" /\ entry[c] = clipboard
ByDaemon == \E k \in Commands : command[k].pc \in {"wrote", "sleep", "clear"} /\ command[k].entry = clipboard

\* Whatever is not about the clipboard leaves alone who is to clear it; in
\* particular no handler between its copy and its schedule is cut off.
LEMMA OtherStepKeepsClearing ==
  ASSUME ServerTypeOK, CopiesCleared, UNCHANGED <<entry, clipboard, pending, cleaner, command, excused>>,
         \A c \in Conns : conn[c] = "wrote" => conn'[c] = "wrote"
  PROVE  CopiesCleared'
BY DEF CopiesCleared, AboutToClear

LEMMA Clearing == AboutToClear <=> ByServer \/ ByHandler \/ ByDaemon
BY DEF AboutToClear, ByServer, ByHandler, ByDaemon

LEMMA ClearingKept == ServerTypeOK /\ CopiesCleared /\ [NextServer]_serverVars => CopiesCleared'
<1>1. SUFFICES ASSUME ServerTypeOK, CopiesCleared, [NextServer]_serverVars PROVE CopiesCleared'
  OBVIOUS
<1>2. Empty \notin Entries /\ Foreign \notin Entries /\ NoEntry \notin Entries /\ Dead \notin Entries
  BY EntriesAssumption
<1>3. ASSUME NEW c \in Conns,
             \/ Accept(c) \/ AdmissionStep(c) \/ ThreadFails(c) \/ Begin(c) \/ ReadFails(c) \/ BodyFails(c)
             \/ Forget(c) \/ Release(c) \/ Dispatch(c) \/ TakeRequestSlot(c) \/ Serve(c)
      PROVE  CopiesCleared'
  <2>1. UNCHANGED <<entry, clipboard, pending, cleaner, command, excused>>
    BY <1>3 DEF Accept, AdmissionStep, Register, StartThread, ThreadFails, Begin, ReadFails, BodyFails,
                Forget, Release, Dispatch, TakeRequestSlot, Serve, board
  <2>2. conn[c] # "wrote" /\ \E pc : conn' = [conn EXCEPT ![c] = pc]
    BY <1>3 DEF Accept, AdmissionStep, Register, StartThread, ThreadFails, Begin, ReadFails, BodyFails,
                Forget, Release, Dispatch, TakeRequestSlot, Serve, Goto
  <2>3. \A d \in Conns : conn[d] = "wrote" => conn'[d] = "wrote"
    BY <1>1, <2>2 DEF ServerTypeOK
  <2>4. QED
    BY <1>1, <2>1, <2>3, OtherStepKeepsClearing
<1>4. ASSUME NEW c \in Conns, NEW e \in Entries, CopyWrite(c, e) PROVE CopiesCleared'
  <2>1. conn'[c] = "wrote" /\ entry'[c] = clipboard'
    BY <1>1, <1>4 DEF CopyWrite, Goto, ServerTypeOK
  <2>2. QED
    BY <2>1 DEF CopiesCleared, AboutToClear
<1>5. ASSUME NEW c \in Conns, NEW after \in BOOLEAN, CopySchedule(c, after) PROVE CopiesCleared'
  <2>1. SUFFICES ASSUME clipboard' \in Entries, excused' = "no", cleaner' # Dead
                 PROVE  ByServer' \/ ByHandler' \/ ByDaemon'
    BY Clearing DEF CopiesCleared, ByServer, ByHandler, ByDaemon, AboutToClear
  <2>2. /\ UNCHANGED <<entry, clipboard, cleaner, command>>
        /\ pending' = (IF after THEN entry[c] ELSE NoEntry)
        /\ conn' = [conn EXCEPT ![c] = "leave"] /\ excused' = Unscheduled(c, after)
    BY <1>5 DEF CopySchedule, Scheduled, Goto
  <2>3. CASE entry[c] = clipboard
    BY <2>1, <2>2, <2>3 DEF Unscheduled, ByServer
  <2>4. CASE entry[c] # clipboard
    <3>1. excused = "no" /\ pending # clipboard
      BY <2>1, <2>2, <2>4 DEF Unscheduled
    <3>2. clipboard = cleaner \/ ByHandler \/ ByDaemon
      BY <1>1, <2>1, <2>2, <3>1, Clearing DEF CopiesCleared, ByServer
    <3>3. ASSUME ByHandler PROVE ByHandler'
      <4>1. PICK d \in Conns : conn[d] = "wrote" /\ entry[d] = clipboard
        BY <3>3 DEF ByHandler
      <4>2. d # c /\ conn'[d] = "wrote" /\ entry'[d] = clipboard'
        BY <1>1, <2>2, <2>4, <4>1 DEF ServerTypeOK
      <4>3. QED
        BY <4>2 DEF ByHandler
    <3>4. QED
      BY <2>2, <3>2, <3>3 DEF ByServer, ByDaemon
  <2>5. QED
    BY <2>3, <2>4
<1>6. ASSUME Exit \/ \E c \in Conns : Quit(c) PROVE CopiesCleared'
  BY <1>6 DEF Exit, Quit, CopiesCleared
<1>7. ASSUME \/ StartServing \/ LeaveLoop \/ CloseAfterLoop \/ WatchdogEnds
             \/ \E s \in Stoppers : Stop(s) \/ StopperStep(s)
      PROVE  CopiesCleared'
  <2>1. UNCHANGED <<conn, entry, clipboard, pending, cleaner, command, excused>>
    BY <1>7 DEF StartServing, LeaveLoop, CloseAfterLoop, WatchdogEnds, Stop, StopperStep, RequestShutdown,
                AwaitShutdown, CloseAfterStop, LifeStep, board
  <2>2. QED
    BY <1>1, <2>1, OtherStepKeepsClearing
<1>8. ASSUME UserCopies \/ Clear \/ SchedulerDies PROVE CopiesCleared'
  BY <1>2, <1>8 DEF UserCopies, Clear, SchedulerDies, CopiesCleared
<1>9. ASSUME TakeDue \/ ClearFails PROVE CopiesCleared'
  <2>1. SUFFICES ASSUME clipboard' \in Entries, excused' = "no", cleaner' # Dead
                 PROVE  ByServer' \/ ByHandler' \/ ByDaemon'
    BY Clearing DEF CopiesCleared, ByServer, ByHandler, ByDaemon, AboutToClear
  <2>2. UNCHANGED <<conn, entry, clipboard, command>>
    BY <1>9 DEF TakeDue, ClearFails, BoardStep
  <2>3. excused = "no" /\ cleaner # Dead
    BY <1>2, <1>9, <2>1 DEF TakeDue, ClearFails, NoEntry, Dead
  <2>4. ByServer \/ ByHandler \/ ByDaemon
    BY <1>1, <2>1, <2>2, <2>3, Clearing DEF CopiesCleared
  <2>5. ASSUME ByServer PROVE ByServer'
    <3>1. CASE TakeDue
      BY <1>2, <2>1, <2>2, <2>5, <3>1 DEF TakeDue, Matches, ByServer
    <3>2. CASE ClearFails
      BY <1>2, <2>1, <2>2, <2>5, <3>2 DEF ClearFails, Matches, ByServer
    <3>3. QED
      BY <1>9, <3>1, <3>2
  <2>6. QED
    BY <2>2, <2>4, <2>5 DEF ByHandler, ByDaemon
<1>10. ASSUME NEW k \in Commands, NEW e \in Entries, CommandWrites(k, e) PROVE CopiesCleared'
  <2>1. command'[k].pc = "wrote" /\ command'[k].entry = clipboard'
    BY <1>1, <1>10 DEF CommandWrites, ServerTypeOK
  <2>2. QED
    BY <2>1 DEF CopiesCleared, AboutToClear
<1>11. ASSUME NEW k \in Commands, CommandStep(k) PROVE CopiesCleared'
  <2>1. SUFFICES ASSUME clipboard' \in Entries, excused' = "no", cleaner' # Dead
                 PROVE  ByServer' \/ ByHandler' \/ ByDaemon'
    BY Clearing DEF CopiesCleared, ByServer, ByHandler, ByDaemon, AboutToClear
  <2>2. UNCHANGED <<conn, entry, pending, cleaner>>
    BY <1>11 DEF CommandStep, SpawnClearAfter, DaemonReads, DaemonClears, NotCleared, BoardStep
  <2>3. ~DaemonClears(k)
    BY <1>2, <2>1 DEF DaemonClears
  <2>4. clipboard' = clipboard /\ excused = "no"
    BY <1>11, <2>1, <2>3 DEF CommandStep, SpawnClearAfter, DaemonReads, NotCleared
  <2>5. ASSUME ByDaemon PROVE ByDaemon'
    <3>1. PICK j \in Commands : command[j].pc \in {"wrote", "sleep", "clear"} /\ command[j].entry = clipboard
      BY <2>5 DEF ByDaemon
    <3>2. command \in [Commands -> [pc : {"idle", "wrote", "sleep", "clear", "done"},
                                    entry : Entries \union {NoEntry}]]
      BY <1>1 DEF ServerTypeOK
    <3>3. command'[j].pc \in {"wrote", "sleep", "clear"} /\ command'[j].entry = command[j].entry
      <4>1. CASE NotCleared(k)
        <5>1. command[k].entry # clipboard
          BY <2>1, <4>1 DEF NotCleared, Matches
        <5>2. QED
          BY <3>1, <3>2, <4>1, <5>1 DEF NotCleared
      <4>2. CASE ~NotCleared(k)
        BY <1>11, <2>3, <3>1, <3>2, <4>2 DEF CommandStep, SpawnClearAfter, DaemonReads, Matches
      <4>3. QED
        BY <4>1, <4>2
    <3>4. QED
      BY <2>4, <3>1, <3>3 DEF ByDaemon
  <2>6. ByServer \/ ByHandler \/ ByDaemon
    BY <1>1, <2>1, <2>2, <2>4, Clearing DEF CopiesCleared
  <2>7. QED
    BY <2>2, <2>4, <2>5, <2>6 DEF ByServer, ByHandler
<1>12. ASSUME UNCHANGED serverVars PROVE CopiesCleared'
  BY <1>1, <1>12, OtherStepKeepsClearing DEF serverVars, board
<1>13. ASSUME NEW c \in Conns, NEW e \in Entries, CopyFails(c, e) PROVE CopiesCleared'
  <2>1. SUFFICES ASSUME clipboard' \in Entries, excused' = "no" PROVE FALSE
    BY DEF CopiesCleared
  <2>2. QED
    BY <1>2, <1>13, <2>1 DEF CopyFails, HelperFails
<1>14. ASSUME NEW k \in Commands, NEW e \in Entries, CommandFails(k, e) PROVE CopiesCleared'
  <2>1. SUFFICES ASSUME clipboard' \in Entries, excused' = "no" PROVE FALSE
    BY DEF CopiesCleared
  <2>2. QED
    BY <1>2, <1>14, <2>1 DEF CommandFails, HelperFails
<1>15. QED
  BY <1>1, <1>3, <1>4, <1>5, <1>6, <1>7, <1>8, <1>9, <1>10, <1>11, <1>12, <1>13, <1>14
     DEF NextServer, HandlerGoesOn

\* A secret that was copied leaves the clipboard: whoever may clear it is still
\* about to (_ClearScheduler, schedule_clear_after and spawn_clear_after), unless
\* its user asked for no clearing, the clipboard's helper failed, the process
\* exited, an older copy was scheduled after it, or the scheduler's thread died.
THEOREM CopiesClearedHolds == ServerSpec => []CopiesCleared
<1>1. InitServer => CopiesCleared
  BY EntriesAssumption DEF InitServer, CopiesCleared
<1>2. ServerInv => ServerTypeOK
  BY DEF ServerInv
<1>3. QED
  BY <1>1, <1>2, ClearingKept, ServerInductive, PTL DEF ServerSpec

-----------------------------------------------------------------------------
(* Stopping *)

Asking == {"shutdown", "wait", "close"}

\* Only an admin server is asked to stop.  Until the server is closed someone is
\* on the way to close it, and the loop ends because shutdown was requested, or
\* will be by who saw the loop.
Asked ==
  /\ stopping => Admin
  /\ \A s \in Stoppers : stopper[s] # "idle" => stopping
  /\ \A s \in Stoppers : stopper[s] = "wait" => shutdown
  /\ Admin /\ thread = "loop" /\ stopping => shutdown \/ \E s \in Stoppers : stopper[s] = "shutdown"
  /\ closing => stopping \/ thread = "returned"
  /\ stopping => closing \/ \E s \in Stoppers : stopper[s] \in Asking
  /\ thread = "returned" => closing \/ stopping

\* The admin has no request slots, and the last to leave closes the cancel reader.
AdminTakesNone == Admin => requests = RequestSlots
ReaderCloses == closing /\ open = {} => reader = "closed"

StopInv == Asked /\ AdminTakesNone /\ ReaderCloses

LEMMA ConnectionsStop ==
  ASSUME ServerInv, StopInv, NEW c \in Conns,
         \/ Accept(c) \/ AdmissionStep(c) \/ ThreadFails(c) \/ HandlerGoesOn(c)
         \/ Dispatch(c) \/ TakeRequestSlot(c) \/ Serve(c) \/ CopySchedule(c, FALSE)
         \/ \E e \in Entries : CopyWrite(c, e) \/ CopyFails(c, e)
  PROVE  StopInv'
<1>1. UNCHANGED <<role, lifecycle, closing>>
  BY DEF Accept, AdmissionStep, Register, StartThread, ThreadFails, HandlerGoesOn, Begin, ReadFails, BodyFails,
         CopySchedule, Forget, Release, Dispatch, TakeRequestSlot, Serve, CopyWrite, CopyFails, HandlerStep, server
<1>2. Asked'
  BY <1>1 DEF StopInv, Asked, lifecycle, Admin
<1>3. AdminTakesNone'
  BY <1>1 DEF StopInv, AdminTakesNone, Admin, Accept, AdmissionStep, Register, StartThread, ThreadFails,
              HandlerGoesOn, Begin, ReadFails, BodyFails, CopySchedule, Forget, Release, Dispatch, TakeRequestSlot,
              Serve, CopyWrite, CopyFails, server
<1>4. ReaderCloses'
  <2>1. CASE ThreadFails(c) \/ Forget(c)
    BY <2>1, <1>1 DEF ThreadFails, Forget, ReaderAfter, ReaderCloses
  <2>2. CASE Register(c)
    BY <2>2, <1>1 DEF Register, StopInv, ReaderCloses
  <2>3. CASE ~(ThreadFails(c) \/ Forget(c) \/ Register(c))
    <3>1. UNCHANGED <<open, reader>>
      BY <2>3 DEF Accept, AdmissionStep, StartThread, HandlerGoesOn, Begin, ReadFails, BodyFails, CopySchedule,
                  Release, Dispatch, TakeRequestSlot, Serve, CopyWrite, CopyFails, server
    <3>2. QED
      BY <3>1, <1>1 DEF StopInv, ReaderCloses
  <2>4. QED
    BY <2>1, <2>2, <2>3
<1>5. QED
  BY <1>2, <1>3, <1>4 DEF StopInv

\* Who closes sees to the cancel reader, if there is no connection left.
LEMMA ClosedCloses == ASSUME Closed, UNCHANGED open PROVE ReaderCloses'
BY DEF Closed, ReaderAfter, ReaderCloses

LEMMA LoopStops ==
  ASSUME ServerTypeOK, StopInv, StartServing \/ LeaveLoop \/ CloseAfterLoop PROVE StopInv'
<1>1. AdminTakesNone'
  BY DEF StopInv, AdminTakesNone, Admin, StartServing, LeaveLoop, CloseAfterLoop, LifeStep
<1>2. UNCHANGED <<role, open, stopping, shutdown, stopper>> /\ (closing' # closing => CloseAfterLoop)
  BY DEF StartServing, LeaveLoop, CloseAfterLoop, LifeStep
<1>3. ReaderCloses'
  BY <1>2, ClosedCloses DEF StopInv, ReaderCloses, StartServing, LeaveLoop, CloseAfterLoop
<1>4. Asked'
  <2>1. CASE StartServing
    BY <1>2, <2>1 DEF StartServing, StopInv, Asked, Admin
  <2>2. CASE LeaveLoop
    BY <1>2, <2>2 DEF LeaveLoop, LoopMayEnd, StopInv, Asked, Admin
  <2>3. CASE CloseAfterLoop
    BY <1>2, <2>3 DEF CloseAfterLoop, Closed, StopInv, Asked, Admin
  <2>4. QED
    BY <2>1, <2>2, <2>3
<1>5. QED
  BY <1>1, <1>3, <1>4 DEF StopInv

LEMMA StoppersStop ==
  ASSUME ServerTypeOK, StopInv, NEW s \in Stoppers, Stop(s) \/ StopperStep(s) PROVE StopInv'
<1>1. UNCHANGED <<role, requests, open, thread>>
  BY DEF Stop, StopperStep, RequestShutdown, AwaitShutdown, CloseAfterStop, LifeStep
<1>2. AdminTakesNone'
  BY <1>1 DEF StopInv, AdminTakesNone, Admin
<1>3. ReaderCloses'
  BY <1>1, ClosedCloses DEF StopInv, ReaderCloses, Stop, StopperStep, RequestShutdown, AwaitShutdown, CloseAfterStop
<1>4. stopper \in [Stoppers -> {"idle", "shutdown", "wait", "close", "done"}]
  BY DEF ServerTypeOK
<1>5. Asked'
  <2>1. CASE Stop(s)
    <3>1. stopping' = TRUE /\ Admin' /\ UNCHANGED <<closing, shutdown>>
      BY <1>1, <2>1 DEF Stop, Admin
    <3>2. /\ stopper'[s] = IF thread = "loop" THEN "shutdown" ELSE "close"
          /\ \A r \in Stoppers : r # s => stopper'[r] = stopper[r]
      BY <1>4, <2>1 DEF Stop
    <3>3. QED
      BY <1>1, <3>1, <3>2 DEF StopInv, Asked, Asking, Admin
  <2>2. CASE RequestShutdown(s)
    <3>1. shutdown' = TRUE /\ UNCHANGED <<closing, stopping>> /\ stopper[s] = "shutdown"
      BY <2>2 DEF RequestShutdown
    <3>2. stopper'[s] = "wait" /\ \A r \in Stoppers : r # s => stopper'[r] = stopper[r]
      BY <1>4, <2>2 DEF RequestShutdown
    <3>3. QED
      BY <1>1, <3>1, <3>2 DEF StopInv, Asked, Asking, Admin
  <2>3. CASE AwaitShutdown(s)
    <3>1. UNCHANGED <<closing, stopping, shutdown>> /\ stopper[s] = "wait"
      BY <2>3 DEF AwaitShutdown
    <3>2. stopper'[s] = "close" /\ \A r \in Stoppers : r # s => stopper'[r] = stopper[r]
      BY <1>4, <2>3 DEF AwaitShutdown
    <3>3. QED
      BY <1>1, <3>1, <3>2 DEF StopInv, Asked, Asking, Admin
  <2>4. CASE CloseAfterStop(s)
    <3>1. closing' = TRUE /\ UNCHANGED <<stopping, shutdown>> /\ stopper[s] = "close"
      BY <2>4 DEF CloseAfterStop, Closed
    <3>2. stopper'[s] = "done" /\ \A r \in Stoppers : r # s => stopper'[r] = stopper[r]
      BY <1>4, <2>4 DEF CloseAfterStop
    <3>3. QED
      BY <1>1, <3>1, <3>2 DEF StopInv, Asked, Asking, Admin
  <2>5. QED
    BY <2>1, <2>2, <2>3, <2>4 DEF StopperStep
<1>6. QED
  BY <1>2, <1>3, <1>5 DEF StopInv

\* The watchdog that ends was not the one who asked.
LEMMA WatchdogStops == ASSUME ServerTypeOK, StopInv, WatchdogEnds PROVE StopInv'
<1>1. UNCHANGED <<role, requests, open, closing, reader, thread, stopping, shutdown>>
  BY DEF WatchdogEnds, LifeStep
<1>2. /\ stopping /\ stopper["watchdog"] = "idle" /\ stopper'["watchdog"] = "done"
      /\ \A r \in Stoppers : r # "watchdog" => stopper'[r] = stopper[r]
  BY DEF WatchdogEnds, WatchdogMayEnd, ServerTypeOK, Stoppers
<1>3. QED
  BY <1>1, <1>2 DEF StopInv, Asked, Asking, AdminTakesNone, ReaderCloses, Admin

\* The server stands still.
LEMMA OthersStop ==
  ASSUME StopInv, UNCHANGED <<role, server, thread, stopping, shutdown, stopper>> PROVE StopInv'
BY DEF StopInv, Asked, AdminTakesNone, ReaderCloses, Admin, server

\* A server that was asked to stop, or was closed, stops completely, whichever of
\* its threads was where (AdminServer.stop, serve_forever and server_close).
THEOREM StopsCompletelyHolds == ServerSpec => []StopsCompletely
<1>1. InitServer => StopInv
  BY DEF InitServer, StopInv, Asked, AdminTakesNone, ReaderCloses
<1>2. ServerInv /\ StopInv /\ [NextServer]_serverVars => StopInv'
  <2>1. SUFFICES ASSUME ServerInv, StopInv, [NextServer]_serverVars PROVE StopInv'
    OBVIOUS
  <2>2. ServerTypeOK
    BY <2>1 DEF ServerInv
  <2>3. ASSUME NEW c \in Conns,
               \/ Accept(c) \/ AdmissionStep(c) \/ ThreadFails(c) \/ HandlerGoesOn(c)
               \/ Dispatch(c) \/ TakeRequestSlot(c) \/ Serve(c) \/ CopySchedule(c, FALSE)
               \/ \E e \in Entries : CopyWrite(c, e) \/ CopyFails(c, e)
        PROVE  StopInv'
    BY <2>1, <2>3, ConnectionsStop
  <2>4. ASSUME NEW c \in Conns, Quit(c) PROVE StopInv'
    BY <2>1, <2>4, OthersStop DEF Quit
  <2>5. ASSUME StartServing \/ LeaveLoop \/ CloseAfterLoop PROVE StopInv'
    BY <2>1, <2>2, <2>5, LoopStops
  <2>6. CASE WatchdogEnds
    BY <2>1, <2>2, <2>6, WatchdogStops
  <2>7. CASE Exit
    BY <2>1, <2>7, OthersStop DEF Exit
  <2>8. ASSUME NEW s \in Stoppers, Stop(s) \/ StopperStep(s) PROVE StopInv'
    BY <2>1, <2>2, <2>8, StoppersStop
  <2>9. CASE UserCopies \/ TakeDue \/ Clear \/ ClearFails \/ SchedulerDies
    BY <2>1, <2>9, OthersStop DEF UserCopies, TakeDue, Clear, ClearFails, SchedulerDies, BoardStep, lifecycle
  <2>10. ASSUME NEW k \in Commands,
                CommandStep(k) \/ \E e \in Entries : CommandWrites(k, e) \/ CommandFails(k, e)
         PROVE  StopInv'
    BY <2>1, <2>10, OthersStop
       DEF CommandStep, SpawnClearAfter, DaemonReads, DaemonClears, NotCleared, CommandWrites, CommandFails,
           BoardStep, lifecycle
  <2>11. CASE UNCHANGED serverVars
    BY <2>1, <2>11, OthersStop DEF serverVars, lifecycle
  <2>12. QED
    BY <2>1, <2>3, <2>4, <2>5, <2>6, <2>7, <2>8, <2>9, <2>10, <2>11 DEF NextServer
<1>3. ServerInv /\ StopInv => StopsCompletely
  <2>1. SUFFICES ASSUME ServerInv, StopInv, alive, stopping \/ closing, ~AtWork
                 PROVE  /\ thread = "returned" /\ closing /\ reader = "closed"
                        /\ slots = MaxWorkers /\ requests = RequestSlots
                        /\ \A s \in Stoppers : stopper[s] \in {"idle", "done"}
    BY DEF StopsCompletely
  <2>2. ServerTypeOK /\ Holding = {} /\ thread \in {"loop", "returned"} /\ ~LoopMayEnd
    BY <2>1 DEF ServerInv, AtWork, ServerTypeOK
  <2>3. \A c \in Conns : ~Admitting(c) /\ conn[c] \notin Listed
    BY <2>2 DEF Holding, Admitting, Listed
  <2>4. open = {} /\ Bodies = {}
    BY <2>1, <2>2, <2>3 DEF ServerInv, ConnectionsListed, ServerTypeOK, Bodies, Holding
  <2>5. \A s \in Stoppers : stopper[s] \in {"idle", "wait", "done"} /\ (stopper[s] = "wait" => thread = "loop")
    BY <2>1, <2>2 DEF AtWork, ServerTypeOK, LoopEnded
  <2>6. thread = "returned"
    <3>1. SUFFICES ASSUME thread = "loop" PROVE FALSE
      BY <2>2
    <3>2. Admin /\ ~shutdown
      BY <2>2, <2>3, <3>1 DEF LoopMayEnd
    <3>3. QED
      BY <2>1, <2>5, <3>1, <3>2 DEF StopInv, Asked
  <2>7. closing /\ \A s \in Stoppers : stopper[s] \in {"idle", "done"}
    BY <2>1, <2>5, <2>6 DEF StopInv, Asked, Asking
  <2>8. slots = MaxWorkers /\ requests = RequestSlots
    <3>1. Cardinality(Holding) = 0 /\ Cardinality(Bodies) = 0
      BY <2>2, <2>4, FS_EmptySet
    <3>2. QED
      BY <2>1, <2>2, <3>1, ServerAssumption
         DEF ServerInv, SlotsAccounted, RequestsAccounted, StopInv, AdminTakesNone, ServerTypeOK
  <2>9. QED
    BY <2>1, <2>4, <2>6, <2>7, <2>8 DEF StopInv, ReaderCloses
<1>4. QED
  BY <1>1, <1>2, <1>3, ServerInductive, PTL DEF ServerSpec
=============================================================================
