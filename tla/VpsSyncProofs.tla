--------------------------- MODULE VpsSyncProofs ---------------------------
(***************************************************************************)
(* Proofs about VpsSync, for any number of devices, commits, failures and  *)
(* restores of the relay.                                                  *)
(*                                                                         *)
(* The second part shows that the engines raise no false alarm: as long as *)
(* the relay is not restored from a backup, a trust error is raised only   *)
(* where the log was empty or a revocation is being resumed.  While there  *)
(* is no restore the relay only moves forward, so what an engine read of   *)
(* it, in whatever order, is part of what the relay is now.                *)
(***************************************************************************)
EXTENDS VpsSync, TLAPS

-----------------------------------------------------------------------------
(* The inductive invariant: logs *)

\* Every log there is: at the relay, in its backup, in the memory and in the
\* trust state of a device.
Logs == {<<>>, chain, backup.chain} \cup {run[c].seen : c \in Devices}
          \cup {trust[c] : c \in Devices}

\* A commit id names one commit with all its ancestors.
Agree(s, t) ==
  \A i \in DOMAIN s, j \in DOMAIN t :
    s[i].id = t[j].id => i = j /\ \A m \in 1..i : s[m] = t[m]

\* A commit is linked to its parent and holds all that the parent holds.
Linked(s) ==
  \A k \in 2..Len(s) : s[k].parent = s[k - 1].id /\ s[k - 1].data \subseteq s[k].data

SoundLog(s) ==
  /\ s \in Seq(Commit) /\ Len(s) <= MaxCommits
  /\ \A k \in DOMAIN s : s[k].id <= ids
  /\ Linked(s)

LogsSound ==
  /\ \A s \in Logs : SoundLog(s)
  /\ \A s, t \in Logs : Agree(s, t)

\* Log s starts log t.
Starts(s, t) ==
  s \in Seq(Commit) /\ Len(s) <= Len(t) /\ \A k \in 1..Len(s) : s[k] = t[k]

-----------------------------------------------------------------------------
(* The inductive invariant: the relay and the engines *)

\* No commit of a revoked device follows the cut of its revocation.
CutOff(s, t) ==
  \A e \in Shown(t) : /\ Contains(s, e.cut)
                      /\ \A k \in DOMAIN s : s[k].author = e.dev => k <= e.cut.seq

RelaySound ==
  /\ CutOff(chain, table) /\ CutOff(backup.chain, backup.table)
  /\ table[Root].st = "active" /\ backup.table[Root].st = "active"

RootSound ==
  /\ \A e, f \in intent : e = f
  /\ \A d \in approving : bundle[d] # NoCheckpoint

Shape(c) ==
  LET r == run[c]
  IN  /\ r.pc = "idle" => r = Idle
      /\ r # Idle => joined[c] # NoCheckpoint
      /\ r.op \in {"revoke", "approve", "invite"} => c = Root
      /\ r.op = "revoke" => r.target # Root /\ \A e \in intent : e.dev = r.target
      /\ r.op = "approve" => bundle[r.target] # NoCheckpoint
      /\ r.pc = "save" => r.op \in {"push", "pull"}
      /\ r.pc \in {"append", "own"} => r.op = "push"
      /\ r.pc = "post" => r.op = "revoke" /\ intent # {}
      /\ r.pc \in {"head", "devices", "commit"} => r.seen = <<>>

\* Where an engine has verified the whole chain, and where only the table.
Settled == {"done", "save", "append", "own", "post"}

Listed == {"commit", "history"} \cup Settled

\* The table shows every revocation the device knows, and they bind the
\* commits read so far.
Bound(c) ==
  LET r == run[c]
  IN  r.pc \in Listed =>
        /\ TableTrusted(c, r.table)
        /\ \A k \in DOMAIN r.seen, e \in Binding(c, r.table) :
             r.seen[k].author = e.dev => k <= e.cut.seq

\* The chain runs through the anchor and every cut.
Settles(c) ==
  LET r == run[c]
  IN  r.pc \in Settled =>
        /\ Contains(r.seen, Anchor(c))
        /\ \A e \in Binding(c, r.table) : Contains(r.seen, e.cut)
        /\ r.pc # "own" => r.head = At(r.seen)

\* A push publishes what it merged, by a device that is not revoked.
Publishes(c) ==
  LET r == run[c]
  IN  /\ r.op = "push" /\ r.pc \in {"save", "append"} =>
           Len(r.seen) < MaxCommits /\ \A e \in Shown(r.table) : e.dev # c
      /\ r.pc = "save" => /\ Contents(r.seen) \subseteq vault[c]
                          /\ ~r.changed => Contents(r.seen) \subseteq r.draft
      /\ r.pc = "append" => Contents(r.seen) \subseteq r.draft

EngineSound(c) == Shape(c) /\ Bound(c) /\ Settles(c) /\ Publishes(c)

SyncInv ==
  /\ TypeOK /\ LogsSound /\ RelaySound /\ RootSound
  /\ \A c \in Devices : EngineSound(c)

-----------------------------------------------------------------------------
(* Logs *)

LEMMA Entries ==
  ASSUME NEW s \in Seq(Commit)
  PROVE  \A k \in DOMAIN s : /\ s[k] \in Commit /\ s[k].id \in Nat \ {0}
                             /\ s[k].author \in Devices
<1>1. \A k \in DOMAIN s : s[k] \in Commit
  OBVIOUS
<1> QED
  BY <1>1 DEF Commit

LEMMA EndOfLog ==
  ASSUME NEW s \in Seq(Commit)
  PROVE  /\ At(s).seq = Len(s)
         /\ s # <<>> => At(s).id = s[Len(s)].id /\ Len(s) > 0
         /\ s = <<>> => At(s) = Genesis /\ Len(s) = 0
         /\ Len(s) <= MaxCommits => At(s) \in Checkpoint
<1>1. s # <<>> => Len(s) > 0 /\ Len(s) \in DOMAIN s /\ s[Len(s)] \in Commit
  OBVIOUS
<1>2. s # <<>> => s[Len(s)].id \in 0..MaxIds
  BY <1>1, SyncAssumption DEF Commit
<1> QED
  BY <1>1, <1>2, SyncAssumption DEF At, Genesis, Checkpoint

LEMMA StartsItself == ASSUME NEW s \in Seq(Commit) PROVE Starts(s, s) /\ Starts(<<>>, s)
  BY DEF Starts

\* A log that runs through the end of another one starts with it.
LEMMA RunsThrough ==
  ASSUME NEW s \in Seq(Commit), NEW t \in Seq(Commit), Agree(s, t), Contains(t, At(s))
  PROVE  Starts(s, t)
<1>1. CASE s = <<>>
  BY <1>1 DEF Starts
<1>2. CASE s # <<>>
  <2>1. Len(s) \in DOMAIN s /\ Len(s) \in DOMAIN t /\ t[Len(s)].id = s[Len(s)].id
    BY <1>2, EndOfLog DEF Contains
  <2> QED
    BY <2>1 DEF Agree, Starts
<1> QED
  BY <1>1, <1>2

LEMMA StartsBoth ==
  ASSUME NEW s, NEW t, Starts(s, t), Starts(t, s)
  PROVE  s = t
<1>1. Len(s) = Len(t) /\ s \in Seq(Commit) /\ t \in Seq(Commit) /\ \A k \in 1..Len(s) : s[k] = t[k]
  BY DEF Starts
<1> QED
  BY <1>1

\* Logs with the same end are the same.
LEMMA SameEnd ==
  ASSUME NEW s \in Seq(Commit), NEW t \in Seq(Commit), Agree(s, t), Agree(t, s), At(s) = At(t)
  PROVE  s = t
<1>1. Contains(s, At(s)) /\ Contains(t, At(t))
  BY EndOfLog DEF Contains
<1> QED
  BY <1>1, RunsThrough, StartsBoth

\* What a log runs through, a longer log runs through.
LEMMA RunsThroughLonger ==
  ASSUME NEW s \in Seq(Commit), NEW t \in Seq(Commit), Starts(s, t), NEW k, k.seq \in Nat, Contains(s, k)
  PROVE  Contains(t, k)
  BY DEF Starts, Contains

\* Cutting logs short, or forgetting them, does no harm.
LEMMA LogsShorten ==
  ASSUME LogsSound, ids' = ids, \A s \in Logs' : \E t \in Logs : Starts(s, t)
  PROVE  LogsSound'
<1>0. ASSUME NEW s, NEW t \in Logs, Starts(s, t)
      PROVE  /\ s \in Seq(Commit) /\ t \in Seq(Commit) /\ SoundLog(t)
             /\ Len(s) \in Nat /\ Len(t) \in Nat /\ Len(s) <= Len(t)
             /\ DOMAIN s = 1..Len(s) /\ DOMAIN t = 1..Len(t)
             /\ \A k \in 1..Len(s) : s[k] = t[k]
  BY <1>0 DEF LogsSound, SoundLog, Starts
<1>1. ASSUME NEW s \in Logs'
      PROVE  SoundLog(s)'
  <2>1. PICK t \in Logs : Starts(s, t)
    OBVIOUS
  <2>2. Len(s) <= MaxCommits
    BY <1>0, <2>1, SyncAssumption DEF SoundLog
  <2>4. \A k \in DOMAIN s : s[k].id <= ids
    BY <1>0, <2>1 DEF SoundLog
  <2>3. Linked(s)
    BY <1>0, <2>1 DEF SoundLog, Linked
  <2> QED
    BY <1>0, <2>1, <2>2, <2>3, <2>4 DEF SoundLog
<1>2. ASSUME NEW s \in Logs', NEW t \in Logs'
      PROVE  Agree(s, t)
  <2>1. PICK u \in Logs, v \in Logs : Starts(s, u) /\ Starts(t, v)
    OBVIOUS
  <2>2. Agree(u, v)
    BY DEF LogsSound
  <2>3. \A i \in 1..Len(s) : i \in DOMAIN u /\ s[i] = u[i] /\ \A m \in 1..i : s[m] = u[m]
    BY <1>0, <2>1
  <2>4. \A j \in 1..Len(t) : j \in DOMAIN v /\ t[j] = v[j] /\ \A m \in 1..j : t[m] = v[m]
    BY <1>0, <2>1
  <2>5. DOMAIN s = 1..Len(s) /\ DOMAIN t = 1..Len(t)
    BY <1>0, <2>1
  <2> QED
    BY <2>2, <2>3, <2>4, <2>5 DEF Agree
<1> QED
  BY <1>1, <1>2 DEF LogsSound

\* A fresh commit on the head that keeps all the head holds.
LEMMA LogsGrow ==
  ASSUME LogsSound, ids \in Nat, ids' = ids + 1, NEW x \in Commit, x.id = ids + 1,
         Len(chain) < MaxCommits, x.parent = At(chain).id, Contents(chain) \subseteq x.data,
         NEW new, new = Append(chain, x), \A s \in Logs' : s \in Logs \/ s = new
  PROVE  LogsSound'
<1>0. chain \in Logs /\ chain \in Seq(Commit) /\ Len(chain) \in Nat
  BY DEF Logs, LogsSound, SoundLog
<1>1. new \in Seq(Commit) /\ Len(new) = Len(chain) + 1 /\ new[Len(chain) + 1] = x
      /\ \A k \in DOMAIN chain : new[k] = chain[k]
  BY <1>0
<1>2. ASSUME NEW s \in Logs
      PROVE  /\ s \in Seq(Commit) /\ Len(s) <= MaxCommits /\ Linked(s)
             /\ \A k \in DOMAIN s : s[k].id <= ids /\ s[k].id \in Nat
  BY Entries DEF LogsSound, SoundLog
<1>3. Linked(new)
  <2> SUFFICES ASSUME NEW k \in 2..Len(new)
               PROVE  new[k].parent = new[k - 1].id /\ new[k - 1].data \subseteq new[k].data
    BY DEF Linked
  <2>1. CASE k <= Len(chain)
    BY <2>1, <1>0, <1>1, <1>2 DEF Linked
  <2>2. CASE k = Len(new)
    BY <2>2, <1>0, <1>1, EndOfLog DEF Contents
  <2> QED
    BY <2>1, <2>2, <1>1, <1>0
<1>4. \A k \in DOMAIN new : new[k].id <= ids + 1
  BY <1>0, <1>1, <1>2
<1>5. ASSUME NEW s \in Logs
      PROVE  Agree(s, new) /\ Agree(new, s)
  <2>1. \A k \in DOMAIN s : s[k].id <= ids /\ s[k].id \in Nat
    BY <1>2
  <2>2. Agree(s, chain) /\ Agree(chain, s)
    BY <1>0 DEF LogsSound
  <2>3. \A i \in DOMAIN s, j \in DOMAIN new : s[i].id = new[j].id => j \in DOMAIN chain
    BY <1>0, <1>1, <2>1
  <2> QED
    BY <1>0, <1>1, <2>2, <2>3 DEF Agree
<1>6. Agree(new, new)
  <2>1. \A k \in DOMAIN chain : chain[k].id <= ids /\ chain[k].id \in Nat
    BY <1>0, <1>2
  <2>2. Agree(chain, chain)
    BY <1>0 DEF LogsSound
  <2> QED
    BY <1>0, <1>1, <2>1, <2>2 DEF Agree
<1>7. ASSUME NEW s \in Logs'
      PROVE  SoundLog(s)'
  <2>1. CASE s = new
    BY <2>1, <1>0, <1>1, <1>3, <1>4, SyncAssumption DEF SoundLog
  <2>2. CASE s \in Logs
    BY <2>2, <1>2 DEF SoundLog
  <2> QED
    BY <2>1, <2>2
<1>8. ASSUME NEW s \in Logs', NEW t \in Logs'
      PROVE  Agree(s, t)
  BY <1>5, <1>6 DEF LogsSound
<1> QED
  BY <1>7, <1>8 DEF LogsSound

\* The pages of the log: what a reader has after the next one.
LEMMA PageOfLog ==
  ASSUME NEW s \in Seq(Commit), NEW n \in 0..Len(s)
  PROVE  /\ Page(s, n, PageSize) \in Seq(Commit)
         /\ n + Len(Page(s, n, PageSize)) <= Len(s)
         /\ \A k \in DOMAIN Page(s, n, PageSize) : Page(s, n, PageSize)[k] = s[n + k]
         /\ n < Len(s) => Page(s, n, PageSize) # <<>>
<1> DEFINE m == IF n + PageSize < Len(s) THEN n + PageSize ELSE Len(s)
<1>1. PageSize \in Nat \ {0} /\ Len(s) \in Nat
  BY SyncAssumption
<1>2. m \in n..Len(s) /\ m \in Nat /\ (n < Len(s) => n < m)
  BY <1>1
<1>3. Page(s, n, PageSize) = SubSeq(s, n + 1, m)
  BY DEF Page
<1>4. SubSeq(s, n + 1, m) \in Seq(Commit) /\ Len(SubSeq(s, n + 1, m)) = m - n
  BY <1>1, <1>2
<1>5. \A k \in 1..(m - n) : SubSeq(s, n + 1, m)[k] = s[n + k]
  BY <1>1, <1>2
<1> DEFINE page == SubSeq(s, n + 1, m)
<1> HIDE DEF m, page
<1>6. page \in Seq(Commit) /\ Len(page) = m - n /\ DOMAIN page = 1..(m - n)
  BY <1>4 DEF page
<1>7. n + Len(page) <= Len(s)
  BY <1>1, <1>2, <1>6
<1>8. \A k \in DOMAIN page : page[k] = s[n + k]
  BY <1>5, <1>6 DEF page
<1>9. n < Len(s) => page # <<>>
  BY <1>1, <1>2, <1>6
<1> QED
  BY <1>3, <1>6, <1>7, <1>8, <1>9 DEF page

LEMMA LogsInUse ==
  ASSUME LogsSound
  PROVE  /\ SoundLog(chain) /\ At(chain) \in Checkpoint
         /\ \A c \in Devices : /\ SoundLog(run[c].seen) /\ At(run[c].seen) \in Checkpoint
                               /\ SoundLog(trust[c])
                               /\ Agree(run[c].seen, chain) /\ Agree(chain, run[c].seen)
                               /\ Agree(trust[c], run[c].seen)
                               /\ Agree(trust[c], chain)
<1>1. chain \in Logs /\ \A c \in Devices : run[c].seen \in Logs /\ trust[c] \in Logs
  BY DEF Logs
<1> QED
  BY <1>1, EndOfLog DEF LogsSound, SoundLog

\* A step that leaves every log one of those there were.
LEMMA LogsKept ==
  ASSUME LogsSound, ids' = ids, chain' \in Logs, backup'.chain \in Logs,
         \A c \in Devices : run'[c].seen \in Logs /\ trust'[c] \in Logs
  PROVE  LogsSound'
<1>1. \A s \in Logs' : s \in Logs
  BY DEF Logs
<1>2. \A s \in Logs : Starts(s, s)
  BY StartsItself DEF LogsSound, SoundLog
<1> QED
  BY <1>1, <1>2, LogsShorten

-----------------------------------------------------------------------------
(* Types *)

LEMMA IdleTyped == Idle \in Run
<1>1. Root \in Devices /\ Genesis \in Checkpoint /\ 0 \in 0..MaxRetries
  BY SyncAssumption DEF Genesis, Checkpoint
<1>2. Unlisted \in [Devices -> Row]
  BY <1>1 DEF Unlisted, Row
<1> QED
  BY <1>1, <1>2 DEF Idle, Run, Ops, Steps, SyncCommands

LEMMA Continues ==
  ASSUME run \in [Devices -> Run], NEW c \in Devices, NEW r \in Run, Continue(c, r)
  PROVE  /\ run' \in [Devices -> Run] /\ run'[c] = [r EXCEPT !.auth = Active(c)]
         /\ \A d \in Devices \ {c} : run'[d] = run[d]
<1>1. Active(c) \in BOOLEAN
  BY DEF Active, ActiveIn
<1>2. [r EXCEPT !.auth = Active(c)] \in Run
  BY <1>1 DEF Run
<1> QED
  BY <1>2 DEF Continue

LEMMA Ends ==
  ASSUME run \in [Devices -> Run], NEW c \in Devices, End(c)
  PROVE  /\ run' \in [Devices -> Run] /\ run'[c] = Idle
         /\ \A d \in Devices \ {c} : run'[d] = run[d]
  BY IdleTyped DEF End

LEMMA FreshTyped ==
  ASSUME NEW r \in Run
  PROVE  Fresh(r) \in Run /\ Fresh(r).seen = <<>> /\ Fresh(r).pc = "head"
         /\ Fresh(r).op = r.op /\ Fresh(r).target = r.target
  BY IdleTyped, SyncAssumption DEF Fresh, Run, Steps, Idle

\* Verifying again, after a page or a request that came too late.
LEMMA RereadTyped ==
  ASSUME run \in [Devices -> Run], NEW c \in Devices, Reread(c) \/ Retry(c)
  PROVE  /\ run' \in [Devices -> Run]
         /\ \A d \in Devices \ {c} : run'[d] = run[d]
         /\ \/ run'[c] = Idle
            \/ /\ run'[c].pc = "head" /\ run'[c].seen = <<>> /\ run'[c] # Idle
               /\ run'[c].op = run[c].op /\ run'[c].target = run[c].target
<1> DEFINE f == Fresh(run[c])
<1>0. run[c] \in Run /\ f \in Run /\ MaxRetries \in Nat
  BY FreshTyped, SyncAssumption
<1>1. run[c].reads \in 0..MaxRetries /\ run[c].tries \in 0..MaxRetries /\ 0 \in 0..MaxRetries
  BY <1>0 DEF Run
<1>2. f.pc = "head" /\ f.seen = <<>> /\ f.op = run[c].op /\ f.target = run[c].target
  BY <1>0, FreshTyped
<1>3. ASSUME NEW i \in 0..MaxRetries, NEW j \in 0..MaxRetries
      PROVE  LET r == [f EXCEPT !.tries = i, !.reads = j]
             IN  r \in Run /\ r.pc = f.pc /\ r.seen = f.seen /\ r.op = f.op /\ r.target = f.target
  <2> HIDE DEF f
  <2> QED
    BY <1>0 DEF Run
<1>4. ASSUME NEW i \in 0..MaxRetries
      PROVE  LET r == [f EXCEPT !.reads = i]
             IN  r \in Run /\ r.pc = f.pc /\ r.seen = f.seen /\ r.op = f.op /\ r.target = f.target
  <2> HIDE DEF f
  <2> QED
    BY <1>0 DEF Run
<1>5. ASSUME NEW r \in Run, Continue(c, r), r.pc = "head", r.seen = <<>>, r.op = f.op, r.target = f.target
      PROVE  /\ run'[c].pc = "head" /\ run'[c].seen = <<>> /\ run'[c] # Idle
             /\ run'[c].op = run[c].op /\ run'[c].target = run[c].target
             /\ run' \in [Devices -> Run] /\ \A d \in Devices \ {c} : run'[d] = run[d]
  <2>1. run'[c] = [r EXCEPT !.auth = Active(c)] /\ run' \in [Devices -> Run]
        /\ \A d \in Devices \ {c} : run'[d] = run[d]
    BY <1>5, Continues
  <2>2. [r EXCEPT !.auth = Active(c)].pc = r.pc /\ [r EXCEPT !.auth = Active(c)].seen = r.seen
        /\ [r EXCEPT !.auth = Active(c)].op = r.op /\ [r EXCEPT !.auth = Active(c)].target = r.target
    BY DEF Run
  <2> QED
    BY <1>2, <1>5, <2>1, <2>2 DEF Idle
<1>6. CASE End(c)
  BY <1>6, Ends
<1>7. CASE run[c].reads + 1 < MaxRetries /\ Continue(c, [f EXCEPT !.reads = run[c].reads + 1])
  <2>1. run[c].reads + 1 \in 0..MaxRetries
    BY <1>0, <1>1, <1>7
  <2> HIDE DEF f
  <2> QED
    BY <1>2, <1>4, <1>5, <1>7, <2>1
<1>8. CASE run[c].tries + 1 < MaxRetries
           /\ Continue(c, [f EXCEPT !.tries = run[c].tries + 1, !.reads = 0])
  <2>1. run[c].tries + 1 \in 0..MaxRetries
    BY <1>0, <1>1, <1>8
  <2> HIDE DEF f
  <2> QED
    BY <1>1, <1>2, <1>3, <1>5, <1>8, <2>1
<1> QED
  BY <1>6, <1>7, <1>8 DEF Reread, Retry

-----------------------------------------------------------------------------
(* Engines *)

\* What another device does leaves an engine as sound as it was.
LEMMA Bystander ==
  ASSUME NEW d \in Devices, EngineSound(d),
         run'[d] = run[d], trust'[d] = trust[d], known'[d] = known[d], vault[d] \subseteq vault'[d],
         joined[d] # NoCheckpoint => joined'[d] # NoCheckpoint,
         \A x \in Devices : bundle[x] # NoCheckpoint => bundle'[x] # NoCheckpoint,
         run[d] \in Run, d = Root => intent' = intent
  PROVE  EngineSound(d)'
<1>1. Pending(d)' = Pending(d) /\ run[d].target \in Devices
  BY DEF EngineSound, Shape, Pending, Run
<1>2. Shape(d)'
  BY <1>1 DEF EngineSound, Shape
<1>3. Bound(d)'
  BY <1>1 DEF EngineSound, Bound, TableTrusted, Binding
<1>4. Settles(d)'
  BY <1>1 DEF EngineSound, Settles, Binding, Anchor
<1>5. Publishes(d)'
  BY DEF EngineSound, Publishes
<1> QED
  BY <1>2, <1>3, <1>4, <1>5 DEF EngineSound

\* An engine at rest is sound.
LEMMA AtRest ==
  ASSUME NEW d \in Devices, run'[d] = Idle
  PROVE  EngineSound(d)'
  BY DEF EngineSound, Shape, Bound, Settles, Publishes, Idle, Listed, Settled

\* So is one that begins to verify.
LEMMA AtHead ==
  ASSUME NEW d \in Devices, run'[d] \in Run, run'[d].pc = "head", run'[d].seen = <<>>,
         joined'[d] # NoCheckpoint,
         run'[d].op \in {"revoke", "approve", "invite"} => d = Root,
         run'[d].op = "revoke" => run'[d].target # Root /\ \A e \in intent' : e.dev = run'[d].target,
         run'[d].op = "approve" => bundle'[run'[d].target] # NoCheckpoint
  PROVE  EngineSound(d)'
  BY DEF EngineSound, Shape, Bound, Settles, Publishes, Idle, Listed, Settled

\* What the device is about to keep can be written.
LEMMA SettledSavable ==
  ASSUME NEW c \in Devices, EngineSound(c), run[c].pc \in Settled, RootSound
  PROVE  Savable(c, run[c].seen, run[c].table)
<1> DEFINE t == run[c].table
<1>1. known[c] \cup Shown(t) \subseteq Binding(c, t)
  BY DEF EngineSound, Bound, TableTrusted, Listed, Binding
<1>2. \A e, f \in Shown(t) : e.dev = f.dev => e = f
  BY DEF Shown, Revocation
<1>3. \A e, f \in Binding(c, t) : e.dev = f.dev => e = f
  <2>1. \A e, f \in Pending(c) : e = f
    BY DEF Pending, RootSound
  <2>2. \A e \in Pending(c), f \in Shown(t) : e.dev = f.dev => e = f
    BY DEF EngineSound, Bound, TableTrusted, Listed
  <2> QED
    BY <1>2, <2>1, <2>2 DEF Binding
<1>4. /\ Contains(run[c].seen, Anchor(c))
      /\ \A e \in Binding(c, t) : Contains(run[c].seen, e.cut)
      /\ \A k \in DOMAIN run[c].seen, e \in Binding(c, t) :
           run[c].seen[k].author = e.dev => k <= e.cut.seq
  BY DEF EngineSound, Settles, Bound, Listed
<1> QED
  BY <1>1, <1>3, <1>4 DEF Savable

-----------------------------------------------------------------------------
(* Steps of an engine that change nothing but its own memory *)

LEMMA Alarms ==
  ASSUME TypeOK, NEW c \in Devices,
         NEW why \in {"table", "chain", "invitation", "revoked", "omitted"}, Alarm(c, why)
  PROVE  alarms' \subseteq Alarmed /\ End(c)
<1> DEFINE a == [dev |-> c, why |-> why, empty |-> run[c].head = Genesis,
                 resuming |-> run[c].op = "revoke" /\ intent # {}]
<1>1. a \in Alarmed
  BY Zenon DEF Alarmed
<1>2. alarms' = alarms \/ alarms' = alarms \cup {a}
  BY DEF Alarm
<1>3. End(c) /\ alarms \subseteq Alarmed
  BY DEF Alarm, TypeOK
<1> HIDE DEF a
<1> QED
  BY <1>1, <1>2, <1>3

\* The table and the anchors stay; what c has read starts a log there is.
LEMMA MemoryStep ==
  ASSUME SyncInv, NEW c \in Devices,
         UNCHANGED <<relay, sidecar, admission, vault, counters>>,
         run' \in [Devices -> Run], \A d \in Devices \ {c} : run'[d] = run[d],
         alarms' \subseteq Alarmed,
         \E t \in Logs : Starts(run'[c].seen, t),
         EngineSound(c)'
  PROVE  SyncInv'
<1> USE DEF relay, sidecar, admission, counters
<1>1. TypeOK'
  BY DEF SyncInv, TypeOK
<1>2. LogsSound'
  <2>1. \A s \in Logs' : s \in Logs \/ s = run'[c].seen
    BY DEF Logs
  <2>2. \A s \in Logs : Starts(s, s)
    BY StartsItself DEF SyncInv, LogsSound, SoundLog
  <2> QED
    BY <2>1, <2>2, LogsShorten DEF SyncInv
<1>3. RelaySound' /\ RootSound'
  BY DEF SyncInv, RelaySound, RootSound
<1>4. ASSUME NEW d \in Devices \ {c}
      PROVE  EngineSound(d)'
  BY Bystander DEF SyncInv, TypeOK
<1> QED
  BY <1>1, <1>2, <1>3, <1>4 DEF SyncInv

\* The operation of c ends.
LEMMA EndStep ==
  ASSUME SyncInv, NEW c \in Devices,
         UNCHANGED <<relay, sidecar, admission, vault, counters>>, End(c), alarms' \subseteq Alarmed
  PROVE  SyncInv'
<1>1. run' \in [Devices -> Run] /\ run'[c] = Idle /\ \A d \in Devices \ {c} : run'[d] = run[d]
  BY Ends DEF SyncInv, TypeOK
<1>2. Starts(run'[c].seen, <<>>) /\ <<>> \in Logs
  BY <1>1 DEF Starts, Idle, Logs
<1> QED
  BY <1>1, <1>2, AtRest, MemoryStep

LEMMA AlarmStep ==
  ASSUME SyncInv, NEW c \in Devices,
         UNCHANGED <<relay, sidecar, admission, vault, counters>>,
         NEW why \in {"table", "chain", "invitation", "revoked", "omitted"}, Alarm(c, why)
  PROVE  SyncInv'
  BY Alarms, EndStep DEF SyncInv

\* The operation of c goes on with what it has read.
LEMMA ContinueStep ==
  ASSUME SyncInv, NEW c \in Devices,
         UNCHANGED <<relay, sidecar, admission, vault, counters, alarms>>,
         NEW r \in Run, Continue(c, r), \E t \in Logs : Starts(r.seen, t), 
         run'[c].seen = r.seen => EngineSound(c)'
  PROVE  SyncInv'
<1>1. run' \in [Devices -> Run] /\ run'[c] = [r EXCEPT !.auth = Active(c)]
      /\ \A d \in Devices \ {c} : run'[d] = run[d]
  BY Continues DEF SyncInv, TypeOK
<1>2. run'[c].seen = r.seen
  BY <1>1 DEF Run
<1> QED
  BY <1>1, <1>2, MemoryStep DEF SyncInv, TypeOK

LEMMA NothingRead == <<>> \in Logs /\ Starts(<<>>, <<>>)
  BY DEF Starts, Logs

LEMMA GetHeadStep ==
  ASSUME SyncInv, NEW c \in Devices, GetHead(c)
  PROVE  SyncInv'
<1> DEFINE r == [run[c] EXCEPT !.pc = "devices", !.head = At(chain)]
<1>1. run[c] \in Run /\ run[c].pc = "head" /\ run[c].seen = <<>> /\ Shape(c)
  BY DEF SyncInv, TypeOK, GetHead, EngineSound, Shape
<1>2. r \in Run
  BY <1>1, LogsInUse DEF SyncInv, Run, Steps
<1>3. run'[c] = [r EXCEPT !.auth = Active(c)]
  BY <1>2, Continues DEF SyncInv, TypeOK, GetHead
<1>4. run'[c].pc = "devices" /\ run'[c].seen = <<>> /\ run'[c].op = run[c].op
      /\ run'[c].target = run[c].target /\ r.seen = <<>>
  BY <1>1, <1>3 DEF Run
<1>5. EngineSound(c)'
  BY <1>1, <1>4 DEF EngineSound, Shape, Bound, Settles, Publishes, Idle, Listed, Settled, GetHead,
     sidecar, admission
<1>6. \E t \in Logs : Starts(r.seen, t)
  <2> HIDE DEF r
  <2> QED
    BY <1>4, NothingRead
<1> QED
  BY <1>2, <1>5, <1>6, ContinueStep DEF GetHead

LEMMA TableTyped ==
  ASSUME table \in [Devices -> Row]
  PROVE  Shown(table) \subseteq Evidence /\ Enrolled(table) \subseteq Devices
  BY DEF Shown, Enrolled, Revocation, Evidence, Row

LEMMA ListDevicesStep ==
  ASSUME SyncInv, NEW c \in Devices, ListDevices(c)
  PROVE  SyncInv'
<1> DEFINE listed == [run[c] EXCEPT !.table = table]
           next(l) == [listed EXCEPT !.pc = l]
<1>1. run[c] \in Run /\ run[c].pc = "devices" /\ run[c].seen = <<>> /\ Shape(c) /\ table \in [Devices -> Row]
  BY DEF SyncInv, TypeOK, ListDevices, EngineSound, Shape
<1>2. UNCHANGED <<relay, sidecar, admission, vault, counters>>
  BY DEF ListDevices
<1>3. CASE Alarm(c, "table") \/ Alarm(c, "chain")
  BY <1>2, <1>3, AlarmStep
<1>4. ASSUME NEW l \in {"commit", "done"}, Continue(c, next(l)), NoAlarm, TableTrusted(c, table),
             l = "done" => run[c].head = Genesis /\ ChainTrusted(c, table, <<>>)
      PROVE  SyncInv'
  <2>1. next(l) \in Run /\ next(l).seen = <<>>
    BY <1>1 DEF Run, Steps
  <2>2. run'[c] = [next(l) EXCEPT !.auth = Active(c)]
    BY <1>4, <2>1, Continues DEF SyncInv, TypeOK
  <2>3. /\ run'[c].pc = l /\ run'[c].seen = <<>> /\ run'[c].op = run[c].op /\ run'[c].table = table
        /\ run'[c].target = run[c].target /\ run'[c].head = run[c].head
    BY <1>1, <2>2 DEF Run
  <2>4. Shape(c)'
    BY <1>1, <1>2, <2>3 DEF Shape, Idle, sidecar, admission
  <2>5. Pending(c)' = Pending(c)
    BY <1>2, <2>3 DEF Pending, sidecar
  <2>6. Bound(c)'
    BY <1>2, <1>4, <2>3, <2>5 DEF Bound, TableTrusted, sidecar
  <2>7. l = "done" => At(<<>>) = Genesis
    BY DEF At
  <2>8. Settles(c)'
    BY <1>2, <1>4, <2>3, <2>5, <2>7 DEF Settles, Settled, ChainTrusted, Binding, Anchor, sidecar
  <2>9. Publishes(c)'
    BY <1>4, <2>3 DEF Publishes
  <2>10. \E t \in Logs : Starts(next(l).seen, t)
    <3> HIDE DEF next
    <3> QED
      BY <2>1, NothingRead
  <2> QED
    BY <1>2, <1>4, <2>1, <2>4, <2>6, <2>8, <2>9, <2>10, ContinueStep DEF EngineSound, NoAlarm
<1>5. \/ Alarm(c, "table") \/ Alarm(c, "chain")
      \/ TableTrusted(c, table) /\ Continue(c, next("commit")) /\ NoAlarm
      \/ TableTrusted(c, table) /\ Continue(c, next("done")) /\ NoAlarm
         /\ run[c].head = Genesis /\ ChainTrusted(c, table, <<>>)
  BY DEF ListDevices
<1> HIDE DEF next
<1> QED
  BY <1>3, <1>4, <1>5

LEMMA GetCommitStep ==
  ASSUME SyncInv, NEW c \in Devices, GetCommit(c)
  PROVE  SyncInv'
<1> DEFINE r == [run[c] EXCEPT !.pc = "history"]
<1>1. run[c] \in Run /\ run[c].pc = "commit" /\ run[c].seen = <<>> /\ Shape(c) /\ Bound(c)
  BY DEF SyncInv, TypeOK, GetCommit, EngineSound, Shape
<1>2. UNCHANGED <<relay, sidecar, admission, vault, counters>>
  BY DEF GetCommit
<1>3. CASE Alarm(c, "chain")
  BY <1>2, <1>3, AlarmStep
<1>4. CASE End(c) /\ NoAlarm
  BY <1>2, <1>4, EndStep DEF NoAlarm, SyncInv, TypeOK
<1>5. CASE Continue(c, r) /\ NoAlarm
  <2>1. r \in Run /\ r.seen = <<>>
    BY <1>1 DEF Run, Steps
  <2>2. run'[c] = [r EXCEPT !.auth = Active(c)]
    BY <1>5, <2>1, Continues DEF SyncInv, TypeOK
  <2>3. /\ run'[c].pc = "history" /\ run'[c].seen = <<>> /\ run'[c].op = run[c].op
        /\ run'[c].table = run[c].table /\ run'[c].target = run[c].target
    BY <1>1, <2>2 DEF Run
  <2>4. Pending(c)' = Pending(c)
    BY <1>2, <2>3 DEF Pending, sidecar
  <2>5. Shape(c)' /\ Settles(c)' /\ Publishes(c)'
    BY <1>1, <1>2, <2>3 DEF Shape, Settles, Settled, Publishes, Idle, sidecar, admission
  <2>6. Bound(c)'
    BY <1>1, <1>2, <2>3, <2>4 DEF Bound, Listed, TableTrusted, sidecar
  <2>7. \E t \in Logs : Starts(r.seen, t)
    <3> HIDE DEF r
    <3> QED
      BY <2>1, NothingRead
  <2> QED
    BY <1>2, <1>5, <2>1, <2>5, <2>6, <2>7, ContinueStep DEF EngineSound, NoAlarm
<1> QED
  BY <1>3, <1>4, <1>5 DEF GetCommit

LEMMA PageBeyond ==
  ASSUME NEW s \in Seq(Commit), NEW n \in Nat, Page(s, n, PageSize) # <<>>
  PROVE  n < Len(s)
<1> SUFFICES ASSUME n >= Len(s) PROVE FALSE
  OBVIOUS
<1>1. PageSize \in Nat \ {0} /\ Len(s) \in Nat
  BY SyncAssumption
<1>2. Page(s, n, PageSize) = SubSeq(s, n + 1, Len(s))
  BY <1>1 DEF Page
<1> QED
  BY <1>1, <1>2

LEMMA Joining ==
  ASSUME NEW s \in Seq(Commit), NEW t \in Seq(Commit)
  PROVE  /\ s \o t \in Seq(Commit) /\ Len(s \o t) = Len(s) + Len(t)
         /\ \A k \in 1..Len(s) : (s \o t)[k] = s[k]
         /\ \A k \in 1..Len(t) : (s \o t)[Len(s) + k] = t[k]
  OBVIOUS

LEMMA EndOfPart ==
  ASSUME NEW s \in Seq(Commit), NEW n \in 1..Len(s)
  PROVE  At(SubSeq(s, 1, n)).id = s[n].id
<1>1. Len(SubSeq(s, 1, n)) = n /\ SubSeq(s, 1, n)[n] = s[n] /\ SubSeq(s, 1, n) # <<>>
  OBVIOUS
<1> QED
  BY <1>1 DEF At

\* A page that continues what was read comes from the same history: whatever
\* the relay did in between, both together start its log.
LEMMA PageFits ==
  ASSUME NEW seen \in Seq(Commit), SoundLog(chain), Agree(seen, chain),
         NEW page, page = Page(chain, Len(seen), PageSize), page # <<>>,
         NEW s, s = seen \o page,
         Len(seen) > 0 => s[Len(seen) + 1].parent = At(SubSeq(s, 1, Len(seen))).id
  PROVE  Starts(s, chain) /\ Len(s) > Len(seen)
<1> DEFINE n == Len(seen)
<1>1. chain \in Seq(Commit) /\ n \in Nat /\ Len(chain) \in Nat /\ Linked(chain)
  BY DEF SoundLog
<1>2. n < Len(chain)
  BY <1>1, PageBeyond
<1>3. /\ page \in Seq(Commit) /\ n + Len(page) <= Len(chain) /\ Len(page) \in Nat
      /\ \A k \in 1..Len(page) : page[k] = chain[n + k]
  <2>1. n \in 0..Len(chain)
    BY <1>1, <1>2
  <2>2. /\ page \in Seq(Commit) /\ n + Len(page) <= Len(chain)
        /\ \A k \in DOMAIN page : page[k] = chain[n + k]
    BY <1>1, <2>1, PageOfLog
  <2> QED
    BY <2>2
<1>4. Len(page) > 0
  BY <1>3
<1>5. /\ s \in Seq(Commit) /\ Len(s) = n + Len(page)
      /\ \A k \in 1..n : s[k] = seen[k]
      /\ \A k \in 1..Len(page) : s[n + k] = page[k]
  BY <1>3, Joining
<1>6. s[n + 1] = chain[n + 1]
  BY <1>3, <1>4, <1>5
<1>7. \A k \in 1..n : seen[k] = chain[k]
  <2>1. CASE n = 0
    BY <2>1
  <2>2. CASE n > 0
    <3>1. chain[n + 1].parent = chain[n].id
      BY <1>1, <1>2, <2>2 DEF Linked
    <3>2. n \in 1..Len(s) /\ s[n] = seen[n]
      BY <1>1, <1>3, <1>5, <2>2
    <3>4. At(SubSeq(s, 1, n)).id = s[n].id
      BY <1>5, <3>2, EndOfPart
    <3>5. s[n + 1].parent = seen[n].id
      BY <2>2, <3>2, <3>4
    <3>3. n \in DOMAIN seen /\ n \in DOMAIN chain /\ seen[n].id = chain[n].id
      BY <1>1, <1>2, <1>6, <2>2, <3>1, <3>5
    <3> QED
      BY <3>3 DEF Agree
  <2> QED
    BY <2>1, <2>2, <1>1
<1>8. ASSUME NEW k \in 1..Len(s) PROVE s[k] = chain[k]
  <2>1. CASE k <= n
    BY <2>1, <1>1, <1>5, <1>7
  <2>2. CASE k > n
    <3>1. k - n \in 1..Len(page) /\ k = n + (k - n)
      BY <1>1, <1>3, <1>5, <2>2
    <3> QED
      BY <3>1, <1>3, <1>5
  <2> QED
    BY <2>1, <2>2, <1>1
<1> QED
  BY <1>3, <1>4, <1>5, <1>8, <1>1 DEF Starts

LEMMA ReadPageStep ==
  ASSUME SyncInv, NEW c \in Devices, ReadPage(c)
  PROVE  SyncInv'
<1> DEFINE r == run[c]
           page == Page(chain, Len(r.seen), PageSize)
           s == r.seen \o page
           good == \A k \in Len(r.seen) + 1 .. Len(s) : CommitTrusted(c, r.table, s, k)
           more == [r EXCEPT !.seen = s]
           whole == [r EXCEPT !.seen = s, !.pc = "done"]
<1>1. r \in Run /\ r.pc = "history" /\ Shape(c) /\ Bound(c)
  BY DEF SyncInv, TypeOK, ReadPage, EngineSound
<1>2. UNCHANGED <<relay, sidecar, admission, vault, counters>>
  BY DEF ReadPage
<1>3. SoundLog(r.seen) /\ SoundLog(chain) /\ Agree(r.seen, chain) /\ Agree(chain, r.seen)
  BY LogsInUse DEF SyncInv
<1>4. CASE Alarm(c, "chain")
  BY <1>2, <1>4, AlarmStep
<1>5. CASE Reread(c) /\ NoAlarm
  <2>1. /\ run' \in [Devices -> Run] /\ \A d \in Devices \ {c} : run'[d] = run[d]
        /\ \/ run'[c] = Idle
           \/ /\ run'[c].pc = "head" /\ run'[c].seen = <<>> /\ run'[c] # Idle
              /\ run'[c].op = run[c].op /\ run'[c].target = run[c].target
    BY <1>5, RereadTyped DEF SyncInv, TypeOK
  <2>2. run'[c].seen = <<>>
    BY <2>1 DEF Idle
  <2>3. run'[c] # Idle => EngineSound(c)'
    BY <1>1, <1>2, <2>1, AtHead DEF Shape, Idle, sidecar, admission
  <2>4. EngineSound(c)'
    BY <2>3, AtRest
  <2>5. alarms' \subseteq Alarmed
    BY <1>5 DEF NoAlarm, SyncInv, TypeOK
  <2> QED
    BY <1>2, <2>1, <2>2, <2>4, <2>5, NothingRead, MemoryStep
<1>6. ASSUME page # <<>>, good, At(chain) = r.head, NEW q \in {more, whole}, Continue(c, q), NoAlarm,
             q = whole => ~(Len(s) < r.head.seq) /\ ChainTrusted(c, r.table, s)
      PROVE  SyncInv'
  <2>1. r.seen \in Seq(Commit) /\ chain \in Seq(Commit)
    BY <1>3 DEF SoundLog
  <2>2. Len(r.seen) > 0 => s[Len(r.seen) + 1].parent = At(SubSeq(s, 1, Len(r.seen))).id
    <3>1. Len(r.seen) < Len(chain)
      BY <1>6, <2>1, PageBeyond
    <3>2. page \in Seq(Commit) /\ Len(page) > 0
      BY <1>6, <2>1, <3>1, PageOfLog
    <3>3. Len(r.seen) + 1 \in Len(r.seen) + 1 .. Len(s) /\ Len(r.seen) \in Nat
      <4> HIDE DEF page
      <4>1. Len(s) = Len(r.seen) + Len(page) /\ Len(r.seen) \in Nat /\ Len(page) \in Nat
        BY <2>1, <3>2, Joining
      <4> QED
        BY <4>1, <3>2
    <3>4. CommitTrusted(c, r.table, s, Len(r.seen) + 1)
      BY <1>6, <3>3
    <3>5. (Len(r.seen) + 1) - 1 = Len(r.seen)
      BY <3>3
    <3> HIDE DEF s, page, good, more, whole, r
    <3>6. s[Len(r.seen) + 1].parent = At(SubSeq(s, 1, (Len(r.seen) + 1) - 1)).id
      BY <3>4, Zenon DEF CommitTrusted
    <3> QED
      BY <3>5, <3>6
  <2>3. Starts(s, chain) /\ Len(s) > Len(r.seen) /\ s \in Seq(Commit)
    <3>1. s = r.seen \o page /\ page = Page(chain, Len(r.seen), PageSize)
      OBVIOUS
    <3> HIDE DEF s, page
    <3>2. Starts(s, chain) /\ Len(s) > Len(r.seen)
      BY <1>3, <1>6, <2>1, <2>2, <3>1, PageFits
    <3> QED
      BY <3>2 DEF Starts
  <2>4. q \in Run /\ q.seen = s /\ q.op = r.op /\ q.table = r.table /\ q.target = r.target /\ q.head = r.head
        /\ q.pc \in {"history", "done"} /\ (q.pc = "done" => q = whole)
    <3> HIDE DEF s
    <3> QED
      BY <1>1, <1>6, <2>3 DEF Run, Steps
  <2> HIDE DEF more, whole
  <2>5. run'[c] = [q EXCEPT !.auth = Active(c)]
    BY <1>6, <2>4, Continues DEF SyncInv, TypeOK
  <2>6. /\ run'[c].pc = q.pc /\ run'[c].seen = s /\ run'[c].op = r.op /\ run'[c].table = r.table
        /\ run'[c].target = r.target /\ run'[c].head = r.head
    BY <2>4, <2>5 DEF Run
  <2>7. Pending(c)' = Pending(c)
    BY <1>2, <2>6 DEF Pending, sidecar
  <2>8. Shape(c)'
    BY <1>1, <1>2, <2>4, <2>6 DEF Shape, Idle, sidecar, admission
  <2>9. Bound(c)'
    <3>1. TableTrusted(c, r.table) /\ \A k \in DOMAIN r.seen, e \in Binding(c, r.table) :
             r.seen[k].author = e.dev => k <= e.cut.seq
      BY <1>1 DEF Bound, Listed
    <3>2. \A k \in 1..Len(r.seen) : s[k] = r.seen[k]
      <4>1. page \in Seq(Commit)
        BY <1>6, <2>1, PageBeyond, PageOfLog
      <4> QED
        BY <2>1, <4>1, Joining
    <3>3. \A k \in Len(r.seen) + 1 .. Len(s), e \in Binding(c, r.table) :
             s[k].author = e.dev => k <= e.cut.seq
      BY <1>6 DEF CommitTrusted
    <3> HIDE DEF s
    <3>4. DOMAIN s = 1..Len(s) /\ DOMAIN r.seen = 1..Len(r.seen) /\ Len(s) \in Nat /\ Len(r.seen) \in Nat
      BY <2>1, <2>3
    <3>5. \A k \in DOMAIN s, e \in Binding(c, r.table) : s[k].author = e.dev => k <= e.cut.seq
      BY <3>1, <3>2, <3>3, <3>4
    <3>6. TableTrusted(c, r.table)' /\ Binding(c, r.table)' = Binding(c, r.table)
      BY <1>2, <2>6, <2>7, <3>1 DEF TableTrusted, Binding, sidecar
    <3> QED
      BY <2>6, <3>5, <3>6 DEF Bound
  <2>10. q.pc = "done" => At(s) = r.head
    <3> HIDE DEF s
    <3>1. CASE q.pc = "done"
      <4>1. ~(Len(s) < Len(chain)) /\ Len(s) \in Nat /\ Len(chain) \in Nat
        BY <1>6, <2>1, <2>3, <2>4, <3>1, EndOfLog
      <4>2. Starts(chain, s)
        BY <2>1, <2>3, <4>1 DEF Starts
      <4> QED
        BY <1>6, <2>3, <4>2, StartsBoth
    <3> QED
      BY <3>1
  <2>11. Settles(c)'
    <3>1. q.pc = "done" => ChainTrusted(c, r.table, s)
      BY <1>6, <2>4
    <3> HIDE DEF s
    <3> QED
      BY <1>2, <2>4, <2>6, <2>7, <2>10, <3>1 DEF Settles, Settled, ChainTrusted, Binding, Anchor, sidecar
  <2>12. Publishes(c)'
    BY <2>4, <2>6 DEF Publishes
  <2>13. \E t \in Logs : Starts(q.seen, t)
    <3> HIDE DEF s
    <3> QED
      BY <2>3, <2>4 DEF Logs
  <2> QED
    BY <1>2, <1>6, <2>4, <2>8, <2>9, <2>11, <2>12, <2>13, ContinueStep DEF EngineSound, NoAlarm
<1>7. \/ Alarm(c, "chain")
      \/ Reread(c) /\ NoAlarm
      \/ page # <<>> /\ good /\ At(chain) = r.head /\ Continue(c, more) /\ NoAlarm /\ Len(s) < r.head.seq
      \/ page # <<>> /\ good /\ At(chain) = r.head /\ Continue(c, whole) /\ NoAlarm
         /\ ~(Len(s) < r.head.seq) /\ ChainTrusted(c, r.table, s)
  BY DEF ReadPage
<1>8. more.pc = "history" /\ whole.pc = "done"
  <2> HIDE DEF s
  <2> QED
    BY <1>1 DEF Run
<1> HIDE DEF more, whole, good, page, s
<1>9. more # whole
  BY <1>8
<1> QED
  BY <1>4, <1>5, <1>6, <1>7, <1>9

LEMMA RefusalStep ==
  ASSUME SyncInv, NEW c \in Devices, Denied(c) \/ RefusePush(c)
  PROVE  SyncInv'
<1>1. UNCHANGED <<relay, sidecar, admission, vault, counters>>
  BY DEF Denied, RefusePush
<1>2. CASE Alarm(c, "revoked")
  BY <1>1, <1>2, AlarmStep
<1>3. CASE End(c) /\ UNCHANGED alarms
  BY <1>1, <1>3, EndStep DEF SyncInv, TypeOK
<1> QED
  BY <1>2, <1>3 DEF Denied, RefusePush, NoAlarm

-----------------------------------------------------------------------------
(* Starting an operation, and what happens to devices at the relay *)

\* Invitations, claims and approvals revoke nobody.
LEMMA TableGrows ==
  ASSUME TypeOK, NEW t \in [Devices -> Row], t[Root].st = "active", NEW d \in Devices, NEW u,
         \/ u = t
         \/ t[d].st \in {"unknown", "invited"} /\ u = Invited(t, d)
         \/ u = Claimed(t, d)
         \/ \E k \in Checkpoint : u = Approved(t, d, k)
  PROVE  u \in [Devices -> Row] /\ Shown(u) = Shown(t) /\ u[Root].st = "active"
<1>0. Genesis \in Checkpoint /\ Root \in Devices
  BY SyncAssumption DEF Genesis, Checkpoint
<1>1. u \in [Devices -> Row]
  BY <1>0 DEF Invited, Claimed, Approved, Membership, Row
<1>2. u[Root].st = "active"
  BY <1>0 DEF Invited, Claimed, Approved, Membership, Row
<1>3. \A x \in Devices : (u[x].st = "revoked" <=> t[x].st = "revoked")
                       /\ (t[x].st = "revoked" => u[x].cut = t[x].cut)
  BY <1>0 DEF Invited, Claimed, Approved, Membership, Row
<1>4. Shown(u) = Shown(t)
  BY <1>3 DEF Shown
<1> QED
  BY <1>1, <1>2, <1>4

\* A step that starts an operation, or admits a device, at most.
LEMMA MembershipStep ==
  ASSUME SyncInv, NEW d \in Devices,
         UNCHANGED <<chain, backup, sidecar, joined, bundle, vault, counters, alarms>>,
         \/ table' = table
         \/ table[d].st \in {"unknown", "invited"} /\ table' = Invited(table, d)
         \/ table' = Claimed(table, d)
         \/ \E k \in Checkpoint : table' = Approved(table, d, k),
         approving' \subseteq approving,
         run' \in [Devices -> Run], NEW c \in Devices, \A x \in Devices \ {c} : run'[x] = run[x],
         run'[c] = run[c] \/ (run'[c].seen = <<>> /\ EngineSound(c)')
  PROVE  SyncInv'
<1> USE DEF sidecar, counters
<1>1. table' \in [Devices -> Row] /\ Shown(table') = Shown(table) /\ table'[Root].st = "active"
  BY TableGrows DEF SyncInv, TypeOK, RelaySound
<1>2. TypeOK'
  BY <1>1 DEF SyncInv, TypeOK
<1>3. LogsSound'
  <2>1. /\ chain' \in Logs /\ backup'.chain \in Logs
        /\ \A x \in Devices : run'[x].seen \in Logs /\ trust'[x] \in Logs
    BY DEF Logs
  <2> QED
    BY <2>1, LogsKept DEF SyncInv
<1>4. RelaySound' /\ RootSound'
  BY <1>1 DEF SyncInv, RelaySound, RootSound, CutOff
<1>5. ASSUME NEW x \in Devices, run'[x] = run[x]
      PROVE  EngineSound(x)'
  BY <1>5, Bystander DEF SyncInv, TypeOK
<1> QED
  BY <1>2, <1>3, <1>4, <1>5 DEF SyncInv

LEMMA Starting ==
  ASSUME SyncInv, NEW c \in Devices, NEW op \in Ops \ {"none"}, NEW d \in Devices,
         joined[c] # NoCheckpoint, UNCHANGED <<sidecar, admission>>,
         Continue(c, [Fresh(Idle) EXCEPT !.op = op, !.target = d]),
         op \in {"revoke", "approve", "invite"} => c = Root,
         op = "revoke" => d # Root /\ \A e \in intent : e.dev = d,
         op = "approve" => bundle[d] # NoCheckpoint
  PROVE  /\ run' \in [Devices -> Run] /\ \A x \in Devices \ {c} : run'[x] = run[x]
         /\ run'[c].seen = <<>> /\ EngineSound(c)'
<1> DEFINE f == Fresh(Idle)
           r == [f EXCEPT !.op = op, !.target = d]
<1>1. f \in Run /\ f.seen = <<>> /\ f.pc = "head"
  BY IdleTyped, FreshTyped
<1>2. r \in Run /\ r.seen = <<>> /\ r.pc = "head" /\ r.op = op /\ r.target = d
  <2> HIDE DEF f
  <2> QED
    BY <1>1 DEF Run
<1>3. Continue(c, r)
  OBVIOUS
<1> HIDE DEF r
<1>4. run' \in [Devices -> Run] /\ run'[c] = [r EXCEPT !.auth = Active(c)]
      /\ \A x \in Devices \ {c} : run'[x] = run[x]
  BY <1>2, <1>3, Continues DEF SyncInv, TypeOK
<1>5. run'[c] \in Run /\ run'[c].seen = <<>> /\ run'[c].pc = "head" /\ run'[c].op = op
      /\ run'[c].target = d
  BY <1>2, <1>4 DEF Run
<1>6. EngineSound(c)'
  BY <1>5, AtHead DEF sidecar, admission
<1> QED
  BY <1>4, <1>5, <1>6

LEMMA StartStep ==
  ASSUME SyncInv, NEW c \in Devices,
         StartSync(c) \/ StartInvite(c) \/ StartApprove(c) \/ StartRevoke(c)
  PROVE  SyncInv'
<1>0. Root \in Devices /\ Commands \in [Devices -> SUBSET SyncCommands]
  BY SyncAssumption
<1>1. ASSUME NEW b \in Devices, NEW op \in Ops \ {"none"}, NEW d \in Devices, Start(b, op, d),
             table' = table \/ (table[c].st \in {"unknown", "invited"} /\ table' = Invited(table, c)),
             op \in {"revoke", "approve", "invite"} => b = Root,
             op = "revoke" => d # Root, op = "approve" => bundle[d] # NoCheckpoint
      PROVE  SyncInv'
  <2>1. UNCHANGED <<chain, backup, sidecar, joined, bundle, approving, vault, counters, alarms>>
        /\ joined[b] # NoCheckpoint /\ (op = "revoke" => \A e \in intent : e.dev = d)
        /\ Continue(b, [Fresh(Idle) EXCEPT !.op = op, !.target = d])
    BY <1>1 DEF Start, admission
  <2>2. run' \in [Devices -> Run] /\ (\A x \in Devices \ {b} : run'[x] = run[x])
        /\ run'[b].seen = <<>> /\ EngineSound(b)'
    BY <1>1, <2>1, Starting DEF admission
  <2> QED
    BY <1>1, <2>1, <2>2, MembershipStep
<1>2. CASE StartSync(c)
  BY <1>0, <1>1, <1>2 DEF StartSync, Ops, SyncCommands
<1>3. CASE StartInvite(c)
  BY <1>0, <1>1, <1>3 DEF StartInvite, Ops
<1>4. CASE StartApprove(c)
  BY <1>0, <1>1, <1>4 DEF StartApprove, Ops
<1>5. CASE StartRevoke(c)
  BY <1>0, <1>1, <1>5 DEF StartRevoke, Ops
<1> QED
  BY <1>2, <1>3, <1>4, <1>5

LEMMA ClaimStep ==
  ASSUME SyncInv, NEW d \in Devices, ClaimInvite(d) \/ ApproveInvite(d)
  PROVE  SyncInv'
<1>1. UNCHANGED <<chain, backup, sidecar, joined, bundle, vault, run, counters, alarms>>
      /\ approving' \subseteq approving
  BY DEF ClaimInvite, ApproveInvite, admission
<1>2. d \in approving => bundle[d] \in Checkpoint
  BY DEF SyncInv, RootSound, TypeOK
<1>3. \/ table' = table \/ table' = Claimed(table, d)
      \/ \E k \in Checkpoint : table' = Approved(table, d, k)
  BY <1>2 DEF ClaimInvite, ApproveInvite
<1> QED
  BY <1>1, <1>3, MembershipStep DEF SyncInv, TypeOK

\* Steps between the operations: no engine moves.
LEMMA QuietStep ==
  ASSUME SyncInv, UNCHANGED <<sidecar, bundle, approving, run, ids>>,
         \A c \in Devices : joined[c] # NoCheckpoint => joined'[c] # NoCheckpoint,
         \A c \in Devices : vault[c] \subseteq vault'[c],
         chain' \in Logs, backup'.chain \in Logs, TypeOK', RelaySound'
  PROVE  SyncInv'
<1> USE DEF sidecar
<1>1. LogsSound'
  <2>1. \A c \in Devices : run'[c].seen \in Logs /\ trust'[c] \in Logs
    BY DEF Logs
  <2> QED
    BY <2>1, LogsKept DEF SyncInv
<1>2. RootSound'
  BY DEF SyncInv, RootSound
<1>3. ASSUME NEW c \in Devices
      PROVE  EngineSound(c)'
  BY Bystander DEF SyncInv, TypeOK
<1> QED
  BY <1>1, <1>2, <1>3 DEF SyncInv

LEMMA FinishStep ==
  ASSUME SyncInv, NEW d \in Devices, Finish(d)
  PROVE  SyncInv'
<1>1. bundle[d] \in Checkpoint /\ bundle[d] # NoCheckpoint
  <2>1. bundle[d] = table[d].admit /\ table[d] \in Row
    BY DEF Finish, ApprovalAt, SyncInv, TypeOK
  <2>2. bundle[d] \in Checkpoint
    BY <2>1 DEF Row
  <2> QED
    BY <2>2 DEF Checkpoint, NoCheckpoint
<1>2. TypeOK'
  BY <1>1 DEF SyncInv, TypeOK, Finish, relay, sidecar, counters
<1>3. RelaySound'
  BY DEF SyncInv, RelaySound, CutOff, Finish, relay
<1>4. \A c \in Devices : joined[c] # NoCheckpoint => joined'[c] # NoCheckpoint
  BY <1>1 DEF Finish, SyncInv, TypeOK
<1> QED
  BY <1>2, <1>3, <1>4, QuietStep DEF Finish, relay, counters, Logs

LEMMA EditStep ==
  ASSUME SyncInv, NEW c \in Devices, Edit(c)
  PROVE  SyncInv'
<1>1. updates' \in 0..MaxUpdates /\ updates + 1 \in Updates
  BY SyncAssumption DEF SyncInv, TypeOK, Edit, Updates
<1>2. vault' \in [Devices -> SUBSET Updates] /\ \A d \in Devices : vault[d] \subseteq vault'[d]
  BY <1>1 DEF SyncInv, TypeOK, Edit
<1>3. TypeOK'
  BY <1>1, <1>2 DEF SyncInv, TypeOK, Edit, relay, sidecar, admission
<1>4. RelaySound'
  BY DEF SyncInv, RelaySound, CutOff, Edit, relay
<1> QED
  BY <1>2, <1>3, <1>4, QuietStep DEF Edit, relay, admission, Logs

LEMMA FailStep ==
  ASSUME SyncInv, NEW c \in Devices, Fail(c)
  PROVE  SyncInv'
<1> USE DEF relay, sidecar, admission
<1>1. run' \in [Devices -> Run] /\ run'[c] = Idle /\ \A d \in Devices \ {c} : run'[d] = run[d]
  BY Ends DEF SyncInv, TypeOK, Fail
<1>2. TypeOK'
  BY <1>1, SyncAssumption DEF SyncInv, TypeOK, Fail
<1>3. LogsSound'
  <2>1. \A d \in Devices : run'[d].seen \in Logs /\ trust'[d] \in Logs
    BY <1>1 DEF Logs, Fail, Idle
  <2> QED
    BY <2>1, LogsKept DEF SyncInv, Logs, Fail
<1>4. RelaySound' /\ RootSound'
  BY DEF SyncInv, RelaySound, CutOff, RootSound, Fail
<1>5. ASSUME NEW d \in Devices \ {c}
      PROVE  EngineSound(d)'
  BY <1>1, Bystander DEF SyncInv, TypeOK, Fail
<1> QED
  BY <1>1, <1>2, <1>3, <1>4, <1>5, AtRest DEF SyncInv

LEMMA BackUpStep ==
  ASSUME SyncInv, BackUp \/ Restore
  PROVE  SyncInv'
<1>1. /\ UNCHANGED <<sidecar, admission, vault, run, ids, updates, faults, alarms>>
      /\ restores' \in 0..MaxRestores
      /\ \/ UNCHANGED <<chain, table>> /\ backup' = [chain |-> chain, table |-> table]
         \/ backup' = backup /\ chain' = backup.chain /\ table' = backup.table
  BY SyncAssumption DEF BackUp, Restore, counters, SyncInv, TypeOK
<1>2. chain' \in Logs /\ backup'.chain \in Logs
  BY <1>1 DEF Logs
<1>3. TypeOK'
  BY <1>1 DEF SyncInv, TypeOK, sidecar, admission
<1>4. RelaySound'
  BY <1>1 DEF SyncInv, RelaySound, CutOff
<1> QED
  BY <1>1, <1>2, <1>3, <1>4, QuietStep DEF admission

-----------------------------------------------------------------------------
(* Steps of an engine that has verified the chain *)

LEMMA WriteStep ==
  ASSUME SyncInv, NEW c \in Devices, NEW pending,
         UNCHANGED <<relay, joined, counters>>,
         UNCHANGED sidecar \/ WriteState(c, pending),
         pending = intent \/ (c = Root /\ pending \subseteq Evidence),
         bundle' \in [Devices -> Checkpoint \cup {NoCheckpoint}],
         \A x \in Devices : bundle[x] # NoCheckpoint => bundle'[x] # NoCheckpoint,
         approving' \subseteq Devices, alarms' \subseteq Alarmed,
         vault' \in [Devices -> SUBSET Updates], \A d \in Devices : vault[d] \subseteq vault'[d],
         run' \in [Devices -> Run], \A d \in Devices \ {c} : run'[d] = run[d],
         run'[c].seen \in {<<>>, run[c].seen},
         EngineSound(c)', RootSound'
  PROVE  SyncInv'
<1>1. /\ trust' = trust \/ trust' = [trust EXCEPT ![c] = run[c].seen]
      /\ known' = known \/ known' = [known EXCEPT ![c] = @ \cup Shown(run[c].table)]
      /\ intent' = intent \/ intent' = pending
  BY DEF WriteState, sidecar
<1>2. run[c].seen \in Seq(Commit) /\ Shown(run[c].table) \subseteq Evidence
  <2>1. run[c].seen \in Seq(Commit) /\ run[c].table \in [Devices -> Row]
    BY DEF SyncInv, TypeOK, Run
  <2> QED
    BY <2>1 DEF Shown, Revocation, Evidence, Row
<1>3. TypeOK'
  <2>1. trust' \in [Devices -> Seq(Commit)]
    BY <1>1, <1>2 DEF SyncInv, TypeOK
  <2>2. known' \in [Devices -> SUBSET Evidence]
    <3>1. known \in [Devices -> SUBSET Evidence] /\ known[c] \cup Shown(run[c].table) \in SUBSET Evidence
      BY <1>2 DEF SyncInv, TypeOK
    <3> QED
      BY <1>1, <3>1
  <2>3. intent' \subseteq Evidence
    BY <1>1 DEF SyncInv, TypeOK
  <2> QED
    BY <2>1, <2>2, <2>3 DEF SyncInv, TypeOK, relay, counters
<1>4. LogsSound'
  <2>1. \A d \in Devices : run'[d].seen \in Logs
    BY DEF Logs
  <2>2. \A d \in Devices : trust'[d] \in {trust[d], run[c].seen}
    BY <1>1 DEF SyncInv, TypeOK
  <2>3. \A d \in Devices : trust'[d] \in Logs
    BY <2>2 DEF Logs
  <2> QED
    BY <2>1, <2>3, LogsKept DEF SyncInv, Logs, relay, counters
<1>5. RelaySound'
  BY DEF SyncInv, RelaySound, CutOff, relay
<1>6. ASSUME NEW d \in Devices \ {c}
      PROVE  EngineSound(d)'
  <2>1. trust'[d] = trust[d] /\ known'[d] = known[d]
    BY <1>1 DEF SyncInv, TypeOK
  <2>2. d = Root => intent' = intent
    BY <1>1
  <2> QED
    BY <2>1, <2>2, Bystander DEF SyncInv, TypeOK
<1> QED
  BY <1>3, <1>4, <1>5, <1>6 DEF SyncInv

\* An operation that ends with what it has learnt.
LEMMA LastStep ==
  ASSUME SyncInv, NEW c \in Devices,
         UNCHANGED <<relay, joined, vault, counters, alarms>>, End(c),
         UNCHANGED sidecar \/ WriteState(c, intent) \/ (c = Root /\ WriteState(c, {})),
         bundle' \in [Devices -> Checkpoint \cup {NoCheckpoint}],
         \A x \in Devices : bundle[x] # NoCheckpoint => bundle'[x] # NoCheckpoint,
         approving' \subseteq Devices, \A d \in approving' : bundle'[d] # NoCheckpoint
  PROVE  SyncInv'
<1>1. run' \in [Devices -> Run] /\ run'[c] = Idle /\ \A d \in Devices \ {c} : run'[d] = run[d]
  BY Ends DEF SyncInv, TypeOK
<1>2. intent' = intent \/ intent' = {}
  BY DEF WriteState, sidecar
<1>3. RootSound'
  BY <1>2 DEF SyncInv, RootSound
<1>4. EngineSound(c)' /\ run'[c].seen = <<>>
  BY <1>1, AtRest DEF Idle
<1>5. {} \subseteq Evidence /\ alarms' \subseteq Alarmed /\ vault' \in [Devices -> SUBSET Updates]
  BY DEF SyncInv, TypeOK
<1>6. CASE UNCHANGED sidecar \/ WriteState(c, intent)
  BY <1>1, <1>3, <1>4, <1>5, <1>6, WriteStep
<1>7. CASE c = Root /\ WriteState(c, {})
  BY <1>1, <1>3, <1>4, <1>5, <1>7, WriteStep
<1> QED
  BY <1>6, <1>7

LEMMA ReadOnlyStep ==
  ASSUME SyncInv, NEW c \in Devices,
         Status(c) \/ Refresh(c) \/ SaveOwn(c)
  PROVE  SyncInv'
<1>1. UNCHANGED <<relay, admission, vault, counters, alarms>> /\ End(c)
      /\ (UNCHANGED sidecar \/ WriteState(c, intent))
  BY DEF Status, Refresh, SaveOwn, Remember
<1> QED
  BY <1>1, LastStep DEF admission, SyncInv, TypeOK, RootSound

LEMMA WriteBundleStep ==
  ASSUME SyncInv, NEW c \in Devices, WriteBundle(c)
  PROVE  SyncInv'
<1>1. UNCHANGED <<relay, joined, approving, vault, counters, alarms>> /\ End(c)
      /\ (UNCHANGED sidecar \/ WriteState(c, intent))
      /\ bundle' = [bundle EXCEPT ![run[c].target] = At(run[c].seen)]
  BY DEF WriteBundle, Remember
<1>2. At(run[c].seen) \in Checkpoint /\ At(run[c].seen) # NoCheckpoint
  BY LogsInUse DEF SyncInv, Checkpoint, NoCheckpoint
<1>3. /\ bundle' \in [Devices -> Checkpoint \cup {NoCheckpoint}]
      /\ \A x \in Devices : bundle[x] # NoCheckpoint => bundle'[x] # NoCheckpoint
  BY <1>1, <1>2 DEF SyncInv, TypeOK
<1> QED
  BY <1>1, <1>3, LastStep DEF SyncInv, TypeOK, RootSound

LEMMA RequireCheckpointStep ==
  ASSUME SyncInv, NEW c \in Devices, RequireCheckpoint(c)
  PROVE  SyncInv'
<1>1. UNCHANGED <<relay, joined, bundle, vault, counters>>
  BY DEF RequireCheckpoint
<1>2. CASE Alarm(c, "invitation") /\ UNCHANGED <<sidecar, approving>>
  BY <1>1, <1>2, AlarmStep DEF admission
<1>3. CASE approving' = approving \cup {run[c].target} /\ Remember(c) /\ End(c) /\ NoAlarm
  <2>1. run[c].target \in Devices /\ bundle[run[c].target] # NoCheckpoint
    BY DEF SyncInv, TypeOK, Run, EngineSound, Shape, RequireCheckpoint, Verified
  <2>2. UNCHANGED sidecar \/ WriteState(c, intent)
    BY <1>3 DEF Remember
  <2> QED
    BY <1>1, <1>3, <2>1, <2>2, LastStep DEF SyncInv, TypeOK, RootSound, NoAlarm
<1> QED
  BY <1>2, <1>3 DEF RequireCheckpoint

\* A verified operation goes on with the same chain and table.
LEMMA GoOn ==
  ASSUME SyncInv, NEW c \in Devices, run[c].pc \in Settled \ {"own"}, NEW r \in Run,
         r.seen = run[c].seen, r.table = run[c].table, r.op = run[c].op, r.head = run[c].head,
         r.target = run[c].target, r.pc \in {"save", "append", "post"}, Continue(c, r),
         r.pc = "save" => r.op \in {"push", "pull"}, r.pc = "append" => r.op = "push",
         r.pc = "post" => r.op = "revoke" /\ intent' # {},
         r.op = "push" => Len(r.seen) < MaxCommits /\ \A e \in Shown(r.table) : e.dev # c,
         r.pc = "save" => /\ Contents(r.seen) \subseteq vault'[c]
                          /\ ~r.changed => Contents(r.seen) \subseteq r.draft,
         r.pc = "append" => Contents(r.seen) \subseteq r.draft,
         joined' = joined, bundle' = bundle,
         NEW pending, UNCHANGED sidecar \/ WriteState(c, pending),
         \/ pending = intent
         \/ /\ r.op = "revoke" /\ intent = {} /\ r.target # Root
            /\ r.table[r.target].st # "revoked" /\ pending = {Revocation(r.target, At(r.seen))}
  PROVE  /\ run' \in [Devices -> Run] /\ \A d \in Devices \ {c} : run'[d] = run[d]
         /\ run'[c].seen = run[c].seen /\ EngineSound(c)'
<1> DEFINE s == run[c].seen
           t == run[c].table
<1>1. run' \in [Devices -> Run] /\ run'[c] = [r EXCEPT !.auth = Active(c)]
      /\ \A d \in Devices \ {c} : run'[d] = run[d]
  BY Continues DEF SyncInv, TypeOK
<1>2. /\ run'[c].pc = r.pc /\ run'[c].seen = s /\ run'[c].op = r.op /\ run'[c].table = t
      /\ run'[c].target = r.target /\ run'[c].head = r.head /\ run'[c].draft = r.draft
      /\ run'[c].changed = r.changed
  BY <1>1 DEF Run
<1>3. EngineSound(c) /\ Shape(c) /\ RootSound /\ s \in Seq(Commit)
  BY DEF SyncInv, EngineSound, TypeOK, Run
<1>4. Contains(s, At(s))
  BY <1>3, EndOfLog DEF Contains
<1>5. /\ trust'[c] = trust[c] \/ trust'[c] = s
      /\ known'[c] \subseteq known[c] \cup Shown(t)
      /\ intent' = intent \/ (intent' = pending /\ WriteState(c, pending))
  BY DEF WriteState, sidecar, SyncInv, TypeOK
<1>6. /\ TableTrusted(c, t) /\ Contains(s, Anchor(c)) /\ r.head = At(s)
      /\ \A k \in DOMAIN s, e \in Binding(c, t) : s[k].author = e.dev => k <= e.cut.seq
      /\ \A e \in Binding(c, t) : Contains(s, e.cut)
  BY <1>3 DEF EngineSound, Bound, Settles, Listed
<1>7. Contains(s, Anchor(c)')
  BY <1>4, <1>5, <1>6 DEF Anchor
<1>8. \A e \in Pending(c)' : \/ e \in Pending(c)
                             \/ e = Revocation(r.target, At(s)) /\ r.table[r.target].st # "revoked"
                                /\ intent = {} /\ r.op = "revoke" /\ r.target # Root
  BY <1>2, <1>5 DEF Pending
<1>9. Pending(c) \subseteq Pending(c)'
  BY <1>2, <1>5 DEF Pending
<1>10. \A e \in Shown(t) : t[e.dev].st = "revoked"
  BY DEF Shown, Revocation
<1>11. TableTrusted(c, t)'
  <2>1. \A e \in Pending(c)', f \in Shown(t) : e.dev = f.dev => e = f
    BY <1>6, <1>8, <1>10 DEF TableTrusted, Revocation
  <2> QED
    BY <1>2, <1>5, <1>6, <1>9, <2>1 DEF TableTrusted
<1>12. \A k \in DOMAIN s, e \in Binding(c, t)' : s[k].author = e.dev => k <= e.cut.seq
  <2>1. \A k \in DOMAIN s : k <= At(s).seq
    BY <1>3, EndOfLog
  <2> QED
    BY <1>2, <1>6, <1>8, <2>1 DEF Binding, Revocation
<1>13. \A e \in Binding(c, t)' : Contains(s, e.cut)
  BY <1>2, <1>4, <1>6, <1>8 DEF Binding, Revocation
<1>14. Shape(c)'
  <2>1. r.op = "revoke" => \A e \in intent' : e.dev = r.target
    BY <1>3, <1>5 DEF Shape, Revocation
  <2> QED
    BY <1>2, <1>3, <2>1 DEF Shape, Idle
<1>15. Bound(c)' /\ Settles(c)'
  BY <1>2, <1>6, <1>7, <1>11, <1>12, <1>13 DEF Bound, Settles
<1>16. Publishes(c)'
  BY <1>2 DEF Publishes
<1> QED
  BY <1>1, <1>2, <1>14, <1>15, <1>16 DEF EngineSound

LEMMA ContentsTyped ==
  ASSUME NEW s \in Seq(Commit) PROVE Contents(s) \subseteq Updates
<1>1. s # <<>> => s[Len(s)] \in Commit
  OBVIOUS
<1> QED
  BY <1>1 DEF Contents, Commit

LEMMA AppliesFacts ==
  ASSUME NEW c \in Devices, Applies(c)
  PROVE  /\ run[c].pc = "done" /\ run[c].op \in {"push", "pull"}
         /\ run[c].op = "push" => Len(run[c].seen) < MaxCommits
                                  /\ \A e \in Shown(run[c].table) : e.dev # c
  BY DEF Applies

LEMMA MergeStep ==
  ASSUME SyncInv, NEW c \in Devices, Merge(c)
  PROVE  SyncInv'
<1> DEFINE merged == vault[c] \cup Contents(run[c].seen)
           r == [run[c] EXCEPT !.pc = "save", !.draft = vault[c], !.changed = merged # vault[c]]
<1>1. /\ vault' = [vault EXCEPT ![c] = merged] /\ Continue(c, r)
      /\ UNCHANGED <<relay, sidecar, admission, counters, alarms>>
  BY DEF Merge
<1>2. run[c] \in Run /\ vault[c] \subseteq Updates /\ merged \subseteq Updates
  BY ContentsTyped DEF SyncInv, TypeOK, Run
<1>3. vault' \in [Devices -> SUBSET Updates] /\ vault'[c] = merged /\ \A d \in Devices : vault[d] \subseteq vault'[d]
  <2>1. merged \in SUBSET Updates /\ vault \in [Devices -> SUBSET Updates]
    BY <1>2 DEF SyncInv, TypeOK
  <2> HIDE DEF merged
  <2>2. vault' \in [Devices -> SUBSET Updates] /\ vault'[c] = merged
        /\ \A d \in Devices \ {c} : vault'[d] = vault[d]
    BY <1>1, <2>1
  <2> QED
    BY <2>2 DEF merged
<1>4. (merged # vault[c]) \in BOOLEAN
  OBVIOUS
<1>5. /\ r \in Run /\ r.pc = "save" /\ r.draft = vault[c] /\ r.seen = run[c].seen
      /\ r.table = run[c].table /\ r.op = run[c].op /\ r.head = run[c].head
      /\ r.target = run[c].target
  <2> HIDE DEF merged
  <2> QED
    BY <1>2, <1>4 DEF Run, Steps
<1>6. r.changed = (merged # vault[c])
  <2> HIDE DEF merged
  <2> QED
    BY <1>2 DEF Run
<1>7. Contents(r.seen) \subseteq vault'[c] /\ (~r.changed => Contents(r.seen) \subseteq r.draft)
  BY <1>3, <1>5, <1>6
<1> HIDE DEF r
<1>8. run[c].pc = "done" /\ r.op \in {"push", "pull"} /\ (r.op = "push" => Len(r.seen) < MaxCommits
                                                       /\ \A e \in Shown(r.table) : e.dev # c)
  BY <1>5, AppliesFacts DEF Merge
<1>9. /\ run' \in [Devices -> Run] /\ \A d \in Devices \ {c} : run'[d] = run[d]
      /\ run'[c].seen = run[c].seen /\ EngineSound(c)'
  BY <1>1, <1>5, <1>7, <1>8, GoOn DEF Settled, admission
<1>10. RootSound'
  BY <1>1 DEF SyncInv, RootSound, sidecar, admission
<1> QED
  BY <1>1, <1>3, <1>9, <1>10, WriteStep DEF SyncInv, TypeOK, admission

LEMMA SaveStep ==
  ASSUME SyncInv, NEW c \in Devices, Save(c)
  PROVE  SyncInv'
<1> DEFINE draft == IF run[c].changed THEN vault[c] ELSE run[c].draft
           r == [run[c] EXCEPT !.pc = "append", !.draft = draft]
<1>1. UNCHANGED <<relay, admission, vault, counters, alarms>> /\ WriteState(c, intent)
      /\ run[c].pc = "save"
  BY DEF Save
<1>2. CASE End(c)
  BY <1>1, <1>2, LastStep DEF admission, SyncInv, TypeOK, RootSound
<1>3. CASE run[c].op = "push" /\ Continue(c, r)
  <2>1. run[c] \in Run /\ Publishes(c) /\ draft \subseteq Updates
    BY DEF SyncInv, TypeOK, Run, EngineSound
  <2>2. Contents(run[c].seen) \subseteq draft
    BY <1>1, <2>1 DEF Publishes
  <2>3. /\ r \in Run /\ r.pc = "append" /\ r.draft = draft /\ r.seen = run[c].seen
        /\ r.table = run[c].table /\ r.op = run[c].op /\ r.head = run[c].head
        /\ r.target = run[c].target
    <3> HIDE DEF draft
    <3> QED
      BY <2>1 DEF Run, Steps
  <2>4. Len(run[c].seen) < MaxCommits /\ \A e \in Shown(run[c].table) : e.dev # c
    BY <1>1, <1>3, <2>1 DEF Publishes
  <2> HIDE DEF r, draft
  <2>5. /\ run' \in [Devices -> Run] /\ \A d \in Devices \ {c} : run'[d] = run[d]
        /\ run'[c].seen = run[c].seen /\ EngineSound(c)'
    BY <1>1, <1>3, <2>2, <2>3, <2>4, GoOn DEF Settled, admission
  <2>6. RootSound'
    BY <1>1 DEF SyncInv, RootSound, WriteState, admission
  <2> QED
    BY <1>1, <2>5, <2>6, WriteStep DEF SyncInv, TypeOK, admission
<1> QED
  BY <1>2, <1>3 DEF Save

LEMMA FirstStep ==
  ASSUME SyncInv, NEW c \in Devices, First(c)
  PROVE  SyncInv'
<1> DEFINE r == [run[c] EXCEPT !.pc = "append", !.draft = vault[c]]
<1>1. UNCHANGED <<relay, admission, vault, counters, alarms>> /\ Applies(c) /\ run[c].seen = <<>>
  BY DEF First
<1>2. CASE WriteState(c, intent) /\ End(c)
  BY <1>1, <1>2, LastStep DEF admission, SyncInv, TypeOK, RootSound
<1>3. CASE run[c].op = "push" /\ Continue(c, r) /\ UNCHANGED sidecar
  <2>1. run[c] \in Run /\ vault[c] \subseteq Updates
    BY DEF SyncInv, TypeOK
  <2>2. /\ r \in Run /\ r.pc = "append" /\ r.draft = vault[c] /\ r.seen = run[c].seen
        /\ r.table = run[c].table /\ r.op = run[c].op /\ r.head = run[c].head
        /\ r.target = run[c].target
    BY <2>1 DEF Run, Steps
  <2>3. Contents(run[c].seen) = {}
    BY <1>1 DEF Contents
  <2>4. run[c].pc = "done" /\ Len(run[c].seen) < MaxCommits /\ \A e \in Shown(run[c].table) : e.dev # c
    BY <1>1, <1>3, AppliesFacts
  <2> HIDE DEF r
  <2>5. /\ run' \in [Devices -> Run] /\ \A d \in Devices \ {c} : run'[d] = run[d]
        /\ run'[c].seen = run[c].seen /\ EngineSound(c)'
    BY <1>1, <1>3, <2>2, <2>3, <2>4, GoOn DEF Settled, admission
  <2>6. RootSound'
    BY <1>1, <1>3 DEF SyncInv, RootSound, sidecar, admission
  <2> QED
    BY <1>1, <1>3, <2>5, <2>6, WriteStep DEF SyncInv, TypeOK, admission
<1> QED
  BY <1>2, <1>3 DEF First

LEMMA PrepareRevokeStep ==
  ASSUME SyncInv, NEW c \in Devices, PrepareRevoke(c)
  PROVE  SyncInv'
<1> DEFINE e == Revocation(run[c].target, At(run[c].seen))
           r == [run[c] EXCEPT !.pc = "post"]
<1>1. /\ UNCHANGED <<relay, admission, vault, counters, alarms>>
      /\ run[c].pc = "done" /\ run[c].op = "revoke" /\ intent = {}
  BY DEF PrepareRevoke
<1>2. run[c] \in Run /\ c = Root /\ run[c].target # Root
  BY <1>1 DEF SyncInv, TypeOK, EngineSound, Shape
<1>3. CASE End(c) /\ (UNCHANGED sidecar \/ WriteState(c, {}))
  BY <1>1, <1>2, <1>3, LastStep DEF admission, SyncInv, TypeOK, RootSound
<1>4. CASE run[c].table[run[c].target].st = "active" /\ WriteState(c, {e}) /\ Continue(c, r)
  <2>1. {e} \subseteq Evidence
    BY <1>2, LogsInUse DEF SyncInv, Revocation, Evidence, Run
  <2>2. /\ r \in Run /\ r.pc = "post" /\ r.seen = run[c].seen /\ r.table = run[c].table
        /\ r.op = run[c].op /\ r.head = run[c].head /\ r.target = run[c].target
    BY <1>2 DEF Run, Steps
  <2> HIDE DEF r
  <2>3. intent' = {e}
    BY <1>4 DEF WriteState
  <2>4. e = Revocation(r.target, At(r.seen)) /\ r.table[r.target].st # "revoked"
    BY <1>4, <2>2
  <2>5. run[c].pc \in Settled \ {"own"} /\ r.pc \in {"save", "append", "post"} /\ r.op = "revoke"
        /\ intent' # {} /\ joined' = joined /\ bundle' = bundle /\ approving' = approving /\ r.target # Root
    BY <1>1, <1>2, <2>2, <2>3 DEF Settled, admission
  <2>6. /\ run' \in [Devices -> Run] /\ \A d \in Devices \ {c} : run'[d] = run[d]
        /\ run'[c].seen = run[c].seen /\ EngineSound(c)'
    BY <1>1, <1>4, <2>2, <2>4, <2>5, GoOn
  <2>7. RootSound'
    BY <2>3, <2>5 DEF SyncInv, RootSound
  <2> HIDE DEF e
  <2>8. vault' = vault /\ alarms' = alarms /\ UNCHANGED <<relay, joined, counters>>
    BY <1>1 DEF admission
  <2> QED
    BY <1>2, <1>4, <2>1, <2>5, <2>6, <2>7, <2>8, WriteStep DEF SyncInv, TypeOK
<1> QED
  BY <1>1, <1>3, <1>4 DEF PrepareRevoke

LEMMA ResumeRevokeStep ==
  ASSUME SyncInv, NEW c \in Devices, ResumeRevoke(c)
  PROVE  SyncInv'
<1> DEFINE r == [run[c] EXCEPT !.pc = "post"]
<1>1. /\ UNCHANGED <<relay, admission, vault, counters>>
      /\ run[c].pc = "done" /\ run[c].op = "revoke" /\ intent # {}
  BY DEF ResumeRevoke
<1>2. run[c] \in Run /\ c = Root
  BY <1>1 DEF SyncInv, TypeOK, EngineSound, Shape
<1>3. CASE End(c) /\ NoAlarm /\ WriteState(c, {})
  BY <1>1, <1>2, <1>3, LastStep DEF admission, SyncInv, TypeOK, RootSound, NoAlarm
<1>4. CASE Alarm(c, "omitted") /\ UNCHANGED sidecar
  BY <1>1, <1>4, AlarmStep
<1>5. CASE Continue(c, r) /\ NoAlarm /\ UNCHANGED sidecar
  <2>1. /\ r \in Run /\ r.pc = "post" /\ r.seen = run[c].seen /\ r.table = run[c].table
        /\ r.op = run[c].op /\ r.head = run[c].head /\ r.target = run[c].target
    BY <1>2 DEF Run, Steps
  <2> HIDE DEF r
  <2>2. intent' = intent /\ joined' = joined /\ bundle' = bundle /\ approving' = approving
        /\ vault' = vault /\ alarms' = alarms /\ UNCHANGED <<relay, joined, counters>>
    BY <1>1, <1>5 DEF sidecar, admission, NoAlarm
  <2>3. /\ run' \in [Devices -> Run] /\ \A d \in Devices \ {c} : run'[d] = run[d]
        /\ run'[c].seen = run[c].seen /\ EngineSound(c)'
    BY <1>1, <1>5, <2>1, <2>2, GoOn DEF Settled
  <2>4. RootSound'
    BY <2>2 DEF SyncInv, RootSound
  <2> QED
    BY <1>5, <2>2, <2>3, <2>4, WriteStep DEF SyncInv, TypeOK
<1> QED
  BY <1>3, <1>4, <1>5 DEF ResumeRevoke

-----------------------------------------------------------------------------
(* Requests that change the relay *)

\* A verified head that is still the head: what was read is the whole log.
LEMMA HeadUnmoved ==
  ASSUME SyncInv, NEW c \in Devices, At(chain) = At(run[c].seen)
  PROVE  chain = run[c].seen
  BY LogsInUse, SameEnd DEF SyncInv, SoundLog

LEMMA PostRevokeStep ==
  ASSUME SyncInv, NEW c \in Devices, PostRevoke(c)
  PROVE  SyncInv'
<1> DEFINE r == run[c]
           q == [Fresh(r) EXCEPT !.acked = TRUE, !.reads = 0]
<1>1. /\ UNCHANGED <<chain, backup, sidecar, admission, vault, counters, alarms>>
      /\ r.pc = "post" /\ r \in Run /\ EngineSound(c) /\ r.op = "revoke"
  BY DEF PostRevoke, SyncInv, TypeOK, EngineSound, Shape
<1>2. /\ c = Root /\ r.target # Root /\ r.target \in Devices /\ joined[c] # NoCheckpoint
      /\ \A e \in intent : e.dev = r.target
  BY <1>1 DEF EngineSound, Shape, Run, Idle
<1>3. alarms' = alarms /\ UNCHANGED <<sidecar, admission, vault, counters>>
  BY <1>1
<1>4. CASE Retry(c) /\ UNCHANGED table
  <2>1. /\ run' \in [Devices -> Run] /\ \A d \in Devices \ {c} : run'[d] = run[d]
        /\ \/ run'[c] = Idle
           \/ /\ run'[c].pc = "head" /\ run'[c].seen = <<>> /\ run'[c] # Idle
              /\ run'[c].op = run[c].op /\ run'[c].target = run[c].target
    BY <1>4, RereadTyped DEF SyncInv, TypeOK
  <2>2. run'[c].seen = <<>>
    BY <2>1 DEF Idle
  <2>3. EngineSound(c)'
    BY <1>1, <1>2, <2>1, AtHead, AtRest DEF sidecar, admission
  <2> QED
    BY <1>1, <1>4, <2>1, <2>2, <2>3, NothingRead, MemoryStep DEF SyncInv, TypeOK, relay
<1>5. CASE End(c) /\ UNCHANGED table
  BY <1>1, <1>5, EndStep DEF SyncInv, TypeOK, relay
<1>6. ASSUME RevokeAnswer(chain, table, r.target, r.head) = "stored",
             NEW e \in intent, table' = Revoked(table, e), Continue(c, q)
      PROVE  SyncInv'
  <2>1. q \in Run /\ q.seen = <<>> /\ q.pc = "head" /\ q.op = r.op /\ q.target = r.target
    <3> DEFINE f == Fresh(r)
    <3>1. f \in Run /\ f.seen = <<>> /\ f.pc = "head" /\ f.op = r.op /\ f.target = r.target
      BY <1>1, FreshTyped
    <3> HIDE DEF f
    <3>2. 0 \in 0..MaxRetries
      BY SyncAssumption
    <3>3. [f EXCEPT !.acked = TRUE, !.reads = 0] \in Run
      BY <3>1, <3>2 DEF Run
    <3>4. LET g == [f EXCEPT !.acked = TRUE, !.reads = 0]
          IN  g.seen = f.seen /\ g.pc = f.pc /\ g.op = f.op /\ g.target = f.target
      BY <3>1 DEF Run
    <3> QED
      BY <3>1, <3>3, <3>4 DEF f
  <2> HIDE DEF q
  <2>2. run' \in [Devices -> Run] /\ run'[c] = [q EXCEPT !.auth = Active(c)]
        /\ \A d \in Devices \ {c} : run'[d] = run[d]
    BY <1>6, <2>1, Continues DEF SyncInv, TypeOK
  <2>3. run'[c] \in Run /\ run'[c].seen = <<>> /\ run'[c].pc = "head" /\ run'[c].op = r.op
        /\ run'[c].target = r.target
    BY <2>1, <2>2 DEF Run
  <2>4. EngineSound(c)'
    BY <1>1, <1>2, <2>3, AtHead DEF sidecar, admission
  <2>5. e \in Evidence /\ e.dev = r.target /\ e.dev \in Devices
        /\ table \in [Devices -> Row] /\ e.cut \in Checkpoint
    BY <1>2 DEF SyncInv, TypeOK, Evidence
  <2>6. At(chain) = r.head /\ table[r.target].st = "active"
    BY <1>6 DEF RevokeAnswer
  <2>7. chain = r.seen
    BY <1>1, <2>6, HeadUnmoved DEF EngineSound, Settles, Settled
  <2>8. /\ Contains(chain, e.cut)
        /\ \A k \in DOMAIN chain : chain[k].author = e.dev => k <= e.cut.seq
    <3>1. e \in Binding(c, r.table)
      BY <1>1 DEF Binding, Pending
    <3> QED
      BY <1>1, <2>7, <3>1 DEF EngineSound, Bound, Settles, Settled, Listed
  <2>9. table' \in [Devices -> Row] /\ table'[Root].st = "active"
    BY <1>2, <1>6, <2>5 DEF Revoked, Row, SyncInv, RelaySound
  <2>10. Shown(table') = Shown(table) \cup {e}
    <3>1. \A d \in Devices : /\ d # e.dev => table'[d] = table[d]
                             /\ d = e.dev => table'[d].st = "revoked" /\ table'[d].cut = e.cut
      BY <1>6, <2>5 DEF Revoked, Row
    <3>2. e = Revocation(e.dev, e.cut)
      BY <2>5 DEF Revocation, Evidence
    <3>3. e.dev \in Devices /\ table[e.dev].st # "revoked"
      BY <2>5, <2>6
    <3> QED
      BY <3>1, <3>2, <3>3 DEF Shown
  <2>11. RelaySound'
    BY <1>1, <2>8, <2>9, <2>10 DEF SyncInv, RelaySound, CutOff
  <2>12. TypeOK'
    BY <1>1, <2>2, <2>9 DEF SyncInv, TypeOK, sidecar, admission, counters
  <2>13. LogsSound'
    <3>1. ASSUME NEW d \in Devices
          PROVE  run'[d].seen \in Logs
      <4>1. CASE d = c
        BY <2>3, <4>1 DEF Logs
      <4>2. CASE d # c
        BY <2>2, <4>2 DEF Logs
      <4> QED
        BY <4>1, <4>2
    <3>2. \A d \in Devices : trust'[d] \in Logs
      BY <1>1 DEF Logs, sidecar
    <3> QED
      BY <1>1, <3>1, <3>2, LogsKept DEF SyncInv, Logs, counters
  <2>14. RootSound'
    BY <1>1 DEF SyncInv, RootSound, sidecar, admission
  <2>15. ASSUME NEW d \in Devices \ {c}
         PROVE  EngineSound(d)'
    BY <1>1, <2>2, Bystander DEF SyncInv, TypeOK, sidecar, admission
  <2> QED
    BY <2>4, <2>11, <2>12, <2>13, <2>14, <2>15 DEF SyncInv
<1> QED
  BY <1>4, <1>5, <1>6 DEF PostRevoke

LEMMA AppendCommitStep ==
  ASSUME SyncInv, NEW c \in Devices, AppendCommit(c)
  PROVE  SyncInv'
<1> DEFINE s == run[c].seen
           x == SignedCommit(ids + 1, s, c, run[c].draft)
           new == Append(s, x)
           q == [run[c] EXCEPT !.pc = "own", !.seen = new]
           answer == AppendAnswer(chain, table, c, At(s), Authenticated(c))
<1>1. /\ run[c].pc = "append" /\ run[c] \in Run /\ EngineSound(c) /\ Shape(c)
      /\ UNCHANGED <<table, backup, sidecar, admission, vault, updates, restores, faults, alarms>>
  BY DEF AppendCommit, SyncInv, TypeOK, EngineSound
<1>2. run[c] # Idle /\ joined[c] # NoCheckpoint /\ run[c].op = "push"
  BY <1>1 DEF Shape, Idle
<1>3. CASE Retry(c) /\ UNCHANGED <<chain, ids>>
  <2>1. /\ run' \in [Devices -> Run]
        /\ \A d \in Devices \ {c} : run'[d] = run[d]
        /\ \/ run'[c] = Idle
           \/ /\ run'[c].pc = "head" /\ run'[c].seen = <<>> /\ run'[c] # Idle
              /\ run'[c].op = run[c].op /\ run'[c].target = run[c].target
    BY <1>3, RereadTyped DEF SyncInv, TypeOK
  <2>2. run'[c].seen = <<>>
    BY <2>1 DEF Idle
  <2>3. EngineSound(c)'
    BY <1>1, <1>2, <2>1, AtHead, AtRest DEF sidecar, admission
  <2> QED
    BY <1>1, <1>3, <2>1, <2>2, <2>3, NothingRead, MemoryStep DEF SyncInv, TypeOK, relay, counters
<1>4. CASE End(c) /\ UNCHANGED <<chain, ids>>
  BY <1>1, <1>4, EndStep DEF SyncInv, TypeOK, relay, counters
<1>5. ASSUME answer = "stored", ids < MaxIds, chain' = Append(chain, x), ids' = ids + 1, Continue(c, q)
      PROVE  SyncInv'
  <2>1. At(chain) = At(s) /\ table[c].st = "active"
    BY <1>5 DEF AppendAnswer, ActiveIn
  <2>2. chain = s
    <3>1. run[c].head = At(s)
      BY <1>1 DEF EngineSound, Settles, Settled
    <3> QED
      BY <1>1, <2>1, <3>1, HeadUnmoved
  <2>3. s \in Seq(Commit) /\ Len(s) < MaxCommits /\ ids \in Nat /\ ids + 1 \in 1..MaxIds
    <3>1. s \in Seq(Commit) /\ ids \in 0..MaxIds
      BY <1>1 DEF Run, SyncInv, TypeOK
    <3>2. Len(s) < MaxCommits
      BY <1>1, <1>2 DEF EngineSound, Publishes
    <3> QED
      BY <1>5, <3>1, <3>2, SyncAssumption
  <2>4. x \in Commit /\ x.id = ids + 1 /\ x.parent = At(s).id /\ x.data = run[c].draft /\ x.author = c
    <3>1. At(s) \in Checkpoint /\ run[c].draft \subseteq Updates
      BY <1>1, LogsInUse DEF SyncInv, Run
    <3> QED
      BY <2>3, <3>1 DEF SignedCommit, Commit, Checkpoint
  <2>5. Contents(chain) \subseteq x.data
    BY <1>1, <2>2, <2>4 DEF EngineSound, Publishes
  <2> HIDE DEF x
  <2>6. /\ new \in Seq(Commit) /\ Len(new) = Len(s) + 1 /\ new[Len(s) + 1] = x
        /\ \A k \in 1..Len(s) : new[k] = s[k]
    BY <2>3, <2>4
  <2>7. q \in Run /\ q.pc = "own" /\ q.seen = new /\ q.op = "push" /\ q.table = run[c].table
    <3> HIDE DEF new
    <3> QED
      BY <1>1, <1>2, <2>6 DEF Run, Steps
  <2>8. chain' = new
    BY <1>5, <2>2
  <2> HIDE DEF q, new
  <2>9. /\ run' \in [Devices -> Run] /\ \A d \in Devices \ {c} : run'[d] = run[d]
        /\ run'[c].pc = "own" /\ run'[c].seen = new /\ run'[c].op = "push" /\ run'[c].table = run[c].table
    <3>1. run' \in [Devices -> Run] /\ run'[c] = [q EXCEPT !.auth = Active(c)]
          /\ \A d \in Devices \ {c} : run'[d] = run[d]
      BY <1>5, <2>7, Continues DEF SyncInv, TypeOK
    <3> QED
      BY <2>7, <3>1 DEF Run
  <2>10. TypeOK'
    <3>1. ids' \in 0..MaxIds
      BY <1>5, <2>3, SyncAssumption
    <3> QED
      BY <1>1, <2>6, <2>8, <2>9, <3>1 DEF SyncInv, TypeOK, sidecar, admission
  <2>11. LogsSound'
    <3>1. \A t \in Logs' : t \in Logs \/ t = new
      BY <1>1, <2>8, <2>9 DEF Logs, sidecar
    <3>2. new = Append(chain, x)
      BY <2>2 DEF new
    <3> QED
      BY <1>5, <2>2, <2>3, <2>4, <2>5, <3>1, <3>2, LogsGrow DEF SyncInv
  <2>12. \A k \in DOMAIN new : \/ k \in DOMAIN s /\ new[k] = s[k]
                               \/ k = Len(s) + 1 /\ new[k].author = c
    BY <2>3, <2>4, <2>6
  <2>13. Starts(s, new)
    BY <2>3, <2>6 DEF Starts
  <2>14. CutOff(new, table)
    <3>1. \A e \in Shown(table) : e.dev # c /\ e.cut.seq \in Nat
      <4>1. Shown(table) \subseteq Evidence
        BY TableTyped DEF SyncInv, TypeOK
      <4>2. \A e \in Shown(table) : table[e.dev].st = "revoked"
        BY DEF Shown, Revocation
      <4> QED
        BY <2>1, <4>1, <4>2, SyncAssumption DEF Evidence, Checkpoint
    <3>2. CutOff(s, table)
      BY <2>2 DEF SyncInv, RelaySound
    <3>3. \A e \in Shown(table) : Contains(new, e.cut)
      BY <2>3, <2>6, <2>13, <3>1, <3>2, RunsThroughLonger DEF CutOff
    <3> QED
      BY <2>12, <3>1, <3>2, <3>3 DEF CutOff
  <2>15. RelaySound' /\ RootSound'
    BY <1>1, <2>8, <2>14 DEF SyncInv, RelaySound, RootSound, CutOff, sidecar, admission
  <2>16. Pending(c) = {} /\ Pending(c)' = {}
    BY <1>2, <2>9 DEF Pending
  <2>17. \A e \in Binding(c, run[c].table) : e.dev # c /\ e.cut.seq \in Nat
    <3>1. run[c].table \in [Devices -> Row]
      BY <1>1 DEF Run
    <3>2. \A e \in Shown(run[c].table) : e.cut.seq \in Nat
      BY <3>1, SyncAssumption DEF Shown, Revocation, Row, Checkpoint
    <3> QED
      BY <1>1, <1>2, <2>16, <3>2 DEF EngineSound, Publishes, Binding
  <2>18. Anchor(c)' = Anchor(c) /\ Anchor(c).seq \in Nat
    <3>1. Len(trust[c]) \in Nat /\ Anchor(c).seq = Len(trust[c])
      BY LogsInUse, EndOfLog DEF Anchor, SyncInv, SoundLog
    <3> QED
      BY <1>1, <3>1 DEF Anchor, sidecar
  <2>19. Bound(c)'
    <3>1. TableTrusted(c, run[c].table)' /\ Binding(c, run[c].table)' = Binding(c, run[c].table)
      BY <1>1, <2>9, <2>16 DEF EngineSound, Bound, Listed, Settled, TableTrusted, Binding, sidecar
    <3>2. \A k \in DOMAIN s, e \in Binding(c, run[c].table) : s[k].author = e.dev => k <= e.cut.seq
      BY <1>1 DEF EngineSound, Bound, Listed, Settled
    <3> QED
      BY <2>9, <2>12, <2>17, <3>1, <3>2 DEF Bound
  <2>20. Settles(c)'
    <3>1. Contains(s, Anchor(c)) /\ \A e \in Binding(c, run[c].table) : Contains(s, e.cut)
      BY <1>1 DEF EngineSound, Settles, Settled
    <3>2. Contains(new, Anchor(c)) /\ \A e \in Binding(c, run[c].table) : Contains(new, e.cut)
      BY <2>3, <2>6, <2>13, <2>17, <2>18, <3>1, RunsThroughLonger
    <3>3. Binding(c, run[c].table)' = Binding(c, run[c].table)
      BY <2>9, <2>16 DEF Binding
    <3> QED
      BY <2>9, <2>18, <3>2, <3>3 DEF Settles
  <2>21. Shape(c)' /\ Publishes(c)'
    BY <1>1, <1>2, <2>9 DEF Shape, Publishes, Idle, admission
  <2>22. ASSUME NEW d \in Devices \ {c}
         PROVE  EngineSound(d)'
    BY <1>1, <2>9, Bystander DEF SyncInv, TypeOK, sidecar, admission
  <2> QED
    BY <2>10, <2>11, <2>15, <2>19, <2>20, <2>21, <2>22 DEF SyncInv, EngineSound
<1> QED
  BY <1>3, <1>4, <1>5 DEF AppendCommit

-----------------------------------------------------------------------------
(* The invariant *)

\* The initial state satisfies the invariant.
LEMMA InitInv == Init => SyncInv
<1> SUFFICES ASSUME Init
             PROVE  SyncInv
  OBVIOUS
<1> USE DEF Init
<1>0. Genesis \in Checkpoint /\ Root \in Devices
  BY SyncAssumption DEF Genesis, Checkpoint
<1>1. NewTable(Members) \in [Devices -> Row] /\ NewTable(Members)[Root].st = "active"
      /\ \A d \in Devices : NewTable(Members)[d].st # "revoked"
  BY <1>0 DEF NewTable, Membership, Unlisted, Row
<1>2. TypeOK
  BY <1>0, <1>1, IdleTyped, SyncAssumption DEF TypeOK
<1>3. LogsSound
  <2>1. \A s \in Logs : s = <<>>
    BY DEF Logs, Idle
  <2>2. SoundLog(<<>>) /\ Agree(<<>>, <<>>)
    BY SyncAssumption DEF SoundLog, Agree, Linked
  <2> QED
    BY <2>1, <2>2 DEF LogsSound
<1>4. RelaySound /\ RootSound
  BY <1>1 DEF RelaySound, RootSound, CutOff, Shown
<1>5. ASSUME NEW c \in Devices
      PROVE  EngineSound(c)
  BY DEF EngineSound, Shape, Bound, Settles, Publishes, Idle, Listed, Settled
<1> QED
  BY <1>2, <1>3, <1>4, <1>5 DEF SyncInv

LEMMA StutterStep ==
  ASSUME SyncInv, UNCHANGED vars
  PROVE  SyncInv'
<1> USE DEF vars, relay, sidecar, admission, counters
<1>1. RelaySound' /\ TypeOK' /\ RootSound'
  BY DEF SyncInv, RelaySound, CutOff, TypeOK, RootSound
<1> QED
  BY <1>1, QuietStep DEF Logs

\* Every step keeps it.
LEMMA NextInv == SyncInv /\ [Next]_vars => SyncInv'
<1> SUFFICES ASSUME SyncInv, [Next]_vars
             PROVE  SyncInv'
  OBVIOUS
<1>1. ASSUME NEW c \in Devices, Step(c)
      PROVE  SyncInv'
  BY <1>1, GetHeadStep, ListDevicesStep, GetCommitStep, ReadPageStep, RefusalStep, ReadOnlyStep,
     WriteBundleStep, RequireCheckpointStep, MergeStep, SaveStep, FirstStep, AppendCommitStep,
     PrepareRevokeStep, ResumeRevokeStep, PostRevokeStep DEF Step
<1>2. ASSUME NEW c \in Devices, StartSync(c) \/ StartInvite(c) \/ StartApprove(c) \/ StartRevoke(c)
      PROVE  SyncInv'
  BY <1>2, StartStep
<1>3. ASSUME NEW c \in Devices, ClaimInvite(c) \/ ApproveInvite(c) \/ Finish(c) \/ Edit(c) \/ Fail(c)
      PROVE  SyncInv'
  BY <1>3, ClaimStep, FinishStep, EditStep, FailStep
<1>4. CASE BackUp \/ Restore
  BY <1>4, BackUpStep
<1>5. CASE UNCHANGED vars
  BY <1>5, StutterStep
<1> QED
  BY <1>1, <1>2, <1>3, <1>4, <1>5 DEF Next

\* The invariant holds in every reachable state.
THEOREM Inductive == Spec => []SyncInv
  BY InitInv, NextInv, PTL DEF Spec

-----------------------------------------------------------------------------
(* What it implies *)

\* Every variable has its type: no operation leaves its data, whatever is
\* restored, lost or refused.
THEOREM TypeCorrect == Spec => []TypeOK
<1>1. SyncInv => TypeOK
  BY DEF SyncInv
<1> QED
  BY <1>1, Inductive, PTL

\* No update is lost at the relay: a push publishes at least what the head it
\* replaces holds (push, append_commit).
THEOREM NoLostUpdateHolds == Spec => []NoLostUpdate
<1>1. SyncInv => NoLostUpdate
  BY LogsInUse DEF SyncInv, NoLostUpdate, SoundLog, Linked
<1> QED
  BY <1>1, Inductive, PTL

\* _write_state accepts what verification accepted (_verify_advertised_head,
\* _write_state), so that no operation stops between the merge and the save.
THEOREM StateSoundHolds == Spec => []StateSound
<1>1. SyncInv => StateSound
  <2> SUFFICES ASSUME SyncInv
               PROVE  StateSound
    OBVIOUS
  <2>1. \A c \in Devices : run[c].pc \in {"done", "save", "own"} => run[c].pc \in Settled
    BY DEF Settled
  <2> QED
    BY <2>1, SettledSavable DEF SyncInv, StateSound, VerifiedIsSavable
<1> QED
  BY <1>1, Inductive, PTL

\* A revoked device authors no commit after the cut of its revocation, which
\* may be older than the head it is published at (revoke_device): even when
\* the relay is restored from a backup in between.
THEOREM RevocationCutsOffHolds == Spec => []RevocationCutsOff
<1>1. SyncInv => RevocationCutsOff
  BY DEF SyncInv, RelaySound, CutOff, RevocationCutsOff
<1> QED
  BY <1>1, Inductive, PTL

-----------------------------------------------------------------------------
(* Trust *)

\* A step that changes what a device keeps goes through _write_state.
LEMMA OnlyWriteState ==
  ASSUME [Next]_vars
  PROVE  UNCHANGED <<trust, known>> \/ \E c \in Devices : WriteState(c, intent')
<1> USE DEF sidecar
<1>0. \A c \in Devices : \A p : WriteState(c, p) => WriteState(c, intent')
  BY DEF WriteState
<1>1. ASSUME NEW c \in Devices, Step(c)
      PROVE  UNCHANGED <<trust, known>> \/ WriteState(c, intent')
  <2>1. CASE GetHead(c) \/ ListDevices(c) \/ GetCommit(c) \/ ReadPage(c) \/ Denied(c)
    BY <2>1 DEF GetHead, ListDevices, GetCommit, ReadPage, Denied
  <2>2. CASE Status(c) \/ Refresh(c) \/ WriteBundle(c) \/ RequireCheckpoint(c)
    BY <1>0, <2>2 DEF Status, Refresh, WriteBundle, RequireCheckpoint, Remember
  <2>3. CASE RefusePush(c) \/ Merge(c) \/ Save(c) \/ First(c) \/ AppendCommit(c) \/ SaveOwn(c)
    BY <1>0, <2>3 DEF RefusePush, Merge, Save, First, AppendCommit, SaveOwn
  <2>4. CASE PrepareRevoke(c)
    BY <1>0, <2>4 DEF PrepareRevoke
  <2>5. CASE ResumeRevoke(c) \/ PostRevoke(c)
    BY <1>0, <2>5 DEF ResumeRevoke, PostRevoke
  <2> QED
    BY <1>1, <2>1, <2>2, <2>3, <2>4, <2>5 DEF Step
<1>2. ASSUME NEW c \in Devices, StartSync(c) \/ StartInvite(c) \/ StartApprove(c) \/ StartRevoke(c)
      PROVE  UNCHANGED <<trust, known>>
  BY <1>2 DEF StartSync, StartInvite, StartApprove, StartRevoke, Start
<1>3. ASSUME NEW c \in Devices, ClaimInvite(c) \/ ApproveInvite(c) \/ Finish(c) \/ Edit(c) \/ Fail(c)
      PROVE  UNCHANGED <<trust, known>>
  BY <1>3 DEF ClaimInvite, ApproveInvite, Finish, Edit, Fail
<1>4. CASE BackUp \/ Restore \/ UNCHANGED vars
  BY <1>4 DEF BackUp, Restore, vars
<1> QED
  BY <1>1, <1>2, <1>3, <1>4 DEF Next

\* _write_state moves the anchor of a device forward on one chain.
LEMMA AnchorMoves ==
  ASSUME SyncInv, NEW c \in Devices, NEW p, WriteState(c, p)
  PROVE  \A d \in Devices : Starts(trust[d], trust'[d]) /\ known[d] \subseteq known'[d]
<1>1. /\ trust \in [Devices -> Seq(Commit)] /\ known \in [Devices -> SUBSET Evidence]
      /\ trust' = [trust EXCEPT ![c] = run[c].seen]
      /\ known' = [known EXCEPT ![c] = @ \cup Shown(run[c].table)]
      /\ Contains(run[c].seen, Anchor(c))
  BY DEF SyncInv, TypeOK, WriteState, Savable
<1>2. Agree(trust[c], run[c].seen) /\ run[c].seen \in Seq(Commit) /\ trust[c] \in Seq(Commit)
  BY LogsInUse DEF SyncInv, SoundLog
<1>3. Starts(trust[c], run[c].seen)
  BY <1>1, <1>2, RunsThrough DEF Anchor
<1>4. ASSUME NEW d \in Devices
      PROVE  Starts(trust[d], trust'[d])
  BY <1>1, <1>3, StartsItself
<1> QED
  BY <1>1, <1>4

\* The chain a device trusts is only extended, and a revocation it has seen is
\* kept: _write_state compares with the anchor under the operation lock, and a
\* commit id names all the ancestors of the commit.
THEOREM TrustOnlyGrowsHolds == Spec => TrustOnlyGrows
<1>1. ASSUME SyncInv, [Next]_vars, NEW c \in Devices
      PROVE  /\ Len(trust[c]) <= Len(trust'[c])
             /\ SubSeq(trust'[c], 1, Len(trust[c])) = trust[c]
             /\ known[c] \subseteq known'[c]
  <2>1. \A s, t : Starts(s, t) /\ t \in Seq(Commit) => Len(s) <= Len(t) /\ SubSeq(t, 1, Len(s)) = s
    <3> SUFFICES ASSUME NEW s \in Seq(Commit), NEW t \in Seq(Commit), Len(s) <= Len(t),
                        \A k \in 1..Len(s) : s[k] = t[k]
                 PROVE  SubSeq(t, 1, Len(s)) = s
      BY DEF Starts
    <3>1. SubSeq(t, 1, Len(s)) \in Seq(Commit) /\ Len(SubSeq(t, 1, Len(s))) = Len(s)
      OBVIOUS
    <3>2. \A k \in 1..Len(s) : SubSeq(t, 1, Len(s))[k] = s[k]
      OBVIOUS
    <3> QED
      BY <3>1, <3>2
  <2>2. trust[c] \in Seq(Commit) /\ trust'[c] \in Seq(Commit)
    <3>1. SyncInv'
      BY <1>1, NextInv
    <3> QED
      BY <1>1, <3>1 DEF SyncInv, TypeOK
  <2>3. Starts(trust[c], trust'[c]) /\ known[c] \subseteq known'[c]
    <3>1. CASE UNCHANGED <<trust, known>>
      BY <2>2, <3>1, StartsItself
    <3>2. CASE \E d \in Devices : WriteState(d, intent')
      BY <1>1, <3>2, AnchorMoves
    <3> QED
      BY <1>1, <3>1, <3>2, OnlyWriteState
  <2> QED
    BY <2>1, <2>2, <2>3
<1>2. SyncInv /\ [Next]_vars => [\A c \in Devices : /\ Len(trust[c]) <= Len(trust'[c])
                                                    /\ SubSeq(trust'[c], 1, Len(trust[c])) = trust[c]
                                                    /\ known[c] \subseteq known'[c]]_vars
  BY <1>1
<1> QED
  BY <1>2, Inductive, PTL DEF Spec, TrustOnlyGrows

-----------------------------------------------------------------------------
(* The inductive invariant without restores *)

\* Table u comes from table t by admissions and revocations.
Forward(t, u) ==
  \A d \in Devices :
    /\ t[d].st \in {"active", "revoked"} =>
         u[d].st \in {"active", "revoked"} /\ u[d].admit = t[d].admit
    /\ t[d].st = "revoked" => u[d] = t[d]

\* The log runs through every checkpoint a membership or an invitation names,
\* and each of its commits is by a member admitted before.
Admissions ==
  /\ \A d \in Devices : joined[d] # NoCheckpoint =>
       d \in Enrolled(table) /\ (d # Root => joined[d] = table[d].admit)
  /\ joined[Root] = Genesis
  /\ \A d \in Enrolled(table) \ {Root} : Contains(chain, table[d].admit)
  /\ \A d \in Devices : bundle[d] # NoCheckpoint => Contains(chain, bundle[d])
  /\ \A k \in DOMAIN chain :
       LET a == chain[k].author
       IN  a \in Enrolled(table) /\ (a # Root => k > table[a].admit.seq)
  /\ chain # <<>> => chain[1].parent = 0

\* What c keeps is part of what the relay holds.
Keeps(c) == Contains(chain, Anchor(c)) /\ known[c] \subseteq Shown(table)

\* The head c has been told is on the log, and beyond all c keeps.
Advertised(c) ==
  LET r == run[c]
  IN  r.pc \notin {"idle", "head"} =>
        /\ Contains(chain, r.head) /\ (r.head.seq = 0 => r.head = Genesis)
        /\ r.pc # "own" => Len(trust[c]) <= r.head.seq /\ joined[c].seq <= r.head.seq
        /\ r.op = "approve" => bundle[r.target].seq <= r.head.seq

\* The table c has been told covers the authors up to that head.
Tabled(c) ==
  LET r == run[c]
  IN  r.pc \in Listed =>
        /\ Forward(r.table, table)
        /\ \A k \in 1..r.head.seq : chain[k].author \in Enrolled(r.table)

\* What c has read is on the log, and there is more while it reads.
Reads(c) ==
  LET r == run[c]
  IN  /\ Contains(chain, At(r.seen))
      /\ r.pc = "history" => Len(r.seen) < r.head.seq
      /\ r.pc = "commit" => r.head.seq > 0

Follows(c) == Keeps(c) /\ Advertised(c) /\ Tabled(c) /\ Reads(c)

Straight == Admissions /\ \A c \in Devices : Follows(c)

AlarmInv == /\ SyncInv /\ FalseAlarmsExplained
            /\ restores = 0 => Straight

-----------------------------------------------------------------------------
(* Tables and logs that move forward *)

LEMMA ForwardShows ==
  ASSUME NEW t, NEW u, Forward(t, u)
  PROVE  Shown(t) \subseteq Shown(u) /\ Enrolled(t) \subseteq Enrolled(u)
         /\ \A d \in Enrolled(t) : u[d].admit = t[d].admit
  BY DEF Forward, Shown, Enrolled, Revocation

LEMMA ForwardTwice ==
  ASSUME NEW t, NEW u, NEW v, Forward(t, u), Forward(u, v)
  PROVE  Forward(t, v)
  BY DEF Forward

LEMMA ForwardItself == ASSUME NEW t PROVE Forward(t, t)
  BY DEF Forward

\* The logs an engine compares, while there is no restore.
LEMMA OnTheLog ==
  ASSUME SyncInv, NEW c \in Devices, Follows(c)
  PROVE  /\ chain \in Seq(Commit) /\ Len(chain) \in Nat /\ DOMAIN chain = 1..Len(chain)
         /\ run[c] \in Run /\ run[c].seen \in Seq(Commit)
         /\ Starts(run[c].seen, chain) /\ Starts(trust[c], chain)
         /\ Anchor(c).seq = Len(trust[c]) /\ Anchor(c).seq \in Nat
         /\ run[c].head \in Checkpoint /\ run[c].head.seq \in Nat
<1>1. /\ SoundLog(chain) /\ SoundLog(run[c].seen) /\ SoundLog(trust[c])
      /\ Agree(run[c].seen, chain) /\ Agree(trust[c], chain)
  BY LogsInUse DEF SyncInv
<1>2. run[c] \in Run /\ run[c].head \in Checkpoint
  BY DEF SyncInv, TypeOK, Run
<1>3. Starts(run[c].seen, chain) /\ Starts(trust[c], chain)
  BY <1>1, RunsThrough DEF SoundLog, Follows, Keeps, Reads, Anchor
<1>4. Anchor(c).seq = Len(trust[c]) /\ Len(trust[c]) \in Nat
  BY <1>1, EndOfLog DEF Anchor, SoundLog
<1>5. run[c].head.seq \in Nat
  BY <1>2, SyncAssumption DEF Checkpoint
<1> QED
  BY <1>1, <1>2, <1>3, <1>4, <1>5 DEF SoundLog

\* A log that starts the log of the relay runs through what that runs through,
\* as far as it goes.
LEMMA RunsThroughShorter ==
  ASSUME NEW s \in Seq(Commit), NEW t \in Seq(Commit), Starts(s, t), NEW k, k.seq \in Nat,
         Contains(t, k), k.seq <= Len(s)
  PROVE  Contains(s, k)
  BY DEF Starts, Contains

\* What the relay does leaves an engine following it.
LEMMA StillFollows ==
  ASSUME SyncInv, NEW c \in Devices, Follows(c), Starts(chain, chain'), chain' \in Seq(Commit),
         Forward(table, table'),
         run'[c] = run[c], trust'[c] = trust[c], known'[c] = known[c],
         joined'[c] = joined[c] \/ run[c].pc = "idle",
         bundle' = bundle \/ run[c].op # "approve"
  PROVE  Follows(c)'
<1>0. /\ chain \in Seq(Commit) /\ Anchor(c).seq \in Nat
      /\ run[c].head.seq \in Nat /\ At(run[c].seen).seq \in Nat
      /\ Len(chain) \in Nat /\ DOMAIN chain = 1..Len(chain)
  BY OnTheLog, EndOfLog
<1>1. Keeps(c)'
  <2>1. Contains(chain', Anchor(c)) /\ Anchor(c)' = Anchor(c)
    BY <1>0, RunsThroughLonger DEF Follows, Keeps, Anchor
  <2> QED
    BY <2>1, ForwardShows DEF Follows, Keeps
<1>2. Advertised(c)'
  <2>1. Contains(chain, run[c].head) => Contains(chain', run[c].head)
    BY <1>0, RunsThroughLonger
  <2> QED
    BY <2>1 DEF Follows, Advertised
<1>3. Tabled(c)'
  <2>1. CASE run[c].pc \in Listed
    <3>1. Forward(run[c].table, table')
      BY <2>1, ForwardTwice DEF Follows, Tabled
    <3>2. \A k \in 1..run[c].head.seq : k \in DOMAIN chain /\ chain'[k] = chain[k]
      <4>1. Contains(chain, run[c].head)
        BY <2>1 DEF Follows, Advertised, Listed, Settled
      <4>2. \A k \in 1..Len(chain) : chain'[k] = chain[k]
        BY DEF Starts
      <4> QED
        BY <1>0, <4>1, <4>2 DEF Contains
    <3> QED
      BY <2>1, <3>1, <3>2 DEF Follows, Tabled
  <2> QED
    BY <2>1 DEF Tabled
<1>4. Reads(c)'
  <2>1. Contains(chain', At(run[c].seen))
    BY <1>0, RunsThroughLonger DEF Follows, Reads
  <2> QED
    BY <2>1 DEF Follows, Reads
<1> QED
  BY <1>1, <1>2, <1>3, <1>4 DEF Follows

\* What the admissions rest on, when the relay moves forward.
LEMMA AdmissionsKept ==
  ASSUME SyncInv, Admissions, Starts(chain, chain'), chain' \in Seq(Commit), Forward(table, table'),
         \A d \in Enrolled(table') \ Enrolled(table) : Contains(chain, table'[d].admit),
         \A k \in DOMAIN chain' \ DOMAIN chain : chain'[k].author \in Enrolled(table),
         chain' = <<>> \/ chain # <<>> \/ chain'[1].parent = 0,
         \A d \in Devices : \/ joined'[d] = joined[d]
                            \/ d # Root /\ d \in Enrolled(table) /\ joined'[d] = table[d].admit,
         \A d \in Devices : bundle'[d] = bundle[d] \/ Contains(chain, bundle'[d]),
         TypeOK'
  PROVE  Admissions'
<1>0. Root \in Devices /\ MaxCommits \in Nat
  BY SyncAssumption
<1>1. chain \in Seq(Commit) /\ Len(chain) \in Nat /\ DOMAIN chain = 1..Len(chain)
      /\ Len(chain') \in Nat /\ DOMAIN chain' = 1..Len(chain') /\ Len(chain) <= Len(chain')
      /\ \A k \in DOMAIN chain : chain'[k] = chain[k]
  <2>1. chain \in Seq(Commit)
    BY DEF SyncInv, TypeOK
  <2>2. Len(chain) <= Len(chain') /\ \A k \in 1..Len(chain) : chain[k] = chain'[k]
    BY DEF Starts
  <2> QED
    BY <2>1, <2>2
<1>2. \A d \in Devices : table[d].admit.seq \in Nat /\ table'[d].admit.seq \in Nat
  <2>1. \A d \in Devices : table[d] \in Row /\ table'[d] \in Row
    BY DEF SyncInv, TypeOK
  <2>2. \A r \in Row : r.admit.seq \in Nat
    BY <1>0 DEF Row, Checkpoint
  <2> QED
    BY <2>1, <2>2
<1>3. Enrolled(table) \subseteq Enrolled(table') /\ \A d \in Enrolled(table) : table'[d].admit = table[d].admit
  BY ForwardShows
<1>4. \A d \in Devices : joined'[d] # NoCheckpoint =>
        d \in Enrolled(table') /\ (d # Root => joined'[d] = table'[d].admit)
  BY <1>3 DEF Admissions
<1>5. joined'[Root] = Genesis
  BY <1>0 DEF Admissions
<1>6. \A d \in Enrolled(table') \ {Root} : Contains(chain', table'[d].admit)
  <2> SUFFICES ASSUME NEW d \in Enrolled(table') \ {Root}
               PROVE  Contains(chain, table'[d].admit) /\ table'[d].admit.seq \in Nat
    BY <1>1, RunsThroughLonger
  <2> QED
    BY <1>2, <1>3 DEF Admissions, Enrolled
<1>7. \A d \in Devices : bundle'[d] # NoCheckpoint => Contains(chain', bundle'[d])
  <2> SUFFICES ASSUME NEW d \in Devices, bundle'[d] # NoCheckpoint
               PROVE  Contains(chain, bundle'[d]) /\ bundle'[d].seq \in Nat
    BY <1>1, RunsThroughLonger
  <2>1. bundle'[d] \in Checkpoint
    BY DEF TypeOK
  <2> QED
    BY <1>0, <2>1 DEF Admissions, Checkpoint
<1>8. ASSUME NEW k \in DOMAIN chain'
      PROVE  LET a == chain'[k].author
             IN  a \in Enrolled(table') /\ (a # Root => k > table'[a].admit.seq)
  <2>1. CASE k \in DOMAIN chain
    BY <1>1, <1>3, <2>1 DEF Admissions
  <2>2. CASE k \notin DOMAIN chain
    <3> DEFINE a == chain'[k].author
    <3>1. a \in Enrolled(table) /\ a \in Devices
      BY <2>2 DEF Enrolled
    <3>2. a # Root => table[a].admit.seq <= Len(chain)
      BY <1>1, <1>2, <3>1 DEF Admissions, Contains
    <3> QED
      BY <1>1, <1>2, <1>3, <2>2, <3>1, <3>2
  <2> QED
    BY <2>1, <2>2
<1>9. chain' # <<>> => chain'[1].parent = 0
  <2>1. chain # <<>> => 1 \in DOMAIN chain
    BY <1>1
  <2> QED
    BY <1>1, <2>1 DEF Admissions
<1> QED
  BY <1>4, <1>5, <1>6, <1>7, <1>8, <1>9 DEF Admissions

\* A step of an engine at which the relay stands still.
LEMMA EngineMoves ==
  ASSUME SyncInv, TypeOK', Straight, NEW c \in Devices, UNCHANGED <<chain, table, joined>>,
         \A d \in Devices \ {c} : run'[d] = run[d] /\ trust'[d] = trust[d] /\ known'[d] = known[d],
         bundle' = bundle \/ (c = Root /\ \A d \in Devices : bundle'[d] = bundle[d]
                                                            \/ Contains(chain, bundle'[d])),
         Follows(c)'
  PROVE  Straight'
<1>1. chain \in Seq(Commit) /\ Starts(chain, chain') /\ Forward(table, table')
  BY StartsItself, ForwardItself DEF SyncInv, TypeOK
<1>2. Admissions'
  BY <1>1, AdmissionsKept DEF Straight
<1>3. ASSUME NEW d \in Devices \ {c}
      PROVE  Follows(d)'
  <2>1. bundle' = bundle \/ run[d].op # "approve"
    BY DEF SyncInv, EngineSound, Shape
  <2> QED
    BY <1>1, <2>1, StillFollows DEF Straight
<1> QED
  BY <1>2, <1>3 DEF Straight

\* An engine at rest, or about to verify, follows the relay in what it keeps.
LEMMA Unread ==
  ASSUME NEW c \in Devices, Keeps(c)', run'[c].pc \in {"idle", "head"}, run'[c].seen = <<>>
  PROVE  Follows(c)'
<1>1. At(<<>>) = Genesis
  BY DEF At
<1> QED
  BY <1>1 DEF Follows, Advertised, Tabled, Reads, Listed, Settled, Contains, Genesis

\* What _write_state keeps is part of what the relay holds.
LEMMA KeepsOn ==
  ASSUME SyncInv, NEW c \in Devices, Follows(c), UNCHANGED <<chain, table>>, NEW p,
         UNCHANGED sidecar \/ (WriteState(c, p) /\ run[c].pc \in Listed)
  PROVE  Keeps(c)' /\ \A d \in Devices \ {c} : trust'[d] = trust[d] /\ known'[d] = known[d]
<1>1. CASE UNCHANGED sidecar
  BY <1>1 DEF sidecar, Follows, Keeps, Anchor
<1>2. CASE WriteState(c, p) /\ run[c].pc \in Listed
  <2>1. /\ trust'[c] = run[c].seen /\ known'[c] = known[c] \cup Shown(run[c].table)
        /\ \A d \in Devices \ {c} : trust'[d] = trust[d] /\ known'[d] = known[d]
    BY <1>2 DEF WriteState, SyncInv, TypeOK
  <2>2. Shown(run[c].table) \subseteq Shown(table)
    BY <1>2, ForwardShows DEF Follows, Tabled
  <2> QED
    BY <2>1, <2>2 DEF Follows, Keeps, Reads, Anchor
<1> QED
  BY <1>1, <1>2

\* An operation that goes on with the chain it verified.
LEMMA Onward ==
  ASSUME SyncInv, TypeOK', Straight, NEW c \in Devices, run[c].pc \in Settled \ {"own"},
         run'[c].pc \in {"save", "append", "post"}, run'[c].seen = run[c].seen,
         run'[c].table = run[c].table, run'[c].op = run[c].op, run'[c].head = run[c].head,
         run'[c].target = run[c].target, \A d \in Devices \ {c} : run'[d] = run[d],
         UNCHANGED <<chain, table, joined, bundle>>, NEW p,
         UNCHANGED sidecar \/ WriteState(c, p)
  PROVE  Straight'
<1>1. Follows(c)
  BY DEF Straight
<1>2. run[c].pc \in Listed /\ run[c].pc \notin {"idle", "head"} /\ run'[c].pc \in Listed
  BY DEF Listed, Settled
<1>3. Keeps(c)' /\ \A d \in Devices \ {c} : trust'[d] = trust[d] /\ known'[d] = known[d]
  BY <1>1, <1>2, KeepsOn
<1>4. trust'[c] = trust[c] \/ trust'[c] = run[c].seen
  BY DEF WriteState, SyncInv, TypeOK, sidecar
<1>5. run[c].head.seq = Len(run[c].seen) /\ Len(run[c].seen) \in Nat
  <2>1. run[c].head = At(run[c].seen)
    BY DEF SyncInv, EngineSound, Settles
  <2> QED
    BY <1>1, <2>1, OnTheLog, EndOfLog
<1>6. Advertised(c)'
  BY <1>1, <1>2, <1>4, <1>5 DEF Follows, Advertised
<1>7. Tabled(c)' /\ Reads(c)'
  BY <1>1, <1>2 DEF Follows, Tabled, Reads
<1> QED
  BY <1>3, <1>6, <1>7, EngineMoves DEF Follows

\* An operation that ends, or begins to verify again.
LEMMA Leaves ==
  ASSUME SyncInv, TypeOK', Straight, NEW c \in Devices,
         run'[c].pc \in {"idle", "head"}, run'[c].seen = <<>>,
         \A d \in Devices \ {c} : run'[d] = run[d],
         UNCHANGED <<chain, table, joined>>,
         bundle' = bundle \/ (c = Root /\ \A d \in Devices : bundle'[d] = bundle[d]
                                                            \/ Contains(chain, bundle'[d])),
         NEW p, UNCHANGED sidecar \/ (WriteState(c, p) /\ run[c].pc \in Listed)
  PROVE  Straight'
<1>1. Follows(c)
  BY DEF Straight
<1>2. Keeps(c)' /\ \A d \in Devices \ {c} : trust'[d] = trust[d] /\ known'[d] = known[d]
  BY <1>1, KeepsOn
<1> QED
  BY <1>2, Unread, EngineMoves

-----------------------------------------------------------------------------
(* The steps of an engine *)

LEMMA RestStraight ==
  ASSUME SyncInv, TypeOK', Straight, NEW c \in Devices, End(c), UNCHANGED <<chain, table, joined>>,
         bundle' = bundle \/ (c = Root /\ \A d \in Devices : bundle'[d] = bundle[d]
                                                            \/ Contains(chain, bundle'[d])),
         NEW p, UNCHANGED sidecar \/ (WriteState(c, p) /\ run[c].pc \in Listed)
  PROVE  Straight'
<1>1. run'[c] = Idle /\ \A d \in Devices \ {c} : run'[d] = run[d]
  BY Ends DEF SyncInv, TypeOK
<1>2. run'[c].pc = "idle" /\ run'[c].seen = <<>>
  BY <1>1 DEF Idle
<1> QED
  BY <1>1, <1>2, Leaves

LEMMA AgainStraight ==
  ASSUME SyncInv, TypeOK', Straight, NEW c \in Devices, Reread(c) \/ Retry(c),
         UNCHANGED <<chain, table, joined, bundle, trust, known, intent>>
  PROVE  Straight'
<1>1. (\A d \in Devices \ {c} : run'[d] = run[d])
      /\ run'[c].pc \in {"idle", "head"} /\ run'[c].seen = <<>>
  BY RereadTyped DEF SyncInv, TypeOK, Idle
<1> QED
  BY <1>1, Leaves DEF sidecar

LEMMA GetHeadStraight ==
  ASSUME SyncInv, TypeOK', Straight, NEW c \in Devices, GetHead(c)
  PROVE  Straight'
<1>1. UNCHANGED <<chain, table, joined, bundle, trust, known>> /\ run[c].pc = "head"
  BY DEF GetHead, relay, admission, sidecar
<1>2. /\ \A d \in Devices \ {c} : run'[d] = run[d]
      /\ run'[c].pc = "devices" /\ run'[c].head = At(chain) /\ run'[c].seen = run[c].seen
      /\ run'[c].op = run[c].op /\ run'[c].target = run[c].target
  BY DEF GetHead, Continue, SyncInv, TypeOK, Run
<1>3. Follows(c) /\ Shape(c) /\ run[c].target \in Devices
  BY DEF Straight, SyncInv, EngineSound, TypeOK, Run
<1>4. /\ chain \in Seq(Commit) /\ Len(chain) \in Nat /\ At(chain).seq = Len(chain)
      /\ Anchor(c).seq = Len(trust[c]) /\ Len(trust[c]) \in Nat
  BY <1>3, OnTheLog, EndOfLog
<1>5. Contains(chain, At(chain)) /\ (At(chain).seq = 0 => At(chain) = Genesis)
  BY <1>4, EndOfLog DEF Contains
<1>6. Len(trust[c]) <= Len(chain)
  BY <1>3, <1>4 DEF Follows, Keeps, Contains
<1>7. joined[c].seq <= Len(chain)
  <2>1. joined[c] # NoCheckpoint
    BY <1>1, <1>3 DEF Shape, Idle
  <2>2. CASE c = Root
    BY <1>4, <2>2 DEF Straight, Admissions, Genesis
  <2>3. CASE c # Root
    <3>1. Contains(chain, joined[c])
      BY <2>1, <2>3 DEF Straight, Admissions
    <3>2. joined[c].seq \in Nat
      BY <2>1, SyncAssumption DEF SyncInv, TypeOK, Checkpoint
    <3> QED
      BY <1>4, <3>1, <3>2 DEF Contains
  <2> QED
    BY <2>2, <2>3
<1>8. run[c].op = "approve" => bundle[run[c].target].seq <= Len(chain)
  <2>1. ASSUME bundle[run[c].target] # NoCheckpoint
        PROVE  bundle[run[c].target].seq <= Len(chain)
    <3>1. Contains(chain, bundle[run[c].target])
      BY <1>3, <2>1 DEF Straight, Admissions
    <3>2. bundle[run[c].target].seq \in Nat
      BY <1>3, <2>1, SyncAssumption DEF SyncInv, TypeOK, Checkpoint
    <3> QED
      BY <1>4, <3>1, <3>2 DEF Contains
  <2> QED
    BY <1>3, <2>1 DEF Shape
<1>9. Advertised(c)'
  BY <1>1, <1>2, <1>4, <1>5, <1>6, <1>7, <1>8 DEF Advertised
<1>10. Keeps(c)' /\ Tabled(c)' /\ Reads(c)'
  BY <1>1, <1>2, <1>3 DEF Follows, Keeps, Tabled, Reads, Anchor, Listed, Settled
<1> QED
  BY <1>1, <1>2, <1>9, <1>10, EngineMoves DEF Follows

LEMMA ListDevicesStraight ==
  ASSUME SyncInv, TypeOK', Straight, NEW c \in Devices, ListDevices(c)
  PROVE  Straight'
<1>1. UNCHANGED <<chain, table, joined, bundle, trust, known>> /\ UNCHANGED sidecar /\ run[c].pc = "devices"
  BY DEF ListDevices, relay, admission, sidecar
<1>2. CASE Alarm(c, "table") \/ Alarm(c, "chain")
  BY <1>1, <1>2, RestStraight DEF Alarm
<1>3. ASSUME NEW l \in {"commit", "done"}, l = "commit" => run[c].head # Genesis,
             Continue(c, [[run[c] EXCEPT !.table = table] EXCEPT !.pc = l])
      PROVE  Straight'
  <2>1. /\ \A d \in Devices \ {c} : run'[d] = run[d]
        /\ run'[c].pc = l /\ run'[c].head = run[c].head /\ run'[c].seen = run[c].seen
        /\ run'[c].op = run[c].op /\ run'[c].target = run[c].target /\ run'[c].table = table
    BY <1>3 DEF Continue, SyncInv, TypeOK, Run
  <2>2. Follows(c)
    BY DEF Straight
  <2>3. /\ run[c].head.seq \in Nat /\ Len(chain) \in Nat /\ DOMAIN chain = 1..Len(chain)
    BY <2>2, OnTheLog
  <2>4. Keeps(c)' /\ Advertised(c)' /\ Contains(chain, run[c].head)
    BY <1>1, <1>3, <2>1, <2>2 DEF Follows, Keeps, Advertised, Anchor
  <2>5. \A k \in 1..run[c].head.seq : chain[k].author \in Enrolled(table)
    BY <2>3, <2>4 DEF Contains, Straight, Admissions
  <2>6. Tabled(c)'
    BY <1>1, <2>1, <2>5, ForwardItself DEF Tabled
  <2>7. l = "commit" => run[c].head.seq > 0
    BY <1>1, <1>3, <2>2, <2>3 DEF Follows, Advertised
  <2>8. Reads(c)'
    BY <1>1, <1>3, <2>1, <2>2, <2>7 DEF Follows, Reads
  <2> QED
    BY <1>1, <2>1, <2>4, <2>6, <2>8, EngineMoves DEF Follows
<1> QED
  BY <1>2, <1>3 DEF ListDevices

LEMMA GetCommitStraight ==
  ASSUME SyncInv, TypeOK', Straight, NEW c \in Devices, GetCommit(c)
  PROVE  Straight'
<1>1. UNCHANGED <<chain, table, joined, bundle, trust, known>> /\ UNCHANGED sidecar /\ run[c].pc = "commit"
  BY DEF GetCommit, relay, admission, sidecar
<1>2. CASE End(c)
  BY <1>1, <1>2, RestStraight
<1>3. CASE Continue(c, [run[c] EXCEPT !.pc = "history"])
  <2>1. /\ \A d \in Devices \ {c} : run'[d] = run[d]
        /\ run'[c].pc = "history" /\ run'[c].head = run[c].head /\ run'[c].seen = run[c].seen
        /\ run'[c].op = run[c].op /\ run'[c].target = run[c].target /\ run'[c].table = run[c].table
    BY <1>3 DEF Continue, SyncInv, TypeOK, Run
  <2>2. Follows(c) /\ run[c].seen = <<>>
    BY <1>1 DEF Straight, SyncInv, EngineSound, Shape
  <2>3. Keeps(c)' /\ Advertised(c)' /\ Tabled(c)' /\ Reads(c)'
    BY <1>1, <2>1, <2>2 DEF Follows, Keeps, Advertised, Tabled, Reads, Anchor, Listed
  <2> QED
    BY <1>1, <2>1, <2>3, EngineMoves DEF Follows
<1> QED
  BY <1>2, <1>3 DEF GetCommit, Alarm

\* What starts a log still starts it with the next page.
LEMMA PageOnTheLog ==
  ASSUME NEW t \in Seq(Commit), NEW seen \in Seq(Commit), Starts(seen, t),
         NEW page, page = Page(t, Len(seen), PageSize), NEW s, s = seen \o page
  PROVE  /\ s \in Seq(Commit) /\ Starts(s, t) /\ Len(s) \in Nat
         /\ Len(seen) < Len(t) => page # <<>>
<1>1. PICK n \in Nat : n = Len(seen)
  OBVIOUS
<1>2. n \in 0..Len(t) /\ Len(t) \in Nat /\ \A k \in 1..n : seen[k] = t[k]
  BY <1>1 DEF Starts
<1>3. /\ page \in Seq(Commit) /\ n + Len(page) <= Len(t)
      /\ \A k \in DOMAIN page : page[k] = t[n + k]
      /\ n < Len(t) => page # <<>>
  BY <1>1, <1>2, PageOfLog
<1>4. /\ s \in Seq(Commit) /\ Len(s) = n + Len(page)
      /\ \A k \in 1..n : s[k] = seen[k]
      /\ \A k \in 1..Len(page) : s[n + k] = page[k]
  BY <1>1, <1>3, Joining
<1>5. Len(page) \in Nat /\ DOMAIN page = 1..Len(page)
  BY <1>3
<1>6. ASSUME NEW k \in 1..Len(s) PROVE s[k] = t[k]
  <2>1. CASE k <= n
    BY <2>1, <1>2, <1>4
  <2>2. CASE k > n
    <3>1. k - n \in 1..Len(page) /\ k = n + (k - n)
      BY <1>4, <1>5, <2>2
    <3> QED
      BY <3>1, <1>3, <1>4, <1>5
  <2> QED
    BY <2>1, <2>2
<1> QED
  BY <1>1, <1>2, <1>3, <1>4, <1>5, <1>6 DEF Starts

LEMMA ReadPageStraight ==
  ASSUME SyncInv, TypeOK', Straight, NEW c \in Devices, ReadPage(c)
  PROVE  Straight'
<1> DEFINE page == Page(chain, Len(run[c].seen), PageSize)
           s == run[c].seen \o page
<1>1. UNCHANGED <<chain, table, joined, bundle, trust, known, intent>> /\ UNCHANGED sidecar
      /\ run[c].pc = "history"
  BY DEF ReadPage, relay, admission, sidecar
<1>2. CASE Alarm(c, "chain")
  BY <1>1, <1>2, RestStraight DEF Alarm
<1>3. CASE Reread(c)
  BY <1>1, <1>3, AgainStraight
<1>4. ASSUME NEW l \in {"history", "done"}, l = "history" => Len(s) < run[c].head.seq,
             \/ Continue(c, [run[c] EXCEPT !.seen = s]) /\ l = "history"
             \/ Continue(c, [run[c] EXCEPT !.seen = s, !.pc = "done"]) /\ l = "done"
      PROVE  Straight'
  <2>1. Follows(c)
    BY DEF Straight
  <2>2. s \in Seq(Commit) /\ Starts(s, chain)
    BY <2>1, OnTheLog, PageOnTheLog
  <2> HIDE DEF s
  <2>3. /\ \A d \in Devices \ {c} : run'[d] = run[d]
        /\ run'[c].pc = l /\ run'[c].head = run[c].head /\ run'[c].seen = s
        /\ run'[c].op = run[c].op /\ run'[c].target = run[c].target /\ run'[c].table = run[c].table
    <3>1. run \in [Devices -> Run]
      BY DEF SyncInv, TypeOK
    <3>2. CASE Continue(c, [run[c] EXCEPT !.seen = s]) /\ l = "history"
      BY <1>1, <3>1, <3>2 DEF Continue, Run
    <3>3. CASE Continue(c, [run[c] EXCEPT !.seen = s, !.pc = "done"]) /\ l = "done"
      BY <3>1, <3>3 DEF Continue, Run
    <3> QED
      BY <1>4, <3>2, <3>3
  <2>4. Contains(chain, At(s))
    <3>1. Contains(s, At(s)) /\ At(s).seq \in Nat /\ chain \in Seq(Commit)
      BY <2>1, <2>2, EndOfLog, OnTheLog DEF Contains
    <3> QED
      BY <2>2, <3>1, RunsThroughLonger
  <2>5. Reads(c)'
    BY <1>1, <1>4, <2>3, <2>4 DEF Reads
  <2>6. Keeps(c)' /\ Advertised(c)' /\ Tabled(c)'
    BY <1>1, <1>4, <2>1, <2>3 DEF Follows, Keeps, Advertised, Tabled, Anchor, Listed
  <2> QED
    BY <1>1, <2>3, <2>5, <2>6, EngineMoves DEF Follows
<1>5. \/ Alarm(c, "chain") \/ Reread(c)
      \/ Continue(c, [run[c] EXCEPT !.seen = s]) /\ Len(s) < run[c].head.seq
      \/ Continue(c, [run[c] EXCEPT !.seen = s, !.pc = "done"])
  BY DEF ReadPage
<1> HIDE DEF s
<1> QED
  BY <1>2, <1>3, <1>4, <1>5

LEMMA EndingStraight ==
  ASSUME SyncInv, TypeOK', Straight, NEW c \in Devices,
         Denied(c) \/ RefusePush(c) \/ Fail(c) \/ Status(c) \/ Refresh(c) \/ SaveOwn(c)
         \/ RequireCheckpoint(c)
  PROVE  Straight'
<1>1. End(c) /\ UNCHANGED <<chain, table, joined, bundle>>
  BY DEF Denied, RefusePush, Fail, Status, Refresh, SaveOwn, RequireCheckpoint, Alarm, relay, admission
<1>2. UNCHANGED sidecar \/ (WriteState(c, intent) /\ run[c].pc \in Listed)
  BY DEF Denied, RefusePush, Fail, Status, Refresh, SaveOwn, RequireCheckpoint, Remember, Verified,
     Listed, Settled
<1> QED
  BY <1>1, <1>2, RestStraight

LEMMA WriteBundleStraight ==
  ASSUME SyncInv, TypeOK', Straight, NEW c \in Devices, WriteBundle(c)
  PROVE  Straight'
<1>1. /\ End(c) /\ UNCHANGED <<chain, table, joined>> /\ run[c].pc = "done" /\ run[c].op = "invite"
      /\ UNCHANGED sidecar \/ WriteState(c, intent)
      /\ bundle' = [bundle EXCEPT ![run[c].target] = At(run[c].seen)]
  BY DEF WriteBundle, Remember, Verified, relay
<1>2. c = Root /\ Contains(chain, At(run[c].seen)) /\ run[c].pc \in Listed
  BY <1>1 DEF SyncInv, EngineSound, Shape, Straight, Follows, Reads, Listed, Settled
<1>3. \A d \in Devices : bundle'[d] = bundle[d] \/ Contains(chain, bundle'[d])
  BY <1>1, <1>2 DEF SyncInv, TypeOK
<1> QED
  BY <1>1, <1>2, <1>3, RestStraight

LEMMA OnwardStraight ==
  ASSUME SyncInv, TypeOK', Straight, NEW c \in Devices,
         Merge(c) \/ Save(c) \/ First(c) \/ PrepareRevoke(c) \/ ResumeRevoke(c)
  PROVE  Straight'
<1>1. UNCHANGED <<chain, table, joined, bundle>> /\ run[c].pc \in Settled \ {"own"} /\ run[c].pc \in Listed
  BY DEF Merge, Save, First, PrepareRevoke, ResumeRevoke, relay, admission, Applies, Settled, Listed
<1>2. UNCHANGED sidecar \/ WriteState(c, intent')
  BY DEF Merge, Save, First, PrepareRevoke, ResumeRevoke, WriteState, sidecar
<1>3. CASE End(c)
  BY <1>1, <1>2, <1>3, RestStraight
<1>4. ASSUME NEW pc \in {"save", "append", "post"}, NEW draft, NEW changed,
             \/ Continue(c, [run[c] EXCEPT !.pc = pc])
             \/ Continue(c, [run[c] EXCEPT !.pc = pc, !.draft = draft])
             \/ Continue(c, [run[c] EXCEPT !.pc = pc, !.draft = draft, !.changed = changed])
      PROVE  Straight'
  <2>1. run \in [Devices -> Run]
    BY DEF SyncInv, TypeOK
  <2>2. /\ \A d \in Devices \ {c} : run'[d] = run[d]
        /\ run'[c].pc = pc /\ run'[c].head = run[c].head /\ run'[c].seen = run[c].seen
        /\ run'[c].op = run[c].op /\ run'[c].target = run[c].target /\ run'[c].table = run[c].table
    <3>1. CASE Continue(c, [run[c] EXCEPT !.pc = pc])
      BY <2>1, <3>1 DEF Continue, Run
    <3>2. CASE Continue(c, [run[c] EXCEPT !.pc = pc, !.draft = draft])
      BY <2>1, <3>2 DEF Continue, Run
    <3>3. CASE Continue(c, [run[c] EXCEPT !.pc = pc, !.draft = draft, !.changed = changed])
      BY <2>1, <3>3 DEF Continue, Run
    <3> QED
      BY <1>4, <3>1, <3>2, <3>3
  <2> QED
    BY <1>1, <1>2, <2>2, Onward
<1>5. CASE Merge(c)
  BY <1>4, <1>5 DEF Merge
<1>6. CASE Save(c)
  BY <1>3, <1>4, <1>6 DEF Save
<1>7. CASE First(c)
  BY <1>3, <1>4, <1>7 DEF First
<1>8. CASE PrepareRevoke(c)
  BY <1>3, <1>4, <1>8 DEF PrepareRevoke
<1>9. CASE ResumeRevoke(c)
  BY <1>3, <1>4, <1>9 DEF ResumeRevoke, Alarm
<1> QED
  BY <1>5, <1>6, <1>7, <1>8, <1>9

-----------------------------------------------------------------------------
(* The steps at which the relay moves forward *)

\* A step at which engines are left alone, or begin to verify.
LEMMA RelayMoves ==
  ASSUME SyncInv, TypeOK', Straight, UNCHANGED <<chain, trust, known, bundle>>,
         Forward(table, table'),
         \A d \in Enrolled(table') \ Enrolled(table) : Contains(chain, table'[d].admit),
         \A d \in Devices : \/ joined'[d] = joined[d]
                            \/ /\ d # Root /\ d \in Enrolled(table) /\ joined'[d] = table[d].admit
                               /\ run[d].pc = "idle",
         \A d \in Devices : run'[d] = run[d] \/ (run'[d].pc \in {"head", "idle"} /\ run'[d].seen = <<>>)
  PROVE  Straight'
<1>1. chain \in Seq(Commit) /\ Starts(chain, chain')
  BY StartsItself DEF SyncInv, TypeOK
<1>2. Admissions'
  BY <1>1, AdmissionsKept DEF Straight
<1>3. ASSUME NEW d \in Devices
      PROVE  Follows(d)'
  <2>1. CASE run'[d] = run[d]
    BY <1>1, <2>1, StillFollows DEF Straight
  <2>2. CASE run'[d].pc \in {"head", "idle"} /\ run'[d].seen = <<>>
    <3>1. Keeps(d)'
      BY ForwardShows DEF Straight, Follows, Keeps, Anchor
    <3> QED
      BY <2>2, <3>1, Unread
  <2> QED
    BY <2>1, <2>2
<1> QED
  BY <1>2, <1>3 DEF Straight

\* Invitations and claims move the table forward, and enrol nobody.
LEMMA InvitationForward ==
  ASSUME NEW t \in [Devices -> Row], NEW d \in Devices, NEW u,
         \/ u = t
         \/ t[d].st \in {"unknown", "invited"} /\ u = Invited(t, d)
         \/ u = Claimed(t, d)
  PROVE  Forward(t, u) /\ Enrolled(u) = Enrolled(t)
<1>1. CASE u = t
  BY <1>1 DEF Forward
<1>2. CASE t[d].st \in {"unknown", "invited"} /\ u = Invited(t, d)
  <2>1. u \in [Devices -> Row] /\ u[d].st = "invited" /\ \A x \in Devices \ {d} : u[x] = t[x]
    BY <1>2 DEF Invited, Row
  <2> QED
    BY <1>2, <2>1 DEF Forward, Enrolled
<1>3. CASE u = Claimed(t, d)
  <2>1. u = t \/ (t[d].st = "invited" /\ u[d].st = "pending" /\ \A x \in Devices \ {d} : u[x] = t[x])
    BY <1>3 DEF Claimed, Row
  <2> QED
    BY <2>1, <1>1 DEF Forward, Enrolled
<1> QED
  BY <1>1, <1>2, <1>3

\* An approval enrols one device, at the checkpoint it names.
LEMMA ApprovalForward ==
  ASSUME NEW t \in [Devices -> Row], NEW d \in Devices, NEW k \in Checkpoint,
         NEW u, u = Approved(t, d, k)
  PROVE  Forward(t, u) /\ \A x \in Enrolled(u) \ Enrolled(t) : x = d /\ u[x].admit = k
<1>1. u = t \/ (t[d].st = "pending" /\ u[d] = Membership(k) /\ \A x \in Devices \ {d} : u[x] = t[x])
  BY DEF Approved
<1>2. Membership(k).admit = k
  BY DEF Membership
<1> QED
  BY <1>1, <1>2 DEF Forward, Enrolled

\* So does a revocation, for a device that is active.
LEMMA RevocationForward ==
  ASSUME NEW t \in [Devices -> Row], NEW e \in Evidence, t[e.dev].st = "active",
         NEW u, u = Revoked(t, e)
  PROVE  Forward(t, u) /\ Enrolled(u) = Enrolled(t)
<1>1. /\ e.dev \in Devices /\ u[e.dev].st = "revoked" /\ u[e.dev].admit = t[e.dev].admit
      /\ \A x \in Devices \ {e.dev} : u[x] = t[x]
  BY DEF Revoked, Evidence, Row
<1> QED
  BY <1>1 DEF Forward, Enrolled

LEMMA StartStraight ==
  ASSUME SyncInv, TypeOK', Straight, NEW c \in Devices,
         StartSync(c) \/ StartInvite(c) \/ StartApprove(c) \/ StartRevoke(c)
  PROVE  Straight'
<1>1. ASSUME NEW b \in Devices, NEW op, NEW d \in Devices, Start(b, op, d),
             table' = table \/ (table[c].st \in {"unknown", "invited"} /\ table' = Invited(table, c))
      PROVE  Straight'
  <2>1. UNCHANGED <<chain, trust, known, bundle, joined>>
    BY <1>1 DEF Start, sidecar, admission
  <2>2. \A x \in Devices : run'[x] = run[x] \/ (run'[x].pc \in {"head", "idle"} /\ run'[x].seen = <<>>)
    BY <1>1 DEF Start, Continue, Fresh, Idle, SyncInv, TypeOK
  <2>3. Forward(table, table') /\ Enrolled(table') = Enrolled(table)
    BY <1>1, InvitationForward DEF SyncInv, TypeOK
  <2> QED
    BY <2>1, <2>2, <2>3, RelayMoves
<1> QED
  BY <1>1, SyncAssumption DEF StartSync, StartInvite, StartApprove, StartRevoke

LEMMA MemberStraight ==
  ASSUME SyncInv, TypeOK', Straight, NEW d \in Devices,
         ClaimInvite(d) \/ ApproveInvite(d) \/ Finish(d) \/ Edit(d)
  PROVE  Straight'
<1>0. UNCHANGED <<chain, trust, known, bundle, run>> /\ table \in [Devices -> Row]
  BY DEF ClaimInvite, ApproveInvite, Finish, Edit, relay, sidecar, admission, SyncInv, TypeOK
<1>1. CASE Edit(d)
  BY <1>0, <1>1, RelayMoves, ForwardItself DEF Edit, relay, admission
<1>2. CASE ClaimInvite(d)
  <2>1. Forward(table, table') /\ Enrolled(table') = Enrolled(table)
    BY <1>0, <1>2, InvitationForward DEF ClaimInvite
  <2> QED
    BY <1>0, <1>2, <2>1, RelayMoves DEF ClaimInvite, admission
<1>3. CASE ApproveInvite(d)
  <2>1. bundle[d] # NoCheckpoint /\ bundle[d] \in Checkpoint /\ Contains(chain, bundle[d])
    BY <1>3 DEF ApproveInvite, SyncInv, RootSound, TypeOK, Straight, Admissions
  <2>2. table' = table \/ table' = Approved(table, d, bundle[d])
    BY <1>3 DEF ApproveInvite
  <2>3. Forward(table, table')
        /\ \A x \in Enrolled(table') \ Enrolled(table) : table'[x].admit = bundle[d]
    BY <1>0, <2>1, <2>2, ApprovalForward, ForwardItself
  <2> QED
    BY <1>0, <1>3, <2>1, <2>3, RelayMoves DEF ApproveInvite
<1>4. CASE Finish(d)
  <2>1. d # Root /\ run[d].pc = "idle"
    BY <1>4 DEF Finish, Straight, Admissions, SyncInv, EngineSound, Shape, Idle, Genesis, NoCheckpoint
  <2>2. d \in Enrolled(table) /\ joined' = [joined EXCEPT ![d] = table[d].admit]
    BY <1>4 DEF Finish, ApprovalAt, ActiveIn, Enrolled
  <2>3. \A x \in Devices : \/ joined'[x] = joined[x]
                           \/ /\ x # Root /\ x \in Enrolled(table) /\ joined'[x] = table[x].admit
                              /\ run[x].pc = "idle"
    BY <2>1, <2>2 DEF SyncInv, TypeOK
  <2> QED
    BY <1>0, <1>4, <2>3, RelayMoves, ForwardItself DEF Finish, relay
<1> QED
  BY <1>1, <1>2, <1>3, <1>4

LEMMA PostRevokeStraight ==
  ASSUME SyncInv, TypeOK', Straight, NEW c \in Devices, PostRevoke(c)
  PROVE  Straight'
<1>1. UNCHANGED <<chain, trust, known, intent, bundle, joined>> /\ UNCHANGED sidecar
      /\ run[c].pc = "post"
  BY DEF PostRevoke, sidecar, admission
<1>2. CASE Retry(c) /\ UNCHANGED table
  BY <1>1, <1>2, AgainStraight
<1>3. CASE End(c) /\ UNCHANGED table
  BY <1>1, <1>3, RestStraight
<1>4. ASSUME RevokeAnswer(chain, table, run[c].target, run[c].head) = "stored",
             NEW e \in intent, table' = Revoked(table, e),
             Continue(c, [Fresh(run[c]) EXCEPT !.acked = TRUE, !.reads = 0])
      PROVE  Straight'
  <2>1. run[c].op = "revoke" /\ e.dev = run[c].target /\ e \in Evidence
    BY <1>1 DEF SyncInv, EngineSound, Shape, TypeOK
  <2>2. table[e.dev].st = "active"
    BY <1>4, <2>1 DEF RevokeAnswer
  <2>3. Forward(table, table') /\ Enrolled(table') = Enrolled(table)
    BY <1>4, <2>1, <2>2, RevocationForward DEF SyncInv, TypeOK
  <2>4. \A x \in Devices : run'[x] = run[x] \/ (run'[x].pc \in {"head", "idle"} /\ run'[x].seen = <<>>)
    BY <1>4 DEF Continue, Fresh, SyncInv, TypeOK, Run
  <2> QED
    BY <1>1, <2>3, <2>4, RelayMoves
<1> QED
  BY <1>2, <1>3, <1>4 DEF PostRevoke

LEMMA AppendCommitStraight ==
  ASSUME SyncInv, TypeOK', Straight, NEW c \in Devices, AppendCommit(c)
  PROVE  Straight'
<1> DEFINE s == run[c].seen
           x == SignedCommit(ids + 1, s, c, run[c].draft)
<1>1. UNCHANGED <<table, trust, known, intent, bundle, joined>> /\ UNCHANGED sidecar
      /\ run[c].pc = "append"
  BY DEF AppendCommit, sidecar, admission
<1>2. CASE Retry(c) /\ UNCHANGED chain
  BY <1>1, <1>2, AgainStraight
<1>3. CASE End(c) /\ UNCHANGED chain
  BY <1>1, <1>3, RestStraight
<1>4. ASSUME AppendAnswer(chain, table, c, At(s), Authenticated(c)) = "stored",
             chain' = Append(chain, x),
             Continue(c, [run[c] EXCEPT !.pc = "own", !.seen = Append(s, x)])
      PROVE  Straight'
  <2>1. At(chain) = At(s) /\ c \in Enrolled(table)
    BY <1>4 DEF AppendAnswer, ActiveIn, Enrolled
  <2>2. chain = s /\ Follows(c)
    BY <2>1, HeadUnmoved DEF Straight
  <2>3. x.author = c /\ x.parent = At(chain).id
    BY <2>1 DEF SignedCommit
  <2> HIDE DEF x
  <2>4. /\ chain \in Seq(Commit) /\ Len(chain) \in Nat /\ chain' \in Seq(Commit)
        /\ DOMAIN chain = 1..Len(chain)
    BY <2>2, OnTheLog DEF TypeOK
  <2>5. /\ Len(chain') = Len(chain) + 1 /\ chain'[Len(chain) + 1] = x
        /\ DOMAIN chain' = 1..Len(chain) + 1
        /\ \A k \in 1..Len(chain) : chain'[k] = chain[k]
    BY <1>4, <2>4
  <2>6. Starts(chain, chain') /\ Forward(table, table')
    BY <1>1, <2>4, <2>5, ForwardItself DEF Starts
  <2>7. \A k \in DOMAIN chain' \ DOMAIN chain : chain'[k].author \in Enrolled(table)
    BY <2>1, <2>3, <2>4, <2>5
  <2>8. chain = <<>> => chain'[1].parent = 0
    BY <2>3, <2>5 DEF At, Genesis
  <2>9. Admissions'
    BY <1>1, <2>4, <2>6, <2>7, <2>8, AdmissionsKept DEF Straight
  <2>10. /\ \A d \in Devices \ {c} : run'[d] = run[d]
         /\ run'[c].pc = "own" /\ run'[c].head = run[c].head /\ run'[c].seen = chain'
         /\ run'[c].op = run[c].op /\ run'[c].target = run[c].target /\ run'[c].table = run[c].table
    <3>1. run \in [Devices -> Run]
      BY DEF SyncInv, TypeOK
    <3> QED
      BY <1>4, <2>2, <3>1 DEF Continue, Run
  <2>11. Keeps(c)' /\ Contains(chain', run[c].head)
    <3>1. Anchor(c).seq \in Nat /\ run[c].head.seq \in Nat /\ Anchor(c)' = Anchor(c)
      BY <1>1, <2>2, OnTheLog DEF Anchor
    <3>2. Contains(chain, Anchor(c)) /\ Contains(chain, run[c].head)
      BY <1>1, <2>2 DEF Follows, Keeps, Advertised
    <3>3. Contains(chain', Anchor(c)) /\ Contains(chain', run[c].head)
      BY <2>4, <2>6, <3>1, <3>2, RunsThroughLonger
    <3> QED
      BY <1>1, <2>2, <3>1, <3>3 DEF Follows, Keeps
  <2>12. Advertised(c)'
    BY <1>1, <2>2, <2>10, <2>11 DEF Follows, Advertised
  <2>13. Tabled(c)'
    <3>1. \A k \in 1..run[c].head.seq : chain'[k] = chain[k]
      <4>1. run[c].head.seq \in Nat /\ Contains(chain, run[c].head)
        BY <1>1, <2>2, OnTheLog DEF Follows, Advertised
      <4> QED
        BY <2>4, <2>5, <4>1 DEF Contains
    <3> QED
      BY <1>1, <2>2, <2>10, <3>1 DEF Follows, Tabled, Listed, Settled
  <2>14. Reads(c)'
    <3>1. Contains(chain', At(chain'))
      BY <2>4, EndOfLog DEF Contains
    <3> QED
      BY <2>10, <3>1 DEF Reads
  <2>15. ASSUME NEW d \in Devices \ {c}
         PROVE  Follows(d)'
    BY <1>1, <2>4, <2>6, <2>10, StillFollows DEF Straight
  <2> QED
    BY <2>9, <2>11, <2>12, <2>13, <2>14, <2>15 DEF Straight, Follows
<1> QED
  BY <1>2, <1>3, <1>4 DEF AppendCommit

LEMMA StepStraight ==
  ASSUME SyncInv, TypeOK', Straight, Next, restores' = restores
  PROVE  Straight'
<1>1. ASSUME NEW c \in Devices, Step(c)
      PROVE  Straight'
  BY <1>1, GetHeadStraight, ListDevicesStraight, GetCommitStraight, ReadPageStraight, EndingStraight,
     WriteBundleStraight, OnwardStraight, AppendCommitStraight, PostRevokeStraight DEF Step
<1>2. ASSUME NEW c \in Devices, StartSync(c) \/ StartInvite(c) \/ StartApprove(c) \/ StartRevoke(c)
      PROVE  Straight'
  BY <1>2, StartStraight
<1>3. ASSUME NEW c \in Devices, ClaimInvite(c) \/ ApproveInvite(c) \/ Finish(c) \/ Edit(c) \/ Fail(c)
      PROVE  Straight'
  BY <1>3, MemberStraight, EndingStraight
<1>4. CASE BackUp
  BY <1>4, RelayMoves, ForwardItself DEF BackUp, sidecar, admission
<1>5. ~Restore
  BY DEF Restore, SyncInv, TypeOK
<1> QED
  BY <1>1, <1>2, <1>3, <1>4, <1>5 DEF Next

-----------------------------------------------------------------------------
(* No false alarm *)

\* What c trusts of a table, unless it resumes a revocation.
LEMMA TableAccepted ==
  ASSUME SyncInv, Straight, NEW c \in Devices, run[c] # Idle, Pending(c) = {}
  PROVE  TableTrusted(c, table)
<1>1. c \in Enrolled(table)
  BY DEF SyncInv, EngineSound, Shape, Straight, Admissions
<1> QED
  BY <1>1 DEF SyncInv, RelaySound, Straight, Follows, Keeps, TableTrusted

\* A commit of the log is trusted where the table covers its author.
LEMMA CommitAccepted ==
  ASSUME SyncInv, Straight, NEW c \in Devices, run[c].pc \in Listed, Pending(c) = {},
         NEW s \in Seq(Commit), Starts(s, chain), NEW k \in DOMAIN s, k <= run[c].head.seq
  PROVE  CommitTrusted(c, run[c].table, s, k)
<1> DEFINE t == run[c].table
           a == s[k].author
<1>1. Follows(c)
  BY DEF Straight
<1>2. /\ chain \in Seq(Commit) /\ Len(chain) \in Nat /\ DOMAIN chain = 1..Len(chain) /\ Linked(chain)
  BY <1>1, OnTheLog, LogsInUse DEF SyncInv, SoundLog
<1>3. /\ Len(s) \in Nat /\ Len(s) <= Len(chain) /\ k \in 1..Len(s) /\ k \in DOMAIN chain
      /\ s[k] = chain[k] /\ \A j \in 1..Len(s) : s[j] = chain[j]
  BY <1>2 DEF Starts
<1>4. a \in Enrolled(t) /\ Forward(t, table)
  BY <1>1, <1>3 DEF Follows, Tabled
<1>5. s[k].parent = At(SubSeq(s, 1, k - 1)).id
  <2>1. CASE k = 1
    <3>1. SubSeq(s, 1, 0) = <<>> /\ chain # <<>>
      BY <1>2, <1>3
    <3> QED
      BY <1>3, <2>1, <3>1 DEF Straight, Admissions, At, Genesis
  <2>2. CASE k # 1
    <3>1. k - 1 \in 1..Len(s) /\ k \in 2..Len(chain)
      BY <1>3, <2>2
    <3>2. At(SubSeq(s, 1, k - 1)).id = s[k - 1].id
      BY <3>1, EndOfPart
    <3>3. chain[k].parent = chain[k - 1].id
      BY <1>2, <3>1 DEF Linked
    <3> QED
      BY <1>3, <3>1, <3>2, <3>3
  <2> QED
    BY <2>1, <2>2
<1>6. a # Root => k > t[a].admit.seq
  BY <1>3, <1>4, ForwardShows DEF Straight, Admissions
<1>7. \A e \in Binding(c, t) : e.dev = a => k <= e.cut.seq
  BY <1>3, <1>4, ForwardShows DEF Binding, SyncInv, RelaySound, CutOff
<1> QED
  BY <1>4, <1>5, <1>6, <1>7 DEF CommitTrusted, RecordTrusted, SignatureHolds

\* The whole log is trusted.
LEMMA ChainAccepted ==
  ASSUME SyncInv, Straight, NEW c \in Devices, run[c].pc \in Listed, Pending(c) = {}
  PROVE  ChainTrusted(c, run[c].table, chain)
<1> DEFINE t == run[c].table
<1>1. Forward(t, table)
  BY DEF Straight, Follows, Tabled
<1>2. Contains(chain, Anchor(c))
  BY DEF Straight, Follows, Keeps
<1>3. Contains(chain, joined[c])
  <2>1. joined[c] # NoCheckpoint
    BY DEF SyncInv, EngineSound, Shape, Idle, Listed, Settled
  <2>2. c = Root => joined[c].seq = 0
    BY DEF Straight, Admissions, Genesis
  <2> QED
    BY <2>1, <2>2 DEF Straight, Admissions, Contains
<1>4. \A d \in Enrolled(t) \ {Root} : Contains(chain, t[d].admit)
  BY <1>1, ForwardShows DEF Straight, Admissions
<1>5. \A e \in Binding(c, t) : Contains(chain, e.cut)
  BY <1>1, ForwardShows DEF Binding, SyncInv, RelaySound, CutOff
<1> QED
  BY <1>2, <1>3, <1>4, <1>5 DEF ChainTrusted

\* The two situations in which an engine may fail to trust a sound relay.
Excused(c) == run[c].head = Genesis \/ (run[c].op = "revoke" /\ intent # {})

\* Everything else that raises an alarm accepts what it sees.
LEMMA ListDevicesAccepts ==
  ASSUME SyncInv, Straight, NEW c \in Devices, ListDevices(c), ~Excused(c)
  PROVE  UNCHANGED alarms
<1>1. run[c] # Idle /\ Pending(c) = {}
  BY DEF ListDevices, Idle, Excused, Pending
<1>2. TableTrusted(c, table)
  BY <1>1, TableAccepted
<1> QED
  BY <1>2 DEF ListDevices, Excused, NoAlarm

LEMMA GetCommitAccepts ==
  ASSUME SyncInv, Straight, NEW c \in Devices, GetCommit(c)
  PROVE  UNCHANGED alarms
<1>1. run[c].pc = "commit" /\ run[c].pc \in Listed /\ Follows(c)
  BY DEF GetCommit, Listed, Straight
<1>2. run[c].head.seq \in Nat /\ run[c].head.seq > 0
  BY <1>1, OnTheLog DEF Follows, Reads
<1>3. chain[run[c].head.seq].author \in Enrolled(run[c].table)
  BY <1>1, <1>2 DEF Follows, Tabled
<1> QED
  BY <1>3 DEF GetCommit, RecordTrusted, SignatureHolds, NoAlarm

LEMMA ReadPageAccepts ==
  ASSUME SyncInv, Straight, NEW c \in Devices, ReadPage(c), ~Excused(c)
  PROVE  UNCHANGED alarms
<1> DEFINE r == run[c]
           page == Page(chain, Len(r.seen), PageSize)
           s == r.seen \o page
<1>1. r.pc = "history" /\ r.pc \in Listed /\ Follows(c) /\ Pending(c) = {}
  BY DEF ReadPage, Listed, Straight, Excused, Pending
<1>2. /\ chain \in Seq(Commit) /\ Len(chain) \in Nat /\ r.seen \in Seq(Commit) /\ Starts(r.seen, chain)
      /\ r.head.seq \in Nat
  BY <1>1, OnTheLog
<1>3. Len(r.seen) < r.head.seq /\ r.head.seq <= Len(chain)
  BY <1>1, <1>2 DEF Follows, Reads, Advertised, Contains
<1>4. s \in Seq(Commit) /\ Starts(s, chain) /\ Len(s) \in Nat /\ page # <<>>
  <2>1. Len(r.seen) \in Nat /\ Len(r.seen) < Len(chain)
    BY <1>2, <1>3
  <2> QED
    BY <1>2, <2>1, PageOnTheLog
<1>5. CASE At(chain) # r.head
  BY <1>4, <1>5 DEF ReadPage, NoAlarm
<1>6. CASE At(chain) = r.head
  <2> HIDE DEF page, s
  <2>1. r.head.seq = Len(chain) /\ Len(s) <= Len(chain)
    BY <1>2, <1>4, <1>6, EndOfLog DEF Starts
  <2>2. \A k \in Len(r.seen) + 1 .. Len(s) : k \in DOMAIN s /\ k <= r.head.seq
    BY <1>2, <1>4, <2>1
  <2>3. \A k \in Len(r.seen) + 1 .. Len(s) : CommitTrusted(c, r.table, s, k)
    BY <1>1, <1>4, <2>2, CommitAccepted
  <2>4. ~(Len(s) < r.head.seq) => s = chain
    <3> SUFFICES ASSUME ~(Len(s) < r.head.seq)
                 PROVE  s = chain
      OBVIOUS
    <3>1. Starts(chain, s)
      BY <1>2, <1>4, <2>1 DEF Starts
    <3> QED
      BY <1>4, <3>1, StartsBoth
  <2>5. ~(Len(s) < r.head.seq) => ChainTrusted(c, r.table, s)
    BY <1>1, <2>4, ChainAccepted
  <2> QED
    BY <1>4, <1>6, <2>3, <2>5 DEF ReadPage, NoAlarm, s, page
<1> QED
  BY <1>5, <1>6

LEMMA RequireCheckpointAccepts ==
  ASSUME SyncInv, Straight, NEW c \in Devices, RequireCheckpoint(c)
  PROVE  UNCHANGED alarms
<1> DEFINE k == bundle[run[c].target]
<1>1. run[c].pc = "done" /\ run[c].op = "approve" /\ Follows(c) /\ EngineSound(c) /\ run[c].target \in Devices
  BY DEF RequireCheckpoint, Verified, Straight, SyncInv, TypeOK, Run
<1>2. k # NoCheckpoint /\ k \in Checkpoint
  BY <1>1 DEF EngineSound, Shape, SyncInv, TypeOK
<1>3. Contains(chain, k) /\ k.seq \in Nat
  BY <1>1, <1>2, SyncAssumption DEF Straight, Admissions, Checkpoint
<1>4. k.seq <= Len(run[c].seen)
  <2>1. run[c].head = At(run[c].seen) /\ k.seq <= run[c].head.seq
    BY <1>1 DEF EngineSound, Settles, Settled, Follows, Advertised
  <2> QED
    BY <1>1, <2>1, OnTheLog, EndOfLog
<1>5. Contains(run[c].seen, k)
  BY <1>1, <1>3, <1>4, OnTheLog, RunsThroughShorter
<1> QED
  BY <1>5 DEF RequireCheckpoint, NoAlarm

\* An alarm is raised by a device that is revoked, or excused, or after a restore.
LEMMA OnlyExcused ==
  ASSUME SyncInv, restores = 0 => Straight, Next
  PROVE  \/ UNCHANGED alarms
         \/ \E c \in Devices : \E why :
              Alarm(c, why) /\ (why = "revoked" \/ Excused(c) \/ restores # 0)
<1>1. ASSUME NEW c \in Devices, Step(c)
      PROVE  UNCHANGED alarms
             \/ \E why : Alarm(c, why) /\ (why = "revoked" \/ Excused(c) \/ restores # 0)
  <2>1. CASE ListDevices(c) \/ ReadPage(c) \/ GetCommit(c) \/ RequireCheckpoint(c)
    <3>1. UNCHANGED alarms \/ Alarm(c, "table") \/ Alarm(c, "chain") \/ Alarm(c, "invitation")
      BY <2>1 DEF ListDevices, ReadPage, GetCommit, RequireCheckpoint, NoAlarm
    <3>2. restores # 0 \/ Excused(c) \/ UNCHANGED alarms
      BY <2>1, ListDevicesAccepts, ReadPageAccepts, GetCommitAccepts, RequireCheckpointAccepts
    <3> QED
      BY <3>1, <3>2
  <2>2. CASE RefusePush(c)
    BY <2>2 DEF RefusePush, NoAlarm
  <2>3. CASE ResumeRevoke(c)
    <3>1. Excused(c)
      BY <2>3 DEF ResumeRevoke, Excused
    <3> QED
      BY <2>3, <3>1 DEF ResumeRevoke, NoAlarm
  <2>4. CASE \/ GetHead(c) \/ Denied(c) \/ Status(c) \/ Refresh(c) \/ WriteBundle(c) \/ Merge(c)
             \/ Save(c) \/ First(c) \/ AppendCommit(c) \/ SaveOwn(c) \/ PrepareRevoke(c) \/ PostRevoke(c)
    BY <2>4 DEF GetHead, Denied, Status, Refresh, WriteBundle, Merge, Save, First, AppendCommit,
       SaveOwn, PrepareRevoke, PostRevoke
  <2> QED
    BY <1>1, <2>1, <2>2, <2>3, <2>4 DEF Step
<1>2. ASSUME NEW c \in Devices, StartSync(c) \/ StartInvite(c) \/ StartApprove(c) \/ StartRevoke(c)
      PROVE  UNCHANGED alarms
  BY <1>2 DEF StartSync, StartInvite, StartApprove, StartRevoke, Start
<1>3. ASSUME NEW c \in Devices, ClaimInvite(c) \/ ApproveInvite(c) \/ Finish(c) \/ Edit(c) \/ Fail(c)
      PROVE  UNCHANGED alarms
  BY <1>3 DEF ClaimInvite, ApproveInvite, Finish, Edit, Fail
<1>4. CASE BackUp \/ Restore
  BY <1>4 DEF BackUp, Restore
<1> QED
  BY <1>1, <1>2, <1>3, <1>4 DEF Next

LEMMA StaysExplained ==
  ASSUME AlarmInv, [Next]_vars
  PROVE  FalseAlarmsExplained'
<1>1. ASSUME NEW c \in Devices, NEW why, Alarm(c, why), why = "revoked" \/ Excused(c) \/ restores # 0
      PROVE  FalseAlarmsExplained'
  <2> DEFINE a == [dev |-> c, why |-> why, empty |-> run[c].head = Genesis,
                   resuming |-> run[c].op = "revoke" /\ intent # {}]
  <2>1. restores = 0 => a.why = "revoked" \/ a.empty \/ a.resuming
    BY <1>1 DEF Excused
  <2>2. alarms' = alarms \/ (restores = 0 /\ alarms' = alarms \cup {a})
    BY <1>1 DEF Alarm, AlarmInv, SyncInv, TypeOK
  <2> HIDE DEF a
  <2> QED
    BY <2>1, <2>2 DEF AlarmInv, FalseAlarmsExplained
<1>2. CASE UNCHANGED alarms
  BY <1>2 DEF AlarmInv, FalseAlarmsExplained
<1> QED
  BY <1>1, <1>2, OnlyExcused DEF AlarmInv, vars

-----------------------------------------------------------------------------
(* The invariant *)

LEMMA RestoresCounted ==
  ASSUME [Next]_vars
  PROVE  Restore \/ restores' = restores
<1> USE DEF counters
<1>1. ASSUME NEW c \in Devices, Step(c)
      PROVE  restores' = restores
  <2>1. CASE \/ GetHead(c) \/ ListDevices(c) \/ GetCommit(c) \/ ReadPage(c) \/ Denied(c) \/ Status(c)
             \/ Refresh(c) \/ WriteBundle(c) \/ RequireCheckpoint(c)
    BY <2>1 DEF GetHead, ListDevices, GetCommit, ReadPage, Denied, Status, Refresh, WriteBundle,
       RequireCheckpoint
  <2>2. CASE \/ RefusePush(c) \/ Merge(c) \/ Save(c) \/ First(c) \/ AppendCommit(c) \/ SaveOwn(c)
             \/ PrepareRevoke(c) \/ ResumeRevoke(c) \/ PostRevoke(c)
    BY <2>2 DEF RefusePush, Merge, Save, First, AppendCommit, SaveOwn, PrepareRevoke, ResumeRevoke,
       PostRevoke
  <2> QED
    BY <1>1, <2>1, <2>2 DEF Step
<1>2. ASSUME NEW c \in Devices, StartSync(c) \/ StartInvite(c) \/ StartApprove(c) \/ StartRevoke(c)
      PROVE  restores' = restores
  BY <1>2 DEF StartSync, StartInvite, StartApprove, StartRevoke, Start
<1>3. ASSUME NEW c \in Devices, ClaimInvite(c) \/ ApproveInvite(c) \/ Finish(c) \/ Edit(c) \/ Fail(c)
      PROVE  restores' = restores
  BY <1>3 DEF ClaimInvite, ApproveInvite, Finish, Edit, Fail
<1>4. CASE BackUp \/ UNCHANGED vars
  BY <1>4 DEF BackUp, vars
<1> QED
  BY <1>1, <1>2, <1>3, <1>4 DEF Next

LEMMA AlarmInit == Init => AlarmInv
<1> SUFFICES ASSUME Init
             PROVE  AlarmInv
  OBVIOUS
<1>1. SyncInv /\ FalseAlarmsExplained
  BY InitInv DEF Init, FalseAlarmsExplained
<1>2. At(<<>>) = Genesis /\ \A s : Contains(s, Genesis)
  BY DEF At, Contains, Genesis
<1>3. Enrolled(table) = Members \cup {Root} /\ \A d \in Enrolled(table) : table[d].admit = Genesis
  BY SyncAssumption DEF Init, NewTable, Enrolled, Membership, Unlisted
<1>4. Admissions
  BY <1>2, <1>3, SyncAssumption DEF Init, Admissions
<1>5. ASSUME NEW c \in Devices
      PROVE  Follows(c)
  BY <1>2 DEF Init, Follows, Keeps, Advertised, Tabled, Reads, Idle, Listed, Settled, Anchor
<1> QED
  BY <1>1, <1>4, <1>5 DEF AlarmInv, Straight

LEMMA AlarmNext == AlarmInv /\ [Next]_vars => AlarmInv'
<1> SUFFICES ASSUME AlarmInv, [Next]_vars
             PROVE  AlarmInv'
  OBVIOUS
<1>1. SyncInv /\ SyncInv' /\ TypeOK'
  BY NextInv DEF AlarmInv, SyncInv
<1>2. FalseAlarmsExplained'
  BY StaysExplained
<1>3. restores' = 0 => Straight'
  <2> SUFFICES ASSUME restores' = 0
               PROVE  Straight'
    OBVIOUS
  <2>1. ~Restore
    BY <1>1 DEF Restore, SyncInv, TypeOK
  <2>2. restores' = restores
    BY <2>1, RestoresCounted
  <2>3. Straight /\ restores = 0
    BY <2>2 DEF AlarmInv
  <2>4. CASE Next
    BY <1>1, <2>2, <2>3, <2>4, StepStraight
  <2>5. CASE UNCHANGED vars
    BY <1>1, <2>3, <2>5, RelayMoves, ForwardItself DEF vars, relay, sidecar, admission
  <2> QED
    BY <2>4, <2>5
<1> QED
  BY <1>1, <1>2, <1>3 DEF AlarmInv

\* A trust error of a device that is not revoked points at the relay, as
\* the messages of _verify_advertised_head and require_checkpoint say: other
\* devices, refused or late requests and crashes never cause one, in any order,
\* but where the log was empty or a revocation is being resumed.
THEOREM NoFalseAlarm == Spec => []FalseAlarmsExplained
<1>1. AlarmInv => FalseAlarmsExplained
  BY DEF AlarmInv
<1> QED
  BY <1>1, AlarmInit, AlarmNext, PTL DEF Spec
=============================================================================
