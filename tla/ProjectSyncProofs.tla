------------------------- MODULE ProjectSyncProofs -------------------------
(***************************************************************************)
(* Proofs about the publication of a project scope, for every number of    *)
(* entries, devices, publications, edits and failures.                     *)
(*                                                                         *)
(* Between the master and the relay there is at most one publication that  *)
(* is not settled, and the head of the relay tells whether it has arrived. *)
(* Between the catalog and what is published there is a number per entry:  *)
(* whoever changes an entry raises its number, or leaves it to a draft, so *)
(* a number that still stands vouches for what was read under it.          *)
(***************************************************************************)
EXTENDS ProjectSync, FiniteSetTheorems, WellFoundedInduction, TLAPS

-----------------------------------------------------------------------------
(* The inductive invariant *)

Contents == SUBSET (Entries \X (1..(MaxEdits + 1)))
Revocations == [device : Devices, policy : Policies]
RelayStates == [policy : Policies, head : Snapshots, policies : SUBSET Policies, ops : SUBSET (1..MaxOps),
                known : SUBSET Devices, blocks : SUBSET Revocations]
Requests == [expected : 0..MaxOps, snapshot : Snapshots]
Cats == [bound : SUBSET Entries, allowed : SUBSET Entries, rev : Numbers, draft : SUBSET Entries,
         desired : Numbers, applied : Numbers]
Pendings == [expected : 0..MaxOps, snapshot : Snapshots, captured : Numbers, attempted : BOOLEAN]
States == [policy : Policies, checkpoint : Snapshots, pending : Pendings, revocations : SUBSET Revocations]

Settling == {"reconcile", "send", "await", "mark", "adopt"}
Preparing == {"preview", "compare", "build", "prepare"}
Pcs == {"idle", "resume", "add", "verify"} \union Settling \union Preparing
Jobs == [pc : Pcs, kind : {"publish", "add", "rekey"}, who : Devices \union {NoDevice},
         next : {"done", "verify", "add"}, remote : [policy : Policies, head : Snapshots],
         captured : Numbers, preview : Contents, want : SUBSET Devices]
Replicas == [applied : Snapshots, active : Snapshots, got : Snapshots, pc : {"idle", "install", "save"}]

Typed ==
  /\ relay \in RelayStates /\ relay.policy \in relay.policies /\ relay.policy.grants \subseteq relay.known
  /\ wire \subseteq Requests
  /\ state \in States /\ job \in Jobs
  /\ revoker \in [Devices -> {"none", "post", "publish"}] /\ rep \in [Devices -> Replicas]
  /\ lastOp \in 0..MaxOps /\ limit \in [Devices -> 0..Forever]

\* The revision numbers grow with the edits, and nothing is delivered that was
\* not desired.
CatSound ==
  /\ cat \in Cats /\ edits \in 0..MaxEdits
  /\ \A e \in Entries : cat.rev[e] \in 1..(edits + 1) /\ cat.applied[e] <= cat.desired[e]

Arrived == state.pending.snapshot.op \in relay.ops

\* One publication at a time is not settled; the relay has it or it has not.
HeadSound ==
  LET old == state.checkpoint
      new == state.pending.snapshot
  IN  /\ relay.ops \subseteq 1..lastOp
      /\ state.policy = old.policy /\ old.seq <= lastOp /\ old.policy.version <= old.seq + 1
      /\ HasPending => /\ new.op \in 1..lastOp /\ new.seq = old.seq + 1 /\ new.seq <= lastOp
                       /\ new.policy.version <= new.seq + 1
      /\ relay.head = (IF Arrived THEN new ELSE old) /\ relay.policy = relay.head.policy
      /\ Arrived => state.pending.attempted
      /\ \A q \in wire : \/ q.snapshot.op \in relay.ops
                         \/ state.pending.attempted /\ q = Request(state.pending)

\* Content x vouches for entry e as long as the number it was read under, or
\* the number delivered before, is the one desired.
Vouches(c, x, captured) ==
  \A e \in Entries :
    e \notin c.draft /\ c.desired[e] > 0 /\ (captured[e] = c.desired[e] \/ c.applied[e] = c.desired[e])
      => PartOf(x, e) = PartOf(Projection(c), e)

Within(c, captured) == \A e \in Entries : captured[e] <= c.desired[e]

JobSound ==
  /\ job.pc = "idle" => job = Idle
  /\ job.kind = "add" => job.who \in Devices
  /\ job.next = "add" => job.kind = "add"
  /\ job.pc = "add" => job.kind = "add"
  /\ job.pc \in Settling => HasPending /\ state.pending.attempted
  /\ job.pc \in {"mark", "adopt"} => Arrived
  /\ job.pc \in {"add", "verify"} \union Preparing => ~HasPending
  /\ job.pc \in Preparing =>
       /\ job.remote.policy = relay.policy /\ job.remote.head = relay.head
       /\ Within(cat, job.captured)
  /\ job.pc \in {"compare", "build", "prepare"} => Vouches(cat, job.preview, job.captured)

ContentSound ==
  /\ Vouches(cat, relay.head.content, NoCapture)
  /\ HasPending => /\ Within(cat, state.pending.captured)
                   /\ Vouches(cat, state.pending.snapshot.content, state.pending.captured)

\* What is saved or sent is not for a device that was revoked before.
Withdrawn ==
  /\ \A d \in Devices : revoker[d] # "none" => d \in Revoked
  /\ \A d \in Devices : d \notin Revoked => limit[d] = Forever
  /\ \A d \in Devices : /\ state.checkpoint.seq > limit[d] => d \notin state.checkpoint.policy.grants
                        /\ state.pending.attempted /\ state.pending.snapshot.seq > limit[d] =>
                             d \notin state.pending.snapshot.policy.grants

PublicationInv == Typed /\ CatSound /\ HeadSound /\ JobSound /\ ContentSound /\ Withdrawn

-----------------------------------------------------------------------------
(* Numbers of publications *)

\* A finite set of numbers has a greatest one.
LEMMA HasMax ==
  ASSUME NEW S \in SUBSET Nat, IsFiniteSet(S), S # {}
  PROVE  \E x \in S : \A y \in S : x >= y
<1> DEFINE HasGreatest(T) == \E x \in T : \A y \in T : x >= y
           R == {s \in Nat \X Nat : s[1] < s[2]}
           Bad == {T \in SUBSET S : T # {} /\ ~HasGreatest(T)}
           Sizes == {Cardinality(T) : T \in Bad}
<1>1. IsWellFoundedOn(R, Nat)
  BY NatLessThanWellFounded DEF OpToRel
<1>2. \A T \in SUBSET S : IsFiniteSet(T) /\ Cardinality(T) \in Nat
  BY FS_Subset, FS_CardinalityType
<1>3. Sizes \subseteq Nat
  BY <1>2
<1>4. SUFFICES ASSUME Bad # {} PROVE FALSE
  OBVIOUS
<1>5. PICK n \in Sizes : \A m \in Sizes : ~(<<m, n>> \in R)
  <2>1. Sizes # {}
    BY <1>4
  <2> HIDE DEF R, Sizes
  <2> QED BY <1>1, <1>3, <2>1, WFMin
<1>6. PICK T \in Bad : n = Cardinality(T)
  BY <1>5
<1>7. PICK x \in T : TRUE
  BY <1>6
<1> DEFINE U == T \ {x}
<1>8. IsFiniteSet(T) /\ Cardinality(T) \in Nat
  BY <1>2, <1>6
<1>9. Cardinality(U) = n - 1 /\ U \in SUBSET S /\ Cardinality(U) \in Nat /\ n \in Nat
  BY <1>2, <1>6, <1>7, <1>8, FS_RemoveElement
<1>10. U \notin Bad
  <2> SUFFICES ASSUME U \in Bad PROVE FALSE
    OBVIOUS
  <2>1. Cardinality(U) \in Sizes
    OBVIOUS
  <2>2. Cardinality(U) < n
    BY <1>9
  <2>3. <<Cardinality(U), n>> \in R
    BY <1>9, <2>2
  <2> HIDE DEF R, Sizes, U
  <2> QED BY <2>1, <2>3, <1>5
<1>11. CASE U = {}
  <2>1. \A y \in T : y = x
    BY <1>11
  <2> QED BY <2>1, <1>6, <1>7
<1>12. CASE U # {}
  <2>1. PICK m \in U : \A y \in U : m >= y
    BY <1>9, <1>10, <1>12
  <2>2. x \in Nat /\ m \in Nat /\ m \in T /\ T \subseteq Nat
    BY <1>6, <1>7, <2>1
  <2>3. CASE x >= m
    <3>1. \A y \in T : x >= y
      BY <2>1, <2>2, <2>3
    <3> QED BY <3>1, <1>6, <1>7
  <2>4. CASE m >= x
    <3>1. \A y \in T : m >= y
      BY <2>1, <2>2, <2>4
    <3> QED BY <3>1, <2>2, <1>6
  <2> QED BY <2>2, <2>3, <2>4
<1> QED BY <1>11, <1>12

LEMMA MaxIs ==
  ASSUME NEW S \in SUBSET Nat, IsFiniteSet(S), S # {}
  PROVE  SetMax(S) \in S /\ \A y \in S : SetMax(S) >= y
BY HasMax DEF SetMax

\* The greatest of two numbers, and of the numbers of a catalog.
LEMMA MaxOfTwo ==
  ASSUME NEW m \in Nat, NEW n \in Nat
  PROVE  SetMax({m, n}) = IF m >= n THEN m ELSE n
<1>1. IsFiniteSet({m, n})
  <2>1. {m, n} = {m} \cup {n}
    OBVIOUS
  <2>2. IsFiniteSet({m})
    BY FS_Singleton, Zenon
  <2>3. IsFiniteSet({m} \cup {n})
    BY <2>2, FS_AddElement
  <2> QED BY <2>1, <2>3
<1>2. SetMax({m, n}) \in {m, n} /\ \A y \in {m, n} : SetMax({m, n}) >= y
  BY <1>1, MaxIs
<1> QED BY <1>2

LEMMA MaxOfNumbers ==
  ASSUME NEW f \in Numbers
  PROVE  /\ SetMax({0} \union {f[e] : e \in Entries}) \in Nat
         /\ \A e \in Entries : f[e] <= SetMax({0} \union {f[e2] : e2 \in Entries})
<1> DEFINE T == {f[e] : e \in Entries}
           M == {0} \union T
<1>1. f \in Surjection(Entries, T)
  BY DEF Surjection, Numbers
<1>2. IsFiniteSet(T)
  <2> HIDE DEF T
  <2> QED BY <1>1, FS_Surjection, SyncAssumption
<1>3. IsFiniteSet(M)
  <2>1. M = T \cup {0}
    OBVIOUS
  <2> QED BY <1>2, <2>1, FS_AddElement
<1>4. M \in SUBSET Nat /\ M # {}
  BY DEF Numbers
<1>5. SetMax(M) \in M /\ \A y \in M : SetMax(M) >= y
  <2> HIDE DEF M
  <2> QED BY <1>3, <1>4, MaxIs
<1>6. \A e \in Entries : f[e] \in M /\ f[e] \in Nat
  BY DEF Numbers
<1> QED BY <1>4, <1>5, <1>6

-----------------------------------------------------------------------------
(* What happens to a catalog *)

\* The drafts get numbers above all others.
LEMMA CompactIs ==
  ASSUME NEW c \in Cats
  PROVE  /\ Compact(c) \in Cats
         /\ Compact(c).bound = c.bound /\ Compact(c).allowed = c.allowed /\ Compact(c).rev = c.rev
         /\ Compact(c).applied = c.applied /\ Compact(c).draft = {}
         /\ \A e \in Entries : IF e \in c.draft THEN Compact(c).desired[e] > c.desired[e]
                               ELSE Compact(c).desired[e] = c.desired[e]
<1> DEFINE high == SetMax({0} \union {c.desired[e] : e \in Entries})
           place(e) == Cardinality({f \in c.draft : f <= e})
           numbers == [e \in Entries |-> IF e \in c.draft THEN high + place(e) ELSE c.desired[e]]
<1>1. c.desired \in Numbers /\ c.draft \subseteq Entries /\ c.applied \in Numbers
  BY DEF Cats
<1>2. high \in Nat /\ \A e \in Entries : c.desired[e] <= high
  BY <1>1, MaxOfNumbers
<1>3. \A e \in c.draft : place(e) \in Nat /\ place(e) > 0
  <2> TAKE e \in c.draft
  <2> DEFINE F == {f \in c.draft : f <= e}
  <2>0. e \in Entries
    BY <1>1
  <2>5. e \in Nat /\ e <= e
    BY <2>0, SyncAssumption
  <2>1. F \in SUBSET Entries /\ e \in F
    BY <1>1, <2>0, <2>5
  <2> HIDE DEF F
  <2>2. IsFiniteSet(F) /\ F # {}
    BY <2>1, FS_Subset, SyncAssumption
  <2>3. Cardinality(F) \in Nat
    BY <2>2, FS_CardinalityType
  <2>4. Cardinality(F) # 0
    BY <2>2, FS_EmptySet
  <2> QED BY <2>3, <2>4 DEF F
<1> HIDE DEF high, place
<1>4. numbers \in Numbers
  BY <1>1, <1>2, <1>3 DEF Numbers
<1>5. \A e \in Entries : IF e \in c.draft THEN numbers[e] > c.desired[e] ELSE numbers[e] = c.desired[e]
  BY <1>1, <1>2, <1>3 DEF Numbers
<1>6. Compact(c) = [c EXCEPT !.desired = numbers, !.draft = {}]
  BY DEF Compact, high, place
<1> HIDE DEF numbers
<1> QED BY <1>1, <1>4, <1>5, <1>6 DEF Cats

\* ... and an entry that is named gets one above those.
LEMMA WithIntentIs ==
  ASSUME NEW c \in Cats, NEW e \in Entries
  PROVE  /\ WithIntent(c, e) \in Cats
         /\ WithIntent(c, e).bound = c.bound /\ WithIntent(c, e).allowed = c.allowed
         /\ WithIntent(c, e).rev = c.rev
         /\ WithIntent(c, e).applied = c.applied /\ WithIntent(c, e).draft = {}
         /\ \A f \in Entries : IF f = e \/ f \in c.draft THEN WithIntent(c, e).desired[f] > c.desired[f]
                               ELSE WithIntent(c, e).desired[f] = c.desired[f]
<1> DEFINE d == Compact(c)
           high == SetMax({0} \union {d.desired[f] : f \in Entries})
<1>1. WithIntent(c, e) = [d EXCEPT !.desired[e] = high + 1]
  BY DEF WithIntent
<1>2. /\ d \in Cats /\ d.bound = c.bound /\ d.allowed = c.allowed /\ d.rev = c.rev
      /\ d.applied = c.applied /\ d.draft = {} /\ d.desired \in Numbers /\ c.desired \in Numbers
      /\ \A f \in Entries : IF f \in c.draft THEN d.desired[f] > c.desired[f] ELSE d.desired[f] = c.desired[f]
  BY CompactIs DEF Cats
<1>3. high \in Nat /\ \A f \in Entries : d.desired[f] <= high
  <2> HIDE DEF d
  <2> QED BY <1>2, MaxOfNumbers
<1> HIDE DEF d, high
<1>4. [d EXCEPT !.desired[e] = high + 1].desired = [d.desired EXCEPT ![e] = high + 1]
  BY <1>2 DEF Cats
<1>5. [d.desired EXCEPT ![e] = high + 1] \in Numbers
  BY <1>2, <1>3 DEF Numbers
<1>6. \A f \in Entries : IF f = e \/ f \in c.draft THEN [d.desired EXCEPT ![e] = high + 1][f] > c.desired[f]
                         ELSE [d.desired EXCEPT ![e] = high + 1][f] = c.desired[f]
  <2> TAKE f \in Entries
  <2>1. d.desired[f] \in Nat /\ c.desired[f] \in Nat /\ d.desired[f] <= high /\ d.desired[f] >= c.desired[f]
    BY <1>2, <1>3 DEF Numbers
  <2>2. CASE f = e
    BY <2>1, <2>2, <1>2, <1>3 DEF Numbers
  <2>3. CASE f # e
    BY <2>1, <2>3, <1>2, <1>3 DEF Numbers
  <2> QED BY <2>2, <2>3
<1> QED BY <1>1, <1>2, <1>4, <1>5, <1>6 DEF Cats

\* The master marks what it has captured, which is not beyond what is desired.
LEMMA MarkedIs ==
  ASSUME NEW c \in Cats, NEW captured \in Numbers, Within(c, captured),
         \A e \in Entries : c.applied[e] <= c.desired[e]
  PROVE  /\ Marked(c, captured) \in Cats
         /\ Marked(c, captured).bound = c.bound /\ Marked(c, captured).allowed = c.allowed
         /\ Marked(c, captured).rev = c.rev /\ Marked(c, captured).draft = {}
         /\ \A e \in Entries : IF e \in c.draft THEN Marked(c, captured).desired[e] > c.desired[e]
                               ELSE Marked(c, captured).desired[e] = c.desired[e]
         /\ \A e \in Entries : Marked(c, captured).applied[e] =
                                 IF c.applied[e] >= captured[e] THEN c.applied[e] ELSE captured[e]
<1> DEFINE d == Compact(c)
           taken(e) == IF captured[e] < d.desired[e] THEN captured[e] ELSE d.desired[e]
           delivered == [e \in Entries |-> SetMax({d.applied[e], taken(e)})]
<1>1. Marked(c, captured) = [d EXCEPT !.applied = delivered]
  BY DEF Marked
<1>2. /\ d \in Cats /\ d.bound = c.bound /\ d.allowed = c.allowed /\ d.rev = c.rev
      /\ d.applied = c.applied /\ d.draft = {} /\ d.desired \in Numbers /\ c.desired \in Numbers
      /\ c.applied \in Numbers
      /\ \A f \in Entries : IF f \in c.draft THEN d.desired[f] > c.desired[f] ELSE d.desired[f] = c.desired[f]
  BY CompactIs DEF Cats
<1> HIDE DEF d
<1>3. \A e \in Entries : delivered[e] = IF c.applied[e] >= captured[e] THEN c.applied[e] ELSE captured[e]
  <2> TAKE e \in Entries
  <2>1. /\ c.desired[e] \in Nat /\ d.desired[e] \in Nat /\ c.applied[e] \in Nat /\ captured[e] \in Nat
        /\ c.desired[e] <= d.desired[e] /\ captured[e] <= c.desired[e]
    BY <1>2 DEF Numbers, Within
  <2>2. taken(e) = captured[e]
    BY <2>1
  <2>3. delivered[e] = SetMax({c.applied[e], captured[e]})
    BY <2>2, <1>2
  <2> HIDE DEF delivered, taken
  <2> QED BY <2>1, <2>3, MaxOfTwo
<1> HIDE DEF taken
<1>4. delivered \in Numbers
  <2>1. \A e \in Entries : delivered[e] \in Nat
    BY <1>2, <1>3 DEF Numbers
  <2> QED BY <2>1 DEF Numbers
<1> HIDE DEF delivered
<1> QED BY <1>1, <1>2, <1>3, <1>4 DEF Cats

\* What a projection has of an entry.
LEMMA PartIs ==
  ASSUME NEW c \in Cats, NEW e \in Entries
  PROVE  PartOf(Projection(c), e) = IF e \in c.bound THEN {<<e, c.rev[e]>>} ELSE {}
BY DEF Cats, PartOf, Projection

\* Later catalog: nothing is delivered meanwhile, and a number that still stands
\* stands for the same.
Follows(d, c) ==
  /\ d \in Cats /\ d.applied = c.applied
  /\ \A e \in Entries :
       /\ d.desired[e] >= c.desired[e]
       /\ e \notin d.draft /\ d.desired[e] = c.desired[e] =>
            e \notin c.draft /\ PartOf(Projection(d), e) = PartOf(Projection(c), e)

LEMMA CompactFollows == ASSUME NEW c \in Cats PROVE Follows(Compact(c), c)
<1>1. \A e \in Entries : PartOf(Projection(Compact(c)), e) = PartOf(Projection(c), e)
  <2> DEFINE d == Compact(c)
  <2>1. d \in Cats /\ d.bound = c.bound /\ d.rev = c.rev
    BY CompactIs
  <2> HIDE DEF d
  <2>2. \A e \in Entries : PartOf(Projection(d), e) = PartOf(Projection(c), e)
    BY <2>1, PartIs
  <2> QED BY <2>2 DEF d
<1>2. c.desired \in Numbers /\ Compact(c).desired \in Numbers
  BY CompactIs DEF Cats
<1> QED BY <1>1, <1>2, CompactIs DEF Follows, Numbers

LEMMA IntentFollows ==
  ASSUME NEW c \in Cats, NEW b \in Cats, NEW e \in Entries,
         b.rev = c.rev, b.draft = c.draft, b.desired = c.desired, b.applied = c.applied,
         b.bound \ {e} = c.bound \ {e}
  PROVE  Follows(WithIntent(b, e), c)
<1> DEFINE d == WithIntent(b, e)
<1>1. /\ d \in Cats /\ d.bound = b.bound /\ d.rev = c.rev /\ d.applied = c.applied /\ d.draft = {}
      /\ \A f \in Entries : IF f = e \/ f \in c.draft THEN d.desired[f] > c.desired[f]
                            ELSE d.desired[f] = c.desired[f]
  BY WithIntentIs
<1> HIDE DEF d
<1>2. c.desired \in Numbers /\ d.desired \in Numbers
  BY <1>1 DEF Cats
<1>3. \A f \in Entries : f # e => PartOf(Projection(d), f) = PartOf(Projection(c), f)
  <2> TAKE f \in Entries
  <2> HAVE f # e
  <2>1. f \in d.bound <=> f \in c.bound
    BY <1>1
  <2> QED BY <2>1, <1>1, PartIs
<1>4. \A f \in Entries : d.desired[f] \in Nat /\ c.desired[f] \in Nat
  BY <1>2 DEF Numbers
<1> QED BY <1>1, <1>3, <1>4 DEF Follows, d

LEMMA FollowsKeeps ==
  ASSUME NEW c \in Cats, NEW d, Follows(d, c), NEW x, NEW captured \in Numbers,
         Vouches(c, x, captured), Within(c, captured), \A e \in Entries : c.applied[e] <= c.desired[e]
  PROVE  /\ Vouches(d, x, captured) /\ Within(d, captured)
         /\ \A e \in Entries : d.applied[e] <= d.desired[e]
<1>1. \A e \in Entries : /\ c.desired[e] \in Nat /\ d.desired[e] \in Nat /\ c.applied[e] \in Nat
                         /\ captured[e] \in Nat
  BY DEF Follows, Cats, Numbers
<1>2. Within(d, captured)
  BY <1>1 DEF Follows, Within
<1>3. ASSUME NEW e \in Entries, e \notin d.draft, d.desired[e] > 0,
             captured[e] = d.desired[e] \/ d.applied[e] = d.desired[e]
      PROVE  PartOf(x, e) = PartOf(Projection(d), e)
  <2>1. c.desired[e] = d.desired[e]
    BY <1>1, <1>3 DEF Follows, Within
  <2> QED BY <1>3, <2>1 DEF Follows, Vouches
<1>4. \A e \in Entries : d.applied[e] <= d.desired[e]
  BY <1>1 DEF Follows
<1> QED BY <1>2, <1>3, <1>4 DEF Vouches

\* What vouches for the captured revisions vouches for the delivered ones when
\* they are marked.
LEMMA MarkingKeeps ==
  ASSUME NEW c \in Cats, NEW x, NEW captured \in Numbers, NEW k \in Numbers,
         Vouches(c, x, captured), Within(c, captured), \A e \in Entries : c.applied[e] <= c.desired[e],
         \A e \in Entries : k[e] \in {0, captured[e]}
  PROVE  /\ Marked(c, captured) \in Cats
         /\ Vouches(Marked(c, captured), x, k) /\ Within(Marked(c, captured), k)
         /\ \A e \in Entries : Marked(c, captured).applied[e] <= Marked(c, captured).desired[e]
<1> DEFINE d == Marked(c, captured)
<1>1. /\ d \in Cats /\ d.bound = c.bound /\ d.rev = c.rev
      /\ \A e \in Entries : IF e \in c.draft THEN d.desired[e] > c.desired[e] ELSE d.desired[e] = c.desired[e]
      /\ \A e \in Entries : d.applied[e] = IF c.applied[e] >= captured[e] THEN c.applied[e] ELSE captured[e]
  BY MarkedIs
<1> HIDE DEF d
<1>2. \A e \in Entries : /\ c.desired[e] \in Nat /\ d.desired[e] \in Nat /\ c.applied[e] \in Nat
                         /\ captured[e] \in Nat /\ captured[e] <= c.desired[e]
  BY <1>1 DEF Cats, Numbers, Within
<1>3. \A e \in Entries : d.applied[e] <= d.desired[e]
  BY <1>1, <1>2
<1>4. Within(d, k)
  BY <1>1, <1>2 DEF Within
<1>5. ASSUME NEW e \in Entries, e \notin d.draft, d.desired[e] > 0,
             k[e] = d.desired[e] \/ d.applied[e] = d.desired[e]
      PROVE  PartOf(x, e) = PartOf(Projection(d), e)
  <2>1. e \notin c.draft /\ c.desired[e] = d.desired[e]
    BY <1>1, <1>2, <1>5
  <2>2. captured[e] = c.desired[e] \/ c.applied[e] = c.desired[e]
    BY <1>1, <1>2, <1>5, <2>1
  <2>3. PartOf(Projection(d), e) = PartOf(Projection(c), e)
    BY <1>1, PartIs
  <2> QED BY <1>5, <2>1, <2>2, <2>3 DEF Vouches
<1> QED BY <1>1, <1>3, <1>4, <1>5 DEF Vouches, d

\* What is delivered needs no captured number.
LEMMA VouchesMore ==
  ASSUME NEW c, NEW x, NEW captured, Vouches(c, x, captured)
  PROVE  Vouches(c, x, NoCapture)
BY DEF Vouches, NoCapture

-----------------------------------------------------------------------------
(* The beginning, and steps of the job that change nothing else *)

LEMMA Beginnings ==
  /\ FirstPolicy \in Policies /\ NoSnapshot \in Snapshots /\ NoCapture \in Numbers
  /\ NoPending \in Pendings /\ Idle \in Jobs
<1>1. MaxOps \in Nat
  BY SyncAssumption
<1>2. FirstPolicy \in Policies
  BY <1>1 DEF FirstPolicy, Policies
<1>3. NoSnapshot \in Snapshots
  BY <1>1, <1>2 DEF NoSnapshot, Snapshots
<1>4. NoCapture \in Numbers
  BY DEF NoCapture, Numbers
<1>5. NoPending \in Pendings
  BY <1>1, <1>3, <1>4 DEF NoPending, Pendings
<1>6. Idle \in Jobs
  BY <1>2, <1>3, <1>4 DEF Idle, Jobs, Contents, Pcs
<1> QED BY <1>2, <1>3, <1>4, <1>5, <1>6

LEMMA InitialPublication == Init => PublicationInv
<1> SUFFICES ASSUME Init PROVE PublicationInv
  OBVIOUS
<1>1. MaxOps \in Nat /\ MaxEdits \in Nat
  BY SyncAssumption
<1>2. Typed
  <2>1. relay \in RelayStates /\ relay.policy \in relay.policies /\ relay.policy.grants \subseteq relay.known
    <3>1. relay.policy = FirstPolicy /\ relay.policies = {FirstPolicy} /\ FirstPolicy.grants = {}
      BY DEF Init, NewScope, FirstPolicy
    <3> QED BY <3>1, Beginnings DEF Init, NewScope, RelayStates
  <2>2. state \in States
    BY Beginnings DEF Init, States
  <2>3. job \in Jobs
    BY Beginnings DEF Init
  <2>4. rep \in [Devices -> Replicas] /\ revoker \in [Devices -> {"none", "post", "publish"}]
    BY Beginnings DEF Init, NoReplica, Replicas
  <2>5. wire \subseteq Requests /\ lastOp \in 0..MaxOps /\ limit \in [Devices -> 0..Forever]
    BY <1>1 DEF Init, Forever
  <2> QED BY <2>1, <2>2, <2>3, <2>4, <2>5 DEF Typed
<1>3. CatSound
  BY <1>1, Beginnings DEF Init, CatSound, Cats, Numbers, NoCapture
<1>4. HeadSound
  <2>1. state.pending = NoPending /\ state.checkpoint = NoSnapshot /\ state.policy = FirstPolicy /\ lastOp = 0
    BY DEF Init
  <2>2. relay.head = NoSnapshot /\ relay.policy = FirstPolicy /\ relay.ops = {} /\ wire = {}
    BY DEF Init, NewScope
  <2>3. NoSnapshot.policy = FirstPolicy /\ NoSnapshot.seq = 0 /\ FirstPolicy.version = 1
    BY DEF NoSnapshot, FirstPolicy
  <2> QED BY <2>1, <2>2, <2>3 DEF HeadSound, Arrived, HasPending
<1>5. JobSound
  BY DEF Init, JobSound, Idle, Settling, Preparing
<1>6. ContentSound
  <2>1. ~HasPending
    BY DEF Init, HasPending
  <2>2. \A e \in Entries : cat.applied[e] = 0 /\ cat.desired[e] = 1
    BY DEF Init, NoCapture
  <2>3. Vouches(cat, relay.head.content, NoCapture)
    BY <2>2 DEF Vouches, NoCapture
  <2> QED BY <2>1, <2>3 DEF ContentSound
<1>7. Withdrawn
  BY DEF Init, Withdrawn, Revoked, NoPending, NoSnapshot, FirstPolicy
<1> QED BY <1>2, <1>3, <1>4, <1>5, <1>6, <1>7 DEF PublicationInv

\* Only the job goes on.
LEMMA JobGoesOn ==
  ASSUME PublicationInv, job' \in Jobs, JobSound',
         UNCHANGED <<relay, wire, cat, state, revoker, rep, lastOp, edits, limit>>
  PROVE  PublicationInv'
<1>1. Typed'
  BY DEF PublicationInv, Typed
<1>2. CatSound' /\ HeadSound'
  BY DEF PublicationInv, CatSound, HeadSound, Arrived, HasPending
<1>3. ContentSound' /\ Withdrawn'
  BY DEF PublicationInv, ContentSound, HasPending, Withdrawn, Revoked
<1> QED BY <1>1, <1>2, <1>3 DEF PublicationInv

\* It stops ...
LEMMA Stops == ASSUME job' = Idle PROVE job' \in Jobs /\ JobSound'
<1>1. job' \in Jobs
  BY Beginnings
<1>2. /\ job'.pc = "idle" /\ job'.kind = "publish" /\ job'.next = "done"
  BY DEF Idle
<1>3. job'.pc \notin Settling /\ job'.pc \notin Preparing
  BY <1>2 DEF Settling, Preparing
<1> QED BY <1>1, <1>2, <1>3 DEF JobSound, Preparing

\* ... moves ...
LEMMA Moves ==
  ASSUME job \in Jobs, NEW pc \in Pcs, Continue(pc)
  PROVE  /\ job' \in Jobs /\ job'.pc = pc /\ job'.kind = job.kind /\ job'.who = job.who /\ job'.next = job.next
         /\ job'.remote = job.remote /\ job'.captured = job.captured /\ job'.preview = job.preview
         /\ job'.want = job.want
BY DEF Continue, Jobs, Pcs, Settling, Preparing

\* ... to what settles the pending operation ...
LEMMA MovesToSettle ==
  ASSUME job \in Jobs, JobSound, NEW pc \in Settling, Continue(pc),
         HasPending', state'.pending.attempted, pc \in {"mark", "adopt"} => Arrived'
  PROVE  job' \in Jobs /\ JobSound'
<1>1. pc \in Pcs
  BY DEF Pcs
<1>2. job' \in Jobs /\ job'.pc = pc /\ job'.kind = job.kind /\ job'.who = job.who /\ job'.next = job.next
  BY <1>1, Moves
<1>3. pc \in {"reconcile", "send", "await", "mark", "adopt"} /\ pc \notin Preparing
  BY DEF Settling, Preparing
<1> QED BY <1>2, <1>3 DEF JobSound, Preparing

\* ... or to what follows when nothing is pending.
LEMMA MovesToNext ==
  ASSUME job \in Jobs, JobSound, Continue(job.next), ~HasPending'
  PROVE  job' \in Jobs /\ JobSound'
<1>1. CASE job.next = "done"
  <2>1. job' = Idle
    BY <1>1 DEF Continue
  <2> QED BY <2>1, Stops
<1>2. CASE job.next # "done"
  <2>1. job.next \in {"verify", "add"} /\ job.next \in Pcs
    BY <1>2 DEF Jobs, Pcs
  <2>2. /\ job' \in Jobs /\ job'.pc = job.next /\ job'.kind = job.kind /\ job'.who = job.who
        /\ job'.next = job.next
    BY <2>1, Moves
  <2>3. job'.pc \notin Settling /\ job'.pc \notin Preparing
    BY <2>1, <2>2 DEF Settling, Preparing
  <2> QED BY <2>1, <2>2, <2>3 DEF JobSound, Preparing
<1> QED BY <1>1, <1>2

LEMMA PreviewTyped == ASSUME CatSound PROVE Projection(cat) \in Contents
<1>1. \A e \in cat.bound : e \in Entries /\ cat.rev[e] \in 1..(MaxEdits + 1)
  BY SyncAssumption DEF CatSound, Cats
<1> QED BY <1>1 DEF Projection, Contents

LEMMA StepStart ==
  ASSUME PublicationInv, StartPublish \/ \E d \in Devices : StartAddGrant(d)
  PROVE  PublicationInv'
<1>1. Idle \in Jobs /\ Idle.pc = "idle" /\ Idle.kind = "publish" /\ Idle.who = NoDevice /\ Idle.next = "done"
  BY Beginnings DEF Idle
<1>2. /\ job' \in Jobs /\ job'.pc = "resume" /\ (job'.kind = "add" => job'.who \in Devices)
      /\ (job'.next = "add" => job'.kind = "add")
  <2>1. CASE StartPublish
    BY <2>1, <1>1 DEF StartPublish, Jobs, Pcs
  <2>2. ASSUME NEW d \in Devices, StartAddGrant(d) PROVE <1>2!:
    BY <2>2, <1>1 DEF StartAddGrant, Jobs, Pcs
  <2> QED BY <2>1, <2>2
<1>3. JobSound'
  BY <1>2 DEF JobSound, Settling, Preparing
<1> QED BY <1>2, <1>3, JobGoesOn DEF StartPublish, StartAddGrant, counters

LEMMA StepStartRekey == ASSUME PublicationInv, NEW d \in Devices, StartRekey(d) PROVE PublicationInv'
<1>1. Idle \in Jobs
  BY Beginnings
<1>2. job' \in Jobs /\ job'.pc = "resume" /\ job'.kind = "rekey" /\ job'.next = "verify"
  BY <1>1 DEF StartRekey, Jobs, Pcs, Idle
<1>3. JobSound'
  BY <1>2 DEF JobSound, Settling, Preparing
<1>4. revoker' = [revoker EXCEPT ![d] = "none"]
  BY DEF StartRekey
<1>5. Typed'
  BY <1>2, <1>4 DEF PublicationInv, Typed, StartRekey, counters
<1>6. CatSound' /\ HeadSound' /\ ContentSound'
  BY DEF PublicationInv, CatSound, HeadSound, ContentSound, Arrived, HasPending, StartRekey, counters
<1>7. Withdrawn'
  BY <1>4 DEF PublicationInv, Typed, Withdrawn, Revoked, StartRekey, counters
<1> QED BY <1>3, <1>5, <1>6, <1>7 DEF PublicationInv

LEMMA StepReconcile == ASSUME PublicationInv, Reconcile PROVE PublicationInv'
<1>1. /\ job \in Jobs /\ JobSound /\ HeadSound /\ HasPending /\ state.pending.attempted
      /\ UNCHANGED <<relay, wire, cat, state, revoker, rep, lastOp, edits, limit>>
  BY DEF PublicationInv, Typed, JobSound, Settling, Reconcile, JobStep
<1>2. relay.head = state.pending.snapshot => Arrived
  BY <1>1 DEF HeadSound, PublicationInv, Typed, States, Snapshots
<1>3. CASE relay.head = state.pending.snapshot
  <2>1. Continue("mark") /\ "mark" \in Settling /\ HasPending' /\ state'.pending.attempted /\ Arrived'
    BY <1>1, <1>2, <1>3 DEF Reconcile, Settling, HasPending, Arrived
  <2>2. job' \in Jobs /\ JobSound'
    BY <1>1, <2>1, MovesToSettle
  <2> QED BY <1>1, <2>2, JobGoesOn
<1>4. CASE relay.head # state.pending.snapshot
  BY <1>1, <1>4, Stops, JobGoesOn DEF Reconcile, Abort
<1> QED BY <1>3, <1>4

LEMMA StepAnswer == ASSUME PublicationInv, Answer PROVE PublicationInv'
<1>1. /\ job \in Jobs /\ JobSound /\ HasPending /\ state.pending.attempted
      /\ UNCHANGED <<relay, wire, cat, state, revoker, rep, lastOp, edits, limit>>
  BY DEF PublicationInv, Typed, JobSound, Settling, Answer, JobStep
<1>2. CASE Arrived
  <2>1. Continue("mark") /\ "mark" \in Settling /\ HasPending' /\ state'.pending.attempted /\ Arrived'
    BY <1>1, <1>2 DEF Answer, Applied, Request, Settling, HasPending, Arrived
  <2>2. job' \in Jobs /\ JobSound'
    BY <1>1, <2>1, MovesToSettle
  <2> QED BY <1>1, <2>2, JobGoesOn
<1>3. CASE ~Arrived
  BY <1>1, <1>3, Stops, JobGoesOn DEF Answer, Applied, Request, Abort, Arrived
<1> QED BY <1>2, <1>3

LEMMA StepAddGrant == ASSUME PublicationInv, AddGrant PROVE PublicationInv'
<1>1. /\ job \in Jobs /\ JobSound /\ job.pc = "add" /\ job.kind = "add" /\ job.who \in Devices
      /\ UNCHANGED <<relay, wire, cat, state, revoker, rep, lastOp, edits, limit>>
  BY DEF PublicationInv, Typed, JobSound, AddGrant, JobStep
<1>2. CASE job.who \in Revoked
  BY <1>1, <1>2, Stops, JobGoesOn DEF AddGrant, Abort
<1>3. CASE job.who \notin Revoked
  <2> DEFINE want == (state.policy.grants \ Revoked) \union {job.who}
  <2>1. job' = [job EXCEPT !.pc = "resume", !.next = "verify", !.want = want]
    BY <1>3 DEF AddGrant
  <2>2. want \in SUBSET Devices
    BY <1>1 DEF PublicationInv, Typed, States, Policies
  <2> HIDE DEF want
  <2>3. job' \in Jobs /\ job'.pc = "resume" /\ job'.kind = "add" /\ job'.who = job.who /\ job'.next = "verify"
    BY <1>1, <2>1, <2>2 DEF Jobs, Pcs
  <2>4. JobSound'
    BY <1>1, <2>3 DEF JobSound, Settling, Preparing
  <2> QED BY <1>1, <2>3, <2>4, JobGoesOn
<1> QED BY <1>2, <1>3

LEMMA StepPreview == ASSUME PublicationInv, Preview PROVE PublicationInv'
<1>1. /\ job \in Jobs /\ JobSound /\ job.pc = "preview" /\ job.pc \in Preparing
      /\ UNCHANGED <<relay, wire, cat, state, revoker, rep, lastOp, edits, limit>>
  BY DEF PublicationInv, Typed, Preview, JobStep, Preparing
<1>2. CASE Projectable(cat)
  <2>1. job' = [job EXCEPT !.pc = "compare", !.preview = Projection(cat)]
    BY <1>2 DEF Preview
  <2>2. Projection(cat) \in Contents
    BY PreviewTyped DEF PublicationInv
  <2>3. /\ job' \in Jobs /\ job'.pc = "compare" /\ job'.kind = job.kind /\ job'.who = job.who
        /\ job'.next = job.next /\ job'.remote = job.remote /\ job'.captured = job.captured
        /\ job'.preview = Projection(cat)
    BY <1>1, <2>1, <2>2 DEF Jobs, Pcs, Preparing
  <2>4. Vouches(cat, Projection(cat), job.captured)
    BY DEF Vouches
  <2>5. "compare" \notin Settling /\ "compare" # "add" /\ "compare" # "verify"
    BY DEF Settling
  <2>6. JobSound'
    BY <1>1, <2>3, <2>4, <2>5 DEF JobSound, HasPending
  <2> QED BY <1>1, <2>3, <2>6, JobGoesOn
<1>3. CASE ~Projectable(cat)
  BY <1>1, <1>3, Stops, JobGoesOn DEF Preview, Abort
<1> QED BY <1>2, <1>3

LEMMA StepBuild == ASSUME PublicationInv, Build PROVE PublicationInv'
<1>1. /\ job \in Jobs /\ JobSound /\ job.pc = "build" /\ job.pc \in Preparing
      /\ UNCHANGED <<relay, wire, cat, state, revoker, rep, lastOp, edits, limit>>
  BY DEF PublicationInv, Typed, Build, JobStep, Preparing
<1>2. CASE Projectable(cat) /\ Projection(cat) = job.preview
  <2>1. Continue("prepare") /\ "prepare" \in Pcs
    BY <1>2 DEF Build, Pcs, Preparing
  <2>2. /\ job' \in Jobs /\ job'.pc = "prepare" /\ job'.kind = job.kind /\ job'.who = job.who
        /\ job'.next = job.next /\ job'.remote = job.remote /\ job'.captured = job.captured
        /\ job'.preview = job.preview
    BY <1>1, <2>1, Moves
  <2>3. "prepare" \notin Settling
    BY DEF Settling
  <2>4. JobSound'
    BY <1>1, <2>2, <2>3 DEF JobSound, HasPending
  <2> QED BY <1>1, <2>2, <2>4, JobGoesOn
<1>3. CASE ~(Projectable(cat) /\ Projection(cat) = job.preview)
  BY <1>1, <1>3, Stops, JobGoesOn DEF Build, Abort
<1> QED BY <1>2, <1>3

LEMMA StepJobFails == ASSUME PublicationInv, JobFails PROVE PublicationInv'
BY Stops, JobGoesOn DEF JobFails, Abort, Fault

-----------------------------------------------------------------------------
(* Steps that send, lose or install *)

LEMMA StepSend == ASSUME PublicationInv, Send PROVE PublicationInv'
<1>1. /\ job \in Jobs /\ JobSound /\ HasPending /\ state.pending.attempted
      /\ UNCHANGED <<relay, cat, state, revoker, rep, lastOp, edits, limit>>
      /\ wire' = wire \union {Request(state.pending)} /\ Continue("await")
  BY DEF PublicationInv, Typed, JobSound, Settling, Send, JobStep
<1>2. job' \in Jobs /\ JobSound'
  BY <1>1, MovesToSettle DEF Settling, HasPending
<1>3. Request(state.pending) \in Requests
  BY DEF PublicationInv, Typed, States, Pendings, Request, Requests
<1>4. Typed'
  BY <1>1, <1>2, <1>3 DEF PublicationInv, Typed
<1>5. HeadSound'
  BY <1>1 DEF PublicationInv, HeadSound, Arrived, HasPending
<1>6. CatSound' /\ ContentSound' /\ Withdrawn'
  BY <1>1 DEF PublicationInv, CatSound, ContentSound, HasPending, Withdrawn, Revoked
<1> QED BY <1>2, <1>4, <1>5, <1>6 DEF PublicationInv

LEMMA StepLoseRequest == ASSUME PublicationInv, NEW q \in wire, LoseRequest(q) PROVE PublicationInv'
<1>1. wire' = wire \ {q} /\ UNCHANGED <<relay, cat, state, job, revoker, rep, lastOp, edits, limit>>
  BY DEF LoseRequest, Fault
<1>2. Typed'
  BY <1>1 DEF PublicationInv, Typed
<1>3. HeadSound'
  BY <1>1 DEF PublicationInv, HeadSound, Arrived, HasPending
<1>4. CatSound' /\ JobSound' /\ ContentSound' /\ Withdrawn'
  BY <1>1 DEF PublicationInv, CatSound, JobSound, ContentSound, Arrived, HasPending, Withdrawn, Revoked
<1> QED BY <1>2, <1>3, <1>4 DEF PublicationInv

LEMMA StepRevokerFails == ASSUME PublicationInv, NEW d \in Devices, RevokerFails(d) PROVE PublicationInv'
<1>1. /\ UNCHANGED <<relay, wire, cat, state, job, rep, lastOp, edits, limit>>
      /\ revoker[d] # "none"
      /\ \E to \in {"none", "post"} : revoker' = [revoker EXCEPT ![d] = to]
  BY DEF RevokerFails, Fault
<1>2. Typed'
  BY <1>1 DEF PublicationInv, Typed
<1>3. CatSound' /\ HeadSound' /\ JobSound' /\ ContentSound'
  BY <1>1 DEF PublicationInv, CatSound, HeadSound, JobSound, ContentSound, Arrived, HasPending
<1>4. Withdrawn'
  BY <1>1 DEF PublicationInv, Typed, Withdrawn, Revoked
<1> QED BY <1>2, <1>3, <1>4 DEF PublicationInv

\* A replica has nothing to do with what is published.
LEMMA StepReplica ==
  ASSUME PublicationInv, NEW d \in Devices, Pull(d) \/ ReplicaCrash(d)
  PROVE  PublicationInv'
<1>1. UNCHANGED <<relay, wire, cat, state, job, revoker, lastOp, edits, limit>>
  BY DEF Pull, ReplicaCrash, Fetch, Install, SaveApplied, ReplicaStep, counters, Fault
<1>2. rep \in [Devices -> Replicas] /\ rep[d] \in Replicas /\ relay.head \in Snapshots
  BY DEF PublicationInv, Typed, RelayStates
<1>3. \E r \in Replicas : rep' = [rep EXCEPT ![d] = r]
  <2>1. CASE Fetch(d)
    BY <2>1, <1>2 DEF Fetch, ReplicaStep, Replicas
  <2>2. CASE Install(d)
    BY <2>2, <1>2, Beginnings DEF Install, ReplicaStep, Replicas
  <2>3. CASE SaveApplied(d)
    BY <2>3, <1>2, Beginnings DEF SaveApplied, ReplicaStep, Replicas
  <2>4. CASE ReplicaCrash(d)
    BY <2>4, <1>2, Beginnings DEF ReplicaCrash, ReplicaStep, Replicas
  <2> QED BY <2>1, <2>2, <2>3, <2>4 DEF Pull
<1>4. Typed'
  BY <1>1, <1>2, <1>3 DEF PublicationInv, Typed
<1>5. CatSound' /\ HeadSound' /\ JobSound' /\ ContentSound' /\ Withdrawn'
  BY <1>1 DEF PublicationInv, CatSound, HeadSound, JobSound, ContentSound, Withdrawn, Revoked, Arrived, HasPending
<1> QED BY <1>4, <1>5 DEF PublicationInv

-----------------------------------------------------------------------------
(* Steps that change the catalog *)

\* What depends on the catalog, when it is followed by a later one.
LEMMA LaterCatalog ==
  ASSUME PublicationInv, Follows(cat', cat), UNCHANGED <<relay, state>>
  PROVE  /\ ContentSound' /\ cat' \in Cats
         /\ \A e \in Entries : cat'.applied[e] <= cat'.desired[e]
<1>1. /\ cat \in Cats /\ (\A e \in Entries : cat.applied[e] <= cat.desired[e]) /\ NoCapture \in Numbers
      /\ state.pending.captured \in Numbers
  BY Beginnings DEF PublicationInv, CatSound, Typed, States, Pendings
<1>2. Vouches(cat, relay.head.content, NoCapture) /\ Within(cat, NoCapture)
  BY <1>1 DEF PublicationInv, ContentSound, Within, NoCapture, Cats, Numbers
<1>3. /\ Vouches(cat', relay.head.content, NoCapture)
      /\ \A e \in Entries : cat'.applied[e] <= cat'.desired[e]
  BY <1>1, <1>2, FollowsKeeps
<1>4. ASSUME HasPending
      PROVE  /\ Within(cat', state.pending.captured)
             /\ Vouches(cat', state.pending.snapshot.content, state.pending.captured)
  BY <1>1, <1>4, FollowsKeeps DEF PublicationInv, ContentSound
<1> QED BY <1>3, <1>4 DEF ContentSound, HasPending, Follows

LEMMA StepUser == ASSUME PublicationInv, UserStep PROVE PublicationInv'
<1>1. /\ UNCHANGED <<relay, wire, state, job, revoker, rep, lastOp, limit>>
      /\ edits < MaxEdits /\ edits' = edits + 1 /\ edits \in Nat /\ edits' \in 0..MaxEdits
  BY SyncAssumption DEF PublicationInv, CatSound, UserStep, EditEntry, Assign, Unassign, SetEntryDistribution, Edited
<1>2. /\ cat \in Cats /\ cat.rev \in Numbers /\ cat.desired \in Numbers /\ cat.applied \in Numbers
      /\ cat.bound \subseteq Entries /\ cat.draft \subseteq Entries /\ cat.allowed \subseteq Entries
      /\ \A e \in Entries : cat.rev[e] \in 1..(edits + 1) /\ cat.desired[e] \in Nat
  BY DEF PublicationInv, CatSound, Cats, Numbers
<1>3. Follows(cat', cat) /\ \A e \in Entries : cat'.rev[e] \in 1..(edits + 2)
  <2>1. ASSUME NEW e \in Entries, EditEntry(e) PROVE <1>3!:
    <3> DEFINE draft == IF e \in cat.bound THEN cat.draft \union {e} ELSE cat.draft
               rev == [cat.rev EXCEPT ![e] = cat.rev[e] + 1]
    <3>1. cat' = [cat EXCEPT !.rev = rev, !.draft = draft]
      BY <2>1, <1>2 DEF EditEntry, Cats
    <3>2. rev \in Numbers /\ draft \subseteq Entries
      BY <1>2 DEF Numbers
    <3>3. \A f \in Entries : rev[f] \in 1..(edits + 2) /\ (f # e => rev[f] = cat.rev[f])
      BY <1>1, <1>2 DEF Numbers
    <3>4. \A f \in Entries : f \notin draft => f \notin cat.draft /\ (f = e => f \notin cat.bound)
      OBVIOUS
    <3> HIDE DEF rev, draft
    <3>5. /\ cat' \in Cats /\ cat'.bound = cat.bound /\ cat'.desired = cat.desired /\ cat'.applied = cat.applied
          /\ cat'.draft = draft /\ cat'.rev = rev
      BY <3>1, <3>2, <1>2 DEF Cats
    <3>6. ASSUME NEW f \in Entries, f \notin draft
          PROVE  PartOf(Projection(cat'), f) = PartOf(Projection(cat), f)
      BY <1>2, <3>3, <3>4, <3>5, <3>6, PartIs
    <3> QED BY <1>2, <3>3, <3>4, <3>5, <3>6 DEF Follows
  <2>2. ASSUME NEW b \in Cats, NEW e \in Entries, cat' = WithIntent(b, e),
               b.rev = cat.rev, b.draft = cat.draft, b.desired = cat.desired, b.applied = cat.applied,
               b.bound \ {e} = cat.bound \ {e}
        PROVE  <1>3!:
    <3>1. Follows(cat', cat)
      BY <2>2, <1>2, IntentFollows
    <3>2. cat'.rev = cat.rev
      BY <2>2, WithIntentIs
    <3> QED BY <1>1, <1>2, <3>1, <3>2
  <2>3. ASSUME NEW e \in Entries, Assign(e) PROVE <1>3!:
    <3> DEFINE b == [cat EXCEPT !.bound = @ \union {e}]
    <3>1. /\ b \in Cats /\ b.rev = cat.rev /\ b.draft = cat.draft /\ b.desired = cat.desired
          /\ b.applied = cat.applied /\ b.bound \ {e} = cat.bound \ {e}
      BY <1>2 DEF Cats
    <3>2. cat' = WithIntent(b, e)
      BY <2>3 DEF Assign
    <3> QED BY <2>2, <3>1, <3>2
  <2>4. ASSUME NEW e \in Entries, Unassign(e) PROVE <1>3!:
    <3> DEFINE b == [cat EXCEPT !.bound = @ \ {e}]
    <3>1. /\ b \in Cats /\ b.rev = cat.rev /\ b.draft = cat.draft /\ b.desired = cat.desired
          /\ b.applied = cat.applied /\ b.bound \ {e} = cat.bound \ {e}
      BY <1>2 DEF Cats
    <3>2. cat' = WithIntent(b, e)
      BY <2>4 DEF Unassign
    <3> QED BY <2>2, <3>1, <3>2
  <2>5. ASSUME NEW e \in Entries, SetEntryDistribution(e) PROVE <1>3!:
    <3> DEFINE b == [cat EXCEPT !.allowed = IF e \in @ THEN @ \ {e} ELSE @ \union {e}]
    <3>1. /\ b \in Cats /\ b.rev = cat.rev /\ b.draft = cat.draft /\ b.desired = cat.desired
          /\ b.applied = cat.applied /\ b.bound = cat.bound
      BY <1>2 DEF Cats
    <3>2. cat' = IF e \in cat.bound THEN WithIntent(b, e) ELSE b
      BY <2>5 DEF SetEntryDistribution
    <3> HIDE DEF b
    <3>3. CASE e \in cat.bound
      BY <2>2, <3>1, <3>2, <3>3
    <3>4. CASE e \notin cat.bound
      <4>1. cat' = b
        BY <3>2, <3>4
      <4>2. \A f \in Entries : PartOf(Projection(b), f) = PartOf(Projection(cat), f)
        BY <1>2, <3>1, PartIs
      <4> QED BY <4>1, <4>2, <1>1, <1>2, <3>1 DEF Follows
    <3> QED BY <3>3, <3>4
  <2> QED BY <2>1, <2>3, <2>4, <2>5 DEF UserStep
<1>4. ContentSound' /\ CatSound'
  <2>1. edits' + 1 = edits + 2
    BY <1>1
  <2> QED BY <1>1, <1>3, <2>1, LaterCatalog DEF CatSound
<1>5. JobSound'
  <2>1. JobSound /\ job \in Jobs /\ job.captured \in Numbers
        /\ \A e \in Entries : cat.applied[e] <= cat.desired[e]
    BY DEF PublicationInv, CatSound, Typed, Jobs
  <2>2. Within(cat, job.captured) => Within(cat', job.captured)
    BY <1>2, <1>3, <2>1 DEF Follows, Within, Cats, Numbers
  <2>3. Within(cat, job.captured) /\ Vouches(cat, job.preview, job.captured) =>
          Vouches(cat', job.preview, job.captured)
    BY <1>2, <1>3, <2>1, FollowsKeeps
  <2>4. {"compare", "build", "prepare"} \subseteq Preparing
    BY DEF Preparing
  <2> QED BY <1>1, <2>1, <2>2, <2>3, <2>4 DEF JobSound, HasPending, Arrived
<1>6. Typed' /\ HeadSound' /\ Withdrawn'
  BY <1>1 DEF PublicationInv, Typed, HeadSound, Withdrawn, Revoked, Arrived, HasPending
<1> QED BY <1>4, <1>5, <1>6 DEF PublicationInv

\* The master marks what the relay has.
LEMMA StepAdoptMark == ASSUME PublicationInv, AdoptMark PROVE PublicationInv'
<1>1. /\ job \in Jobs /\ JobSound /\ HasPending /\ state.pending.attempted /\ Arrived
      /\ UNCHANGED <<relay, wire, state, revoker, rep, lastOp, edits, limit>>
      /\ cat' = Marked(cat, state.pending.captured) /\ Continue("adopt")
  BY DEF PublicationInv, Typed, JobSound, Settling, AdoptMark, JobStep
<1>2. job' \in Jobs /\ JobSound'
  BY <1>1, MovesToSettle DEF Settling, HasPending, Arrived
<1> DEFINE captured == state.pending.captured
<1>3. /\ cat \in Cats /\ captured \in Numbers /\ NoCapture \in Numbers /\ Within(cat, captured)
      /\ \A e \in Entries : cat.applied[e] <= cat.desired[e]
      /\ Vouches(cat, relay.head.content, captured) /\ relay.head = state.pending.snapshot
  BY <1>1, Beginnings DEF PublicationInv, CatSound, ContentSound, HeadSound, Typed, States, Pendings
<1>4. \A e \in Entries : NoCapture[e] \in {0, captured[e]}
  BY DEF NoCapture
<1> HIDE DEF captured
<1>5. /\ cat' \in Cats /\ Vouches(cat', relay.head.content, captured) /\ Within(cat', captured)
      /\ \A e \in Entries : cat'.applied[e] <= cat'.desired[e]
  BY <1>1, <1>3, MarkingKeeps DEF captured
<1>6. Vouches(cat', relay.head.content, NoCapture)
  BY <1>1, <1>3, <1>4, MarkingKeeps DEF captured
<1>7. cat'.rev = cat.rev
  BY <1>1, <1>3, MarkedIs DEF captured
<1>8. ContentSound'
  BY <1>1, <1>3, <1>5, <1>6 DEF ContentSound, HasPending, captured
<1>9. CatSound'
  BY <1>1, <1>5, <1>7 DEF PublicationInv, CatSound
<1>10. Typed' /\ HeadSound' /\ Withdrawn'
  BY <1>1, <1>2 DEF PublicationInv, Typed, HeadSound, Withdrawn, Revoked, Arrived, HasPending
<1> QED BY <1>2, <1>8, <1>9, <1>10 DEF PublicationInv

\* With nothing pending, the head is what was saved.
LEMMA HeadIsCheckpoint ==
  ASSUME PublicationInv, ~HasPending
  PROVE  ~Arrived /\ relay.head = state.checkpoint /\ ~state.pending.attempted
<1>1. state.pending = NoPending
  BY DEF HasPending
<1>2. state.pending.snapshot.op = 0 /\ ~state.pending.attempted
  BY <1>1 DEF NoPending, NoSnapshot
<1>3. ~Arrived
  BY <1>2 DEF PublicationInv, HeadSound, Arrived
<1> QED BY <1>2, <1>3 DEF PublicationInv, HeadSound

LEMMA StepVerifyAndCapture == ASSUME PublicationInv, VerifyAndCapture PROVE PublicationInv'
<1>1. /\ job \in Jobs /\ JobSound /\ job.pc = "verify" /\ ~HasPending
      /\ UNCHANGED <<relay, wire, state, revoker, rep, lastOp, edits, limit>>
  BY DEF PublicationInv, Typed, JobSound, VerifyAndCapture, JobStep
<1>2. CASE relay.head # state.checkpoint
  BY <1>1, <1>2, Stops, JobGoesOn DEF VerifyAndCapture, Abort
<1>3. CASE relay.head = state.checkpoint
  <2> DEFINE c == Compact(cat)
             captured == Captured(c)
             remote == [policy |-> relay.policy, head |-> relay.head]
  <2>1. /\ cat' = c
        /\ job' = [job EXCEPT !.pc = "preview", !.remote = remote, !.captured = captured]
    BY <1>3 DEF VerifyAndCapture
  <2>2. cat \in Cats /\ c \in Cats /\ c.rev = cat.rev /\ Follows(c, cat)
    BY CompactIs, CompactFollows DEF PublicationInv, CatSound
  <2>3. captured \in Numbers /\ \A e \in Entries : captured[e] <= c.desired[e]
    <3> HIDE DEF c
    <3> QED BY <2>2 DEF Captured, Cats, Numbers
  <2>4. remote \in [policy : Policies, head : Snapshots]
    BY DEF PublicationInv, Typed, RelayStates
  <2> HIDE DEF captured, c
  <2>5. /\ job' \in Jobs /\ job'.pc = "preview" /\ job'.kind = job.kind /\ job'.who = job.who
        /\ job'.next = job.next /\ job'.captured = captured
        /\ job'.remote.policy = relay.policy /\ job'.remote.head = relay.head
    <3> HIDE DEF remote
    <3>1. /\ job' \in Jobs /\ job'.pc = "preview" /\ job'.kind = job.kind /\ job'.who = job.who
          /\ job'.next = job.next /\ job'.captured = captured /\ job'.remote = remote
      BY <1>1, <2>1, <2>3, <2>4 DEF Jobs, Pcs, Preparing
    <3> QED BY <3>1 DEF remote
  <2>6. "preview" \notin Settling /\ "preview" \notin {"compare", "build", "prepare"}
    BY DEF Settling
  <2>7. JobSound'
    BY <1>1, <2>1, <2>3, <2>5, <2>6 DEF JobSound, HasPending, Within
  <2>8. ContentSound' /\ CatSound'
    BY <1>1, <2>1, <2>2, LaterCatalog DEF PublicationInv, CatSound
  <2>9. Typed' /\ HeadSound' /\ Withdrawn'
    BY <1>1, <2>5 DEF PublicationInv, Typed, HeadSound, Withdrawn, Revoked, Arrived, HasPending
  <2> QED BY <2>7, <2>8, <2>9 DEF PublicationInv
<1> QED BY <1>2, <1>3

\* What was published last is what the catalog has: the captured revisions are
\* marked without a publication.
LEMMA StepCompare == ASSUME PublicationInv, Compare PROVE PublicationInv'
<1>1. /\ job \in Jobs /\ JobSound /\ job.pc = "compare" /\ ~HasPending
      /\ job.remote.policy = relay.policy /\ job.remote.head = relay.head
      /\ Within(cat, job.captured) /\ Vouches(cat, job.preview, job.captured)
      /\ UNCHANGED <<relay, wire, state, revoker, rep, lastOp, edits, limit>>
  BY DEF PublicationInv, Typed, JobSound, Preparing, Compare, JobStep
<1>2. CASE Abort /\ UNCHANGED cat
  BY <1>1, <1>2, Stops, JobGoesOn DEF Abort
<1>3. CASE Unchanged /\ cat' = Marked(cat, job.captured) /\ Continue("done")
  <2>1. relay.head.content = job.preview
    BY <1>1, <1>3, HeadIsCheckpoint DEF Unchanged
  <2>2. job' \in Jobs /\ JobSound'
    BY <1>3, Stops DEF Continue
  <2>3. /\ cat \in Cats /\ job.captured \in Numbers /\ NoCapture \in Numbers
        /\ \A e \in Entries : cat.applied[e] <= cat.desired[e]
    BY <1>1, Beginnings DEF PublicationInv, CatSound, Jobs
  <2>4. \A e \in Entries : NoCapture[e] \in {0, job.captured[e]}
    BY DEF NoCapture
  <2>5. /\ cat' \in Cats /\ Vouches(cat', relay.head.content, NoCapture)
        /\ \A e \in Entries : cat'.applied[e] <= cat'.desired[e]
    BY <1>1, <1>3, <2>1, <2>3, <2>4, MarkingKeeps
  <2>6. cat'.rev = cat.rev
    BY <1>1, <1>3, <2>3, MarkedIs
  <2>7. ContentSound' /\ CatSound'
    BY <1>1, <2>5, <2>6 DEF PublicationInv, CatSound, ContentSound, HasPending
  <2>8. Typed' /\ HeadSound' /\ Withdrawn'
    BY <1>1, <2>2 DEF PublicationInv, Typed, HeadSound, Withdrawn, Revoked, Arrived, HasPending
  <2> QED BY <2>2, <2>7, <2>8 DEF PublicationInv
<1>4. CASE Continue("build") /\ UNCHANGED cat
  <2>1. "build" \in Pcs /\ "build" \notin Settling
    BY DEF Pcs, Preparing, Settling
  <2>2. /\ job' \in Jobs /\ job'.pc = "build" /\ job'.kind = job.kind /\ job'.who = job.who
        /\ job'.next = job.next /\ job'.remote = job.remote /\ job'.captured = job.captured
        /\ job'.preview = job.preview
    BY <1>1, <1>4, <2>1, Moves
  <2>3. JobSound'
    BY <1>1, <1>4, <2>1, <2>2 DEF JobSound, HasPending
  <2> QED BY <1>1, <1>4, <2>2, <2>3, JobGoesOn
<1> QED BY <1>2, <1>3, <1>4 DEF Compare

-----------------------------------------------------------------------------
(* Steps that change what the master has saved *)

LEMMA StepResume == ASSUME PublicationInv, Resume PROVE PublicationInv'
<1>1. /\ job \in Jobs /\ JobSound /\ job.pc = "resume" /\ state \in States /\ HeadSound
      /\ UNCHANGED <<relay, wire, cat, revoker, rep, lastOp, edits, limit>>
  BY DEF PublicationInv, Typed, Resume, JobStep
<1>2. CASE ~HasPending /\ Continue(job.next) /\ UNCHANGED state
  BY <1>1, <1>2, MovesToNext, JobGoesOn DEF HasPending
<1>3. CASE HasPending /\ Stale /\ state.pending.attempted /\ Continue("reconcile") /\ UNCHANGED state
  BY <1>1, <1>3, MovesToSettle, JobGoesOn DEF HasPending, Settling
<1>4. CASE /\ HasPending /\ ~state.pending.attempted /\ Continue(job.next)
           /\ state' = [state EXCEPT !.pending = NoPending]
  <2>1. /\ state' \in States /\ state'.pending = NoPending /\ state'.policy = state.policy
        /\ state'.checkpoint = state.checkpoint /\ state'.revocations = state.revocations
    BY <1>1, <1>4, Beginnings DEF States
  <2>2. ~HasPending' /\ NoPending.snapshot.op = 0 /\ ~NoPending.attempted
    BY <2>1 DEF HasPending, NoPending, NoSnapshot
  <2>3. ~Arrived /\ ~Arrived'
    BY <1>1, <1>4, <2>1, <2>2 DEF HeadSound, Arrived
  <2>4. job' \in Jobs /\ JobSound'
    BY <1>1, <1>4, <2>2, MovesToNext
  <2>5. HeadSound'
    BY <1>1, <1>4, <2>1, <2>2, <2>3 DEF HeadSound
  <2>6. Typed' /\ CatSound'
    BY <1>1, <2>1, <2>4 DEF PublicationInv, Typed, CatSound
  <2>7. ContentSound'
    BY <1>1, <2>2 DEF PublicationInv, ContentSound
  <2>8. Withdrawn'
    BY <1>1, <2>1, <2>2 DEF PublicationInv, Withdrawn, Revoked
  <2> QED BY <2>4, <2>5, <2>6, <2>7, <2>8 DEF PublicationInv
<1>5. CASE HasPending /\ ~Stale /\ Continue("send") /\ state' = [state EXCEPT !.pending.attempted = TRUE]
  <2> DEFINE s == state.pending.snapshot
  <2>1. /\ state' \in States /\ state'.pending.attempted /\ state'.policy = state.policy
        /\ state'.checkpoint = state.checkpoint /\ state'.revocations = state.revocations
        /\ state'.pending.snapshot = s /\ state'.pending.expected = state.pending.expected
        /\ state'.pending.captured = state.pending.captured
    BY <1>1, <1>5 DEF States, Pendings
  <2>2. HasPending' /\ (Arrived' <=> Arrived)
    BY <1>1, <2>1 DEF HasPending, Arrived, NoPending
  <2>3. job' \in Jobs /\ JobSound'
    BY <1>1, <1>5, <2>1, <2>2, MovesToSettle DEF Settling
  <2>4. \A q \in wire : q.snapshot.op \in relay.ops \/ q = Request(state'.pending)
    BY <1>1, <2>1 DEF HeadSound, Request
  <2>5. HeadSound'
    BY <1>1, <1>5, <2>1, <2>2, <2>4 DEF HeadSound
  <2>6. Typed' /\ CatSound'
    BY <1>1, <2>1, <2>3 DEF PublicationInv, Typed, CatSound
  <2>7. ContentSound'
    BY <1>1, <1>5, <2>1, <2>2 DEF PublicationInv, ContentSound
  <2>8. \A d \in Devices : s.seq > limit[d] => d \notin s.policy.grants
    <3> SUFFICES ASSUME NEW d \in Devices, d \in s.policy.grants PROVE ~(s.seq > limit[d])
      OBVIOUS
    <3>1. d \notin Revoked
      BY <1>5 DEF Stale
    <3>2. limit[d] = MaxOps + 1 /\ s.seq \in 0..MaxOps
      BY <1>1, <3>1 DEF PublicationInv, Withdrawn, Forever, States, Pendings, Snapshots
    <3> QED BY <3>2, SyncAssumption
  <2>9. Withdrawn'
    BY <1>1, <2>1, <2>8 DEF PublicationInv, Withdrawn, Revoked
  <2> QED BY <2>3, <2>5, <2>6, <2>7, <2>9 DEF PublicationInv
<1> QED BY <1>2, <1>3, <1>4, <1>5 DEF Resume

LEMMA StepAdoptSave == ASSUME PublicationInv, AdoptSave PROVE PublicationInv'
<1> DEFINE s == state.pending.snapshot
<1>1. /\ job \in Jobs /\ JobSound /\ state \in States /\ HeadSound
      /\ HasPending /\ state.pending.attempted /\ Arrived
      /\ UNCHANGED <<relay, wire, cat, revoker, rep, lastOp, edits, limit>>
      /\ state' = [state EXCEPT !.policy = s.policy, !.checkpoint = s, !.pending = NoPending]
      /\ Continue(job.next)
  BY DEF PublicationInv, Typed, JobSound, Settling, AdoptSave, JobStep
<1>2. s \in Snapshots /\ s.policy \in Policies
  BY <1>1 DEF States, Pendings, Snapshots
<1>3. /\ state' \in States /\ state'.pending = NoPending /\ state'.policy = s.policy
      /\ state'.checkpoint = s /\ state'.revocations = state.revocations
  BY <1>1, <1>2, Beginnings DEF States
<1>4. ~HasPending' /\ NoPending.snapshot.op = 0 /\ ~NoPending.attempted
  BY <1>3 DEF HasPending, NoPending, NoSnapshot
<1>5. ~Arrived'
  BY <1>1, <1>3, <1>4 DEF HeadSound, Arrived
<1>6. job' \in Jobs /\ JobSound'
  BY <1>1, <1>4, MovesToNext
<1>7. \A q \in wire : q.snapshot.op \in relay.ops
  BY <1>1 DEF HeadSound, Arrived, Request
<1>8. HeadSound'
  BY <1>1, <1>3, <1>4, <1>5, <1>7 DEF HeadSound
<1>9. Typed' /\ CatSound'
  BY <1>1, <1>3, <1>6 DEF PublicationInv, Typed, CatSound
<1>10. ContentSound'
  BY <1>1, <1>4 DEF PublicationInv, ContentSound
<1>11. Withdrawn'
  BY <1>1, <1>3, <1>4 DEF PublicationInv, Withdrawn, Revoked
<1> QED BY <1>6, <1>8, <1>9, <1>10, <1>11 DEF PublicationInv

LEMMA StepPrepare == ASSUME PublicationInv, Prepare PROVE PublicationInv'
<1> DEFINE old == job.remote.policy
           head == job.remote.head
           policy == IF Rotates(old, head) THEN NextPolicy(old, Target, head.seq) ELSE old
           op == lastOp + 1
           s == Snapshot(op, head.seq + 1, policy, job.preview)
           pending == [expected |-> head.op, captured |-> job.captured, attempted |-> FALSE, snapshot |-> s]
<1>1. /\ job \in Jobs /\ JobSound /\ state \in States /\ HeadSound /\ ~HasPending
      /\ old = relay.policy /\ head = relay.head
      /\ Within(cat, job.captured) /\ Vouches(cat, job.preview, job.captured)
      /\ lastOp \in 0..MaxOps /\ relay \in RelayStates
      /\ UNCHANGED <<relay, wire, cat, revoker, rep, edits, limit>>
  BY DEF PublicationInv, Typed, JobSound, Preparing, Prepare, JobStep
<1>2. CASE Abort /\ UNCHANGED <<state, lastOp>>
  BY <1>1, <1>2, Stops, JobGoesOn DEF Abort
<1>3. CASE /\ lastOp < MaxOps /\ lastOp' = lastOp + 1
           /\ state' = [state EXCEPT !.pending = pending]
           /\ job' = [Idle EXCEPT !.pc = "resume"]
  <2>1. /\ head = state.checkpoint /\ ~Arrived /\ ~state.pending.attempted
        /\ old = state.checkpoint.policy /\ state.policy = state.checkpoint.policy
    BY <1>1, HeadIsCheckpoint DEF HeadSound
  <2>2. /\ old \in Policies /\ head \in Snapshots /\ head.seq \in Nat /\ head.seq <= lastOp
        /\ head.op \in 0..MaxOps
        /\ old.version \in Nat /\ old.version <= head.seq + 1 /\ lastOp \in Nat /\ MaxOps \in Nat
    BY <1>1, <2>1, SyncAssumption DEF Jobs, Snapshots, Policies, HeadSound, RelayStates
  <2>3. Target \in SUBSET Devices
    BY <1>1, <2>2 DEF Target, Jobs, Policies
  <2>4. policy \in Policies /\ policy.version <= head.seq + 2
    <3>1. CASE Rotates(old, head)
      <4>1. policy = [version |-> old.version + 1, grants |-> Target, base |-> head.seq]
        BY <3>1 DEF NextPolicy
      <4>2. old.version + 1 \in 1..(MaxOps + 1) /\ head.seq \in 0..MaxOps /\ old.version + 1 <= head.seq + 2
        BY <1>3, <2>2
      <4> QED BY <4>1, <4>2, <2>3 DEF Policies
    <3>2. CASE ~Rotates(old, head)
      BY <3>2, <2>2
    <3> QED BY <3>1, <3>2
  <2> HIDE DEF policy
  <2>5. /\ s \in Snapshots /\ s.op = op /\ s.seq = head.seq + 1 /\ s.policy = policy
        /\ s.content = job.preview /\ op \in 1..MaxOps
    BY <1>1, <1>3, <2>2, <2>4 DEF Snapshot, Snapshots, Jobs, Contents
  <2> HIDE DEF s
  <2>6. pending \in Pendings
    BY <1>1, <2>2, <2>5 DEF Pendings, Jobs
  <2>7. pending.snapshot = s /\ pending.captured = job.captured /\ ~pending.attempted
    OBVIOUS
  <2> HIDE DEF pending
  <2>8. /\ state' \in States /\ state'.pending = pending /\ state'.policy = state.policy
        /\ state'.checkpoint = state.checkpoint /\ state'.revocations = state.revocations
    BY <1>1, <1>3, <2>6 DEF States
  <2>9. ~Arrived'
    BY <1>1, <2>2, <2>5, <2>7, <2>8 DEF HeadSound, Arrived
  <2>10. job' \in Jobs /\ job'.pc = "resume" /\ job'.kind = "publish" /\ job'.next = "done"
    BY <1>3, Beginnings DEF Idle, Jobs, Pcs
  <2>11. JobSound'
    BY <2>10 DEF JobSound, Settling, Preparing
  <2>12. HeadSound'
    <3>1. \A q \in wire : q.snapshot.op \in relay.ops
      BY <1>1, <2>1 DEF HeadSound
    <3>2. relay.ops \subseteq 1..op
      BY <1>1, <2>2 DEF HeadSound
    <3>3. s.op \in 1..op /\ s.seq = state.checkpoint.seq + 1 /\ s.seq <= op /\ s.policy.version <= s.seq + 1
          /\ state.checkpoint.seq <= op
      BY <2>1, <2>2, <2>4, <2>5
    <3> QED BY <1>1, <1>3, <2>1, <2>2, <2>7, <2>8, <2>9, <3>1, <3>2, <3>3 DEF HeadSound
  <2>13. Typed' /\ CatSound'
    BY <1>1, <1>3, <2>5, <2>8, <2>10 DEF PublicationInv, Typed, CatSound
  <2>14. ContentSound'
    BY <1>1, <2>5, <2>7, <2>8 DEF PublicationInv, ContentSound
  <2>15. Withdrawn'
    BY <1>1, <2>7, <2>8 DEF PublicationInv, Withdrawn, Revoked
  <2> QED BY <2>11, <2>12, <2>13, <2>14, <2>15 DEF PublicationInv
<1> QED BY <1>2, <1>3 DEF Prepare

-----------------------------------------------------------------------------
(* Revocation *)

LEMMA StepRequestRevoke == ASSUME PublicationInv, NEW d \in Devices, RequestRevoke(d) PROVE PublicationInv'
<1> DEFINE new == IF state.pending.attempted THEN state.pending.snapshot.seq ELSE state.checkpoint.seq
<1>1. /\ state \in States /\ HeadSound /\ Typed
      /\ UNCHANGED <<relay, wire, cat, job, rep, lastOp, edits>>
      /\ revoker' = [revoker EXCEPT ![d] = "post"] /\ limit' = [limit EXCEPT ![d] = new]
  BY DEF PublicationInv, Typed, RequestRevoke, counters
<1>2. PICK p \in Policies : state' = [state EXCEPT !.revocations = @ \union {Revocation(d, p)}]
  <2>1. state.policy \in Policies /\ state.pending.snapshot.policy \in Policies
    BY <1>1 DEF States, Pendings, Snapshots
  <2> QED BY <2>1 DEF RequestRevoke
<1>3. /\ state' \in States /\ state'.policy = state.policy /\ state'.checkpoint = state.checkpoint
      /\ state'.pending = state.pending
      /\ state'.revocations = state.revocations \union {Revocation(d, p)}
  BY <1>1, <1>2 DEF States, Revocations, Revocation
<1>4. Revoked' = Revoked \union {d}
  <2> DEFINE b == Revocation(d, p)
  <2>1. b.device = d
    BY DEF Revocation
  <2>2. state'.revocations = state.revocations \union {b}
    BY <1>3
  <2> HIDE DEF b
  <2> QED BY <2>1, <2>2 DEF Revoked
<1>5. /\ state.checkpoint.seq \in 0..MaxOps /\ state.pending.snapshot.seq \in 0..MaxOps
      /\ new \in 0..Forever /\ MaxOps \in Nat
  BY <1>1, SyncAssumption DEF States, Pendings, Snapshots, Forever
<1>6. state.pending.attempted => state.pending.snapshot.seq = state.checkpoint.seq + 1
  BY <1>1, HeadIsCheckpoint DEF PublicationInv, HeadSound
<1>7. ~(state.checkpoint.seq > new) /\ (state.pending.attempted => ~(state.pending.snapshot.seq > new))
  BY <1>5, <1>6
<1> HIDE DEF new
<1>8. Typed'
  BY <1>1, <1>3, <1>5 DEF Typed
<1>9. HeadSound' /\ CatSound'
  BY <1>1, <1>3 DEF PublicationInv, HeadSound, CatSound, HasPending, Arrived
<1>10. JobSound' /\ ContentSound'
  BY <1>1, <1>3 DEF PublicationInv, JobSound, ContentSound, HasPending, Arrived
<1>11. Withdrawn'
  BY <1>1, <1>3, <1>4, <1>7 DEF PublicationInv, Withdrawn, Typed
<1> QED BY <1>8, <1>9, <1>10, <1>11 DEF PublicationInv

LEMMA StepPostBlock == ASSUME PublicationInv, NEW d \in Devices, PostBlock(d) PROVE PublicationInv'
<1> DEFINE b == CHOOSE b \in state.revocations : b.device = d
<1>1. /\ Typed /\ relay \in RelayStates /\ UNCHANGED <<wire, cat, state, job, rep, lastOp, edits, limit>>
      /\ revoker[d] = "post"
  BY DEF PublicationInv, Typed, PostBlock, counters
<1>2. d \in Revoked
  BY <1>1 DEF PublicationInv, Withdrawn
<1>3. b \in Revocations
  <2>1. \E c \in state.revocations : c.device = d
    BY <1>2 DEF Revoked
  <2>2. b \in state.revocations
    BY <2>1
  <2> QED BY <1>1, <2>2 DEF Typed, States
<1>4. relay' = AfterBlock(relay, b) \/ relay' = relay
  BY DEF PostBlock
<1> HIDE DEF b
<1>5. /\ relay' \in RelayStates /\ relay'.policy = relay.policy /\ relay'.head = relay.head
      /\ relay'.policies = relay.policies /\ relay'.ops = relay.ops /\ relay'.known = relay.known
  BY <1>1, <1>3, <1>4 DEF AfterBlock, RelayStates
<1>6. PICK to \in {"publish", "none"} : revoker' = [revoker EXCEPT ![d] = to]
  BY DEF PostBlock
<1>7. Typed'
  BY <1>1, <1>5, <1>6 DEF Typed
<1>8. CatSound' /\ HeadSound' /\ JobSound' /\ ContentSound'
  BY <1>1, <1>5 DEF PublicationInv, CatSound, HeadSound, JobSound, ContentSound, Arrived, HasPending
<1>9. Withdrawn'
  BY <1>1, <1>2, <1>6 DEF PublicationInv, Typed, Withdrawn, Revoked
<1> QED BY <1>7, <1>8, <1>9 DEF PublicationInv

-----------------------------------------------------------------------------
(* The relay *)

LEMMA StepRelayPublish == ASSUME PublicationInv, NEW q \in wire, RelayPublish(q) PROVE PublicationInv'
<1>1. /\ Typed /\ HeadSound /\ relay \in RelayStates /\ q \in Requests
      /\ UNCHANGED <<cat, state, job, revoker, rep, lastOp, edits, limit>>
      /\ wire' = wire \ {q} /\ relay' = AfterPublish(relay, q)
  BY DEF PublicationInv, Typed, RelayPublish, counters
<1>2. CASE relay' = relay
  <2>1. Typed' /\ CatSound'
    BY <1>1, <1>2 DEF PublicationInv, Typed, CatSound
  <2>2. HeadSound'
    BY <1>1, <1>2 DEF HeadSound, Arrived, HasPending
  <2>3. JobSound' /\ ContentSound' /\ Withdrawn'
    BY <1>1, <1>2 DEF PublicationInv, JobSound, ContentSound, Withdrawn, Revoked, Arrived, HasPending
  <2> QED BY <2>1, <2>2, <2>3 DEF PublicationInv
<1>3. CASE ~Applied(relay, q) /\ relay' = Published(relay, q)
  <2> DEFINE s == state.pending.snapshot
  <2>1. q.snapshot.op \notin relay.ops
    BY <1>3 DEF Applied
  <2>2. state.pending.attempted /\ q = Request(state.pending) /\ q.snapshot = s
    BY <1>1, <2>1 DEF HeadSound, Request
  <2>3. HasPending /\ s.op \in 1..lastOp /\ ~Arrived
    BY <1>1, <2>1, <2>2, HeadIsCheckpoint DEF HeadSound, Arrived
  <2>4. s \in Snapshots /\ s.policy \in Policies /\ s.policy.grants \subseteq Devices /\ s.op \in 1..MaxOps
    BY <1>1, <2>3, SyncAssumption DEF Typed, States, Pendings, Snapshots, Policies
  <2>5. /\ relay'.policy = s.policy /\ relay'.head = s /\ relay'.policies = relay.policies \union {s.policy}
        /\ relay'.ops = relay.ops \union {s.op} /\ relay'.known = relay.known \union s.policy.grants
        /\ relay' \in RelayStates
    <3> DEFINE policies == relay.policies \union {s.policy}
               ops == relay.ops \union {s.op}
               known == relay.known \union s.policy.grants
    <3>1. relay' = [relay EXCEPT !.policy = s.policy, !.head = s, !.policies = policies,
                                 !.ops = ops, !.known = known]
      BY <1>3, <2>2 DEF Published
    <3>2. policies \in SUBSET Policies /\ ops \in SUBSET (1..MaxOps) /\ known \in SUBSET Devices
      BY <1>1, <2>4 DEF RelayStates
    <3> HIDE DEF policies, ops, known
    <3>3. /\ relay'.policy = s.policy /\ relay'.head = s /\ relay'.policies = policies
          /\ relay'.ops = ops /\ relay'.known = known /\ relay' \in RelayStates
      BY <1>1, <2>4, <3>1, <3>2 DEF RelayStates
    <3> QED BY <3>3 DEF policies, ops, known
  <2>6. Arrived' /\ HasPending'
    BY <1>1, <2>3, <2>5 DEF Arrived, HasPending
  <2>7. Typed' /\ CatSound'
    BY <1>1, <2>5 DEF PublicationInv, Typed, CatSound
  <2>8. HeadSound'
    BY <1>1, <2>2, <2>3, <2>5, <2>6 DEF HeadSound
  <2>9. JobSound'
    BY <1>1, <2>3, <2>6 DEF PublicationInv, JobSound, HasPending
  <2>10. ContentSound'
    BY <1>1, <2>3, <2>5, VouchesMore DEF PublicationInv, ContentSound, HasPending
  <2>11. Withdrawn'
    BY <1>1 DEF PublicationInv, Withdrawn, Revoked
  <2> QED BY <2>7, <2>8, <2>9, <2>10, <2>11 DEF PublicationInv
<1> QED BY <1>1, <1>2, <1>3 DEF AfterPublish

-----------------------------------------------------------------------------
(* The theorems *)

LEMMA PublicationInductive == PublicationInv /\ [Next]_vars => PublicationInv'
<1> SUFFICES ASSUME PublicationInv, [Next]_vars PROVE PublicationInv'
  OBVIOUS
<1>1. CASE UserStep
  BY <1>1, StepUser
<1>2. CASE StartPublish \/ \E d \in Devices : StartAddGrant(d)
  BY <1>2, StepStart
<1>3. CASE PublishStep
  BY <1>3, StepResume, StepReconcile, StepSend, StepAnswer, StepAdoptMark, StepAdoptSave, StepAddGrant,
     StepVerifyAndCapture, StepPreview, StepCompare, StepBuild, StepPrepare DEF PublishStep
<1>4. CASE FaultStep
  BY <1>4, StepLoseRequest, StepJobFails, StepRevokerFails, StepReplica DEF FaultStep
<1>5. ASSUME NEW d \in Devices, StartRekey(d) \/ RequestRevoke(d) \/ PostBlock(d) \/ Pull(d)
      PROVE  PublicationInv'
  BY <1>5, StepStartRekey, StepRequestRevoke, StepPostBlock, StepReplica
<1>6. ASSUME NEW q \in wire, RelayPublish(q)
      PROVE  PublicationInv'
  BY <1>6, StepRelayPublish
<1>7. CASE UNCHANGED vars
  <2>1. Typed' /\ CatSound' /\ HeadSound'
    BY <1>7 DEF vars, counters, PublicationInv, Typed, CatSound, HeadSound, Arrived, HasPending
  <2>2. JobSound' /\ ContentSound' /\ Withdrawn'
    BY <1>7 DEF vars, counters, PublicationInv, JobSound, ContentSound, Withdrawn, Revoked, Arrived, HasPending
  <2> QED BY <2>1, <2>2 DEF PublicationInv
<1> QED BY <1>1, <1>2, <1>3, <1>4, <1>5, <1>6, <1>7 DEF Next

\* In every state the master, the relay and the catalog fit together: one
\* unsettled publication, and numbers that vouch for what was published.
THEOREM PublicationInvariant == Spec => []PublicationInv
<1> QED BY InitialPublication, PublicationInductive, PTL DEF Spec

\* The head of the relay is what the master has saved or has still to settle,
\* and an entry whose last change counts as applied is at the relay as the vault
\* has it, whatever edits, revocations, lost requests and crashes came in between
\* (ProjectMaster._adopt_pending, mark_publications_applied).
THEOREM PublicationAccountedHolds == Spec => []PublicationAccounted
<1>1. PublicationInv => PublicationAccounted
  <2> SUFFICES ASSUME PublicationInv PROVE PublicationAccounted
    OBVIOUS
  <2>1. HeadAccounted
    BY HeadIsCheckpoint DEF PublicationInv, HeadSound, HeadAccounted
  <2>2. AppliedIsPublished
    BY DEF PublicationInv, ContentSound, Vouches, AppliedIsPublished
  <2>3. TypeOK
    <3>1. /\ relay \in RelayStates /\ state \in States /\ cat \in Cats /\ wire \subseteq Requests
          /\ rep \in [Devices -> Replicas]
      BY DEF PublicationInv, Typed, CatSound
    <3>2. /\ relay.policy \in Policies /\ relay.head \in Snapshots
          /\ relay.policies \subseteq Policies /\ relay.ops \subseteq 1..MaxOps
          /\ relay.known \subseteq Devices /\ relay.blocks \subseteq [device : Devices, policy : Policies]
      BY <3>1 DEF RelayStates, Revocations
    <3>3. /\ cat.bound \subseteq Entries /\ cat.allowed \subseteq Entries /\ cat.draft \subseteq Entries
          /\ cat.desired \in Numbers /\ cat.applied \in Numbers
      BY <3>1 DEF Cats
    <3>4. state.policy \in Policies /\ state.checkpoint \in Snapshots /\ state.pending.snapshot \in Snapshots
      BY <3>1 DEF States, Pendings
    <3>5. \A d \in Devices : rep[d].applied \in Snapshots /\ rep[d].active \in Snapshots
      BY <3>1 DEF Replicas
    <3> QED BY <3>1, <3>2, <3>3, <3>4, <3>5 DEF PublicationInv, Typed, CatSound, TypeOK, Requests
  <2> QED BY <2>1, <2>2, <2>3 DEF PublicationAccounted
<1> QED BY <1>1, PublicationInvariant, PTL

\* No snapshot is published for a device after its revocation was recorded, but
\* for the one that was on its way at that moment (request_revoke, _resume).
THEOREM WithdrawnInTimeHolds == Spec => []WithdrawnInTime
<1>1. PublicationInv => WithdrawnInTime
  <2> SUFFICES ASSUME PublicationInv PROVE WithdrawnInTime
    OBVIOUS
  <2>1. CASE Arrived
    BY <2>1 DEF PublicationInv, HeadSound, Withdrawn, WithdrawnInTime
  <2>2. CASE ~Arrived
    BY <2>2 DEF PublicationInv, HeadSound, Withdrawn, WithdrawnInTime
  <2> QED BY <2>1, <2>2
<1> QED BY <1>1, PublicationInvariant, PTL
=============================================================================
