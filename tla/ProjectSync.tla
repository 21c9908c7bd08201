----------------------------- MODULE ProjectSync -----------------------------
(***************************************************************************)
(* Publication of one project scope by its master, its withdrawal from a   *)
(* revoked device, and its installation by the replicas (project_sync.py). *)
(*                                                                         *)
(* The master has two durable stores: the metadata store with the catalog  *)
(* (which entries the scope holds, and which of their revisions have been  *)
(* delivered) and the scope's own state (policy, checkpoint, the prepared  *)
(* publication, the revoked devices).  A publication runs under the job    *)
(* lock, and takes the lock of the state only for single steps, so that a  *)
(* revocation, and the user's edits, come in between any two of them.      *)
(***************************************************************************)
EXTENDS ProjectRelay

CONSTANTS
  Entries,     \* entries of the master's vault: numbers
  EpochLimit,  \* MAX_EPOCH_PUBLICATIONS
  MaxOps,      \* bound on the prepared publications
  MaxEdits,    \* bound on the user's edits
  MaxFaults    \* bound on crashes, lost requests and timeouts

ASSUME SyncAssumption ==
  /\ Entries \subseteq Nat /\ IsFiniteSet(Entries)
  /\ EpochLimit \in Nat \ {0}
  /\ MaxOps \in Nat /\ MaxEdits \in Nat /\ MaxFaults \in Nat

VARIABLES
  relay,    \* the scope at the relay
  wire,     \* publications on their way to the relay
  cat,      \* the catalog: bindings, content revisions, publication intents
  state,    \* the master's durable state of the scope
  job,      \* the running publication: program counter and local variables
  revoker,  \* per device: how far the revoke command for it has come
  rep,      \* per device: the replica
  lastOp, edits, faults,
  limit     \* history: per device, the last sequence published for it when it was revoked

counters == <<lastOp, edits, faults>>
vars == <<relay, wire, cat, state, job, revoker, rep, counters, limit>>

NoCapture == [e \in Entries |-> 0]
NoPending == [expected |-> 0, snapshot |-> NoSnapshot, captured |-> NoCapture, attempted |-> FALSE]
Request(pending) == [expected |-> pending.expected, snapshot |-> pending.snapshot]
NoDevice == "no device"
Forever == MaxOps + 1
Idle == [pc |-> "idle", kind |-> "publish", who |-> NoDevice, next |-> "done",
         remote |-> [policy |-> FirstPolicy, head |-> NoSnapshot],
         captured |-> NoCapture, preview |-> {}, want |-> {}]

-----------------------------------------------------------------------------
(* The catalog: project_service.py and project_projection.py *)

SetMax(S) == CHOOSE x \in S : \A y \in S : x >= y

\* _compact_publication_intents: the drafts of ordinary edits get numbers
\* above every number in use.
Compact(c) ==
  LET high == SetMax({0} \union {c.desired[e] : e \in Entries})
  IN  [c EXCEPT !.desired = [e \in Entries |->
                   IF e \in c.draft THEN high + Cardinality({f \in c.draft : f <= e})
                   ELSE c.desired[e]],
                !.draft = {}]

\* _append_publication_intent
WithIntent(c, e) ==
  LET d == Compact(c)
  IN  [d EXCEPT !.desired[e] = SetMax({0} \union {d.desired[f] : f \in Entries}) + 1]

\* Slip: only entries that were never delivered.
CapturedNew(c) == [e \in Entries |-> IF c.applied[e] = 0 THEN c.desired[e] ELSE 0]

\* capture_publications: the revisions that are still to be delivered.
Captured(c) == [e \in Entries |-> IF c.desired[e] > c.applied[e] THEN c.desired[e] ELSE 0]

\* Slip: whatever is desired now is marked.
MarkedAsDesired(c, captured) ==
  LET d == Compact(c)
  IN  [d EXCEPT !.applied = [e \in Entries |-> IF captured[e] > 0 THEN d.desired[e] ELSE d.applied[e]]]

\* mark_publications_applied
Marked(c, captured) ==
  LET d == Compact(c)
      Acknowledged(e) == IF captured[e] < d.desired[e] THEN captured[e] ELSE d.desired[e]
  IN  [d EXCEPT !.applied = [e \in Entries |-> SetMax({d.applied[e], Acknowledged(e)})]]

\* _prepare: what the scope holds of the vault, or an error.
Projection(c) == {<<e, c.rev[e]>> : e \in c.bound}
Projectable(c) == c.bound \subseteq c.allowed

Edited == edits < MaxEdits /\ edits' = edits + 1 /\ UNCHANGED <<lastOp, faults>>

\* An edit of an entry or of its secret, whole (see MasterJournal for its parts).
EditEntry(e) ==
  /\ Edited
  /\ cat' = [cat EXCEPT !.rev[e] = @ + 1,
                        !.draft = IF e \in cat.bound THEN @ \union {e} ELSE @]

Assign(e) ==
  /\ Edited
  /\ e \in cat.allowed \ cat.bound
  /\ cat' = WithIntent([cat EXCEPT !.bound = @ \union {e}], e)

Unassign(e) ==
  /\ Edited
  /\ e \in cat.bound
  /\ cat' = WithIntent([cat EXCEPT !.bound = @ \ {e}], e)

SetEntryDistribution(e) ==
  /\ Edited
  /\ LET c == [cat EXCEPT !.allowed = IF e \in @ THEN @ \ {e} ELSE @ \union {e}]
     IN  cat' = IF e \in cat.bound THEN WithIntent(c, e) ELSE c

UserStep ==
  /\ \E e \in Entries : EditEntry(e) \/ Assign(e) \/ Unassign(e) \/ SetEntryDistribution(e)
  /\ UNCHANGED <<relay, wire, state, job, revoker, rep, limit>>

-----------------------------------------------------------------------------
(* The publication job of the master *)

\* _local_blocked
Revoked == {b.device : b \in state.revocations}

StateLockFree == job.pc # "adopt"

HasPending == state.pending # NoPending

\* A prepared publication for a device that has been revoked since.
Stale == state.pending.snapshot.policy.grants \cap Revoked # {}

Continue(pc) == job' = IF pc = "done" THEN Idle ELSE [job EXCEPT !.pc = pc]
Abort == job' = Idle

JobStep == UNCHANGED <<revoker, rep, edits, faults, limit>>

\* publish, add_grant, and the publication of revoke take the job lock.
StartPublish ==
  /\ job = Idle
  /\ job' = [Idle EXCEPT !.pc = "resume", !.next = "verify"]
  /\ UNCHANGED <<relay, wire, cat, state, revoker, rep, counters, limit>>

StartAddGrant(d) ==
  /\ job = Idle
  /\ job' = [Idle EXCEPT !.pc = "resume", !.next = "add", !.kind = "add", !.who = d]
  /\ UNCHANGED <<relay, wire, cat, state, revoker, rep, counters, limit>>

StartRekey(d) ==
  /\ job = Idle
  /\ revoker[d] = "publish"
  /\ job' = [Idle EXCEPT !.pc = "resume", !.next = "verify", !.kind = "rekey"]
  /\ revoker' = [revoker EXCEPT ![d] = "none"]
  /\ UNCHANGED <<relay, wire, cat, state, rep, counters, limit>>

\* Slip: a preparation is sent although a recipient has been revoked.
ResumeRegardless ==
  /\ job.pc = "resume"
  /\ \/ ~HasPending /\ Continue(job.next) /\ UNCHANGED state
     \/ HasPending /\ Continue("send") /\ state' = [state EXCEPT !.pending.attempted = TRUE]
  /\ UNCHANGED <<relay, wire, cat, lastOp>> /\ JobStep

\* _resume, under the lock of the state: nothing pending; withdrawn before it
\* was sent; sent and withdrawn, to be reconciled; or to be sent (again).
Resume ==
  /\ job.pc = "resume"
  /\ \/ ~HasPending /\ Continue(job.next) /\ UNCHANGED state
     \/ /\ HasPending /\ Stale /\ ~state.pending.attempted
        /\ Continue(job.next)
        /\ state' = [state EXCEPT !.pending = NoPending]
     \/ HasPending /\ Stale /\ state.pending.attempted /\ Continue("reconcile") /\ UNCHANGED state
     \/ /\ HasPending /\ ~Stale
        /\ Continue("send")
        /\ state' = [state EXCEPT !.pending.attempted = TRUE]
  /\ UNCHANGED <<relay, wire, cat, lastOp>> /\ JobStep

\* A withdrawn publication is never sent again: it is adopted if the relay has
\* it, and otherwise the job stops ("outcome is uncertain; recovery required").
Reconcile ==
  /\ job.pc = "reconcile"
  /\ IF relay.head = state.pending.snapshot THEN Continue("mark") ELSE Abort
  /\ UNCHANGED <<relay, wire, cat, state, lastOp>> /\ JobStep

Send ==
  /\ job.pc = "send"
  /\ wire' = wire \union {Request(state.pending)}
  /\ Continue("await")
  /\ UNCHANGED <<relay, cat, state, lastOp>> /\ JobStep

\* The answer: the operation is applied, or the relay has refused it.
Answer ==
  /\ job.pc = "await"
  /\ Request(state.pending) \notin wire
  /\ IF Applied(relay, Request(state.pending)) THEN Continue("mark") ELSE Abort
  /\ UNCHANGED <<relay, wire, cat, state, lastOp>> /\ JobStep

\* _adopt_pending marks the captured revisions in the catalog ...
AdoptMark ==
  /\ job.pc = "mark"
  /\ cat' = Marked(cat, state.pending.captured)
  /\ Continue("adopt")
  /\ UNCHANGED <<relay, wire, state, lastOp>> /\ JobStep

\* ... and then replaces the pending operation by what it has published.
AdoptSave ==
  /\ job.pc = "adopt"
  /\ LET s == state.pending.snapshot
     IN  state' = [state EXCEPT !.policy = s.policy, !.checkpoint = s, !.pending = NoPending]
  /\ Continue(job.next)
  /\ UNCHANGED <<relay, wire, cat, lastOp>> /\ JobStep

-----------------------------------------------------------------------------
(* _publish_locked: a new publication *)

\* add_grant: one grant more than the policy has now.
AddGrant ==
  /\ job.pc = "add"
  /\ IF job.who \in Revoked THEN Abort
     ELSE job' = [job EXCEPT !.pc = "resume", !.next = "verify",
                             !.want = (state.policy.grants \ Revoked) \union {job.who}]
  /\ UNCHANGED <<relay, wire, cat, state, lastOp>> /\ JobStep

\* _verified_remote: the head must be what this master published last.  Then
\* capture_publications, the first look at the catalog.
VerifyAndCapture ==
  /\ job.pc = "verify"
  /\ IF relay.head = state.checkpoint
     THEN /\ cat' = Compact(cat)
          /\ job' = [job EXCEPT !.pc = "preview",
                                !.remote = [policy |-> relay.policy, head |-> relay.head],
                                !.captured = Captured(Compact(cat))]
     ELSE Abort /\ UNCHANGED cat
  /\ UNCHANGED <<relay, wire, state, lastOp>> /\ JobStep

\* The grants of the publication, taken from the revocations known by now.
Target == IF job.kind = "add" THEN job.want ELSE job.remote.policy.grants \ Revoked

\* preview_scope is read ...
Preview ==
  /\ job.pc = "preview"
  /\ IF Projectable(cat)
     THEN job' = [job EXCEPT !.pc = "compare", !.preview = Projection(cat)]
     ELSE Abort
  /\ UNCHANGED <<relay, wire, cat, state, lastOp>> /\ JobStep

\* Slip: the members are not compared.
UnchangedContent ==
  /\ job.kind # "rekey"
  /\ state.checkpoint # NoSnapshot
  /\ job.preview = state.checkpoint.content

Unchanged ==
  /\ job.kind # "rekey"
  /\ Target = job.remote.policy.grants
  /\ state.checkpoint # NoSnapshot
  /\ job.preview = state.checkpoint.content

\* ... and compared with what was published last.
Compare ==
  /\ job.pc = "compare"
  /\ \/ Target \cap Revoked # {} /\ Abort /\ UNCHANGED cat
     \/ Target \cap Revoked = {} /\ Unchanged /\ cat' = Marked(cat, job.captured) /\ Continue("done")
     \/ Target \cap Revoked = {} /\ ~Unchanged /\ Continue("build") /\ UNCHANGED cat
  /\ UNCHANGED <<relay, wire, state, lastOp>> /\ JobStep

\* build_project_payload: the preview must still be what the vault holds.
Build ==
  /\ job.pc = "build"
  /\ IF Projectable(cat) /\ Projection(cat) = job.preview THEN Continue("prepare") ELSE Abort
  /\ UNCHANGED <<relay, wire, cat, state, lastOp>> /\ JobStep

Ids(content) == {x[1] : x \in content}

\* A new key: for other members, for other entries, and after EpochLimit
\* publications under one key.
Rotates(old, head) ==
  \/ Target # old.grants
  \/ head # NoSnapshot /\ Ids(job.preview) # Ids(state.checkpoint.content)
  \/ head.seq - old.base >= EpochLimit

\* The bound of the model: no more publications are prepared.
OutOfOps == lastOp = MaxOps

\* The operation is saved before it is sent.
Prepare ==
  /\ job.pc = "prepare"
  /\ LET old == job.remote.policy
         head == job.remote.head
         policy == IF Rotates(old, head) THEN NextPolicy(old, Target, head.seq) ELSE old
     IN  \/ /\ Target \cap Revoked # {}
            /\ Abort /\ UNCHANGED <<state, lastOp>>
         \/ /\ Target \cap Revoked = {} /\ lastOp < MaxOps
            /\ lastOp' = lastOp + 1
            /\ state' = [state EXCEPT !.pending =
                 [expected |-> head.op, captured |-> job.captured, attempted |-> FALSE,
                  snapshot |-> Snapshot(lastOp', head.seq + 1, policy, job.preview)]]
            /\ job' = [Idle EXCEPT !.pc = "resume"]
         \/ Target \cap Revoked = {} /\ OutOfOps /\ Abort /\ UNCHANGED <<state, lastOp>>
  /\ UNCHANGED <<relay, wire, cat>> /\ JobStep

PublishStep ==
  \/ Resume \/ Reconcile \/ Send \/ Answer \/ AdoptMark \/ AdoptSave
  \/ AddGrant \/ VerifyAndCapture \/ Preview \/ Compare \/ Build \/ Prepare

-----------------------------------------------------------------------------
(* Revocation *)

\* request_revoke needs the lock of the state only: the publication job may be
\* anywhere outside its own locked steps.
RequestRevoke(d) ==
  /\ StateLockFree
  /\ d \notin Revoked
  /\ LET policies == {state.policy} \union (IF HasPending THEN {state.pending.snapshot.policy} ELSE {})
         found == {p \in policies : d \in p.grants}
         source == IF state.policy \in found THEN state.policy ELSE state.pending.snapshot.policy
     IN  /\ found # {}
         /\ state' = [state EXCEPT !.revocations = @ \union {Revocation(d, source)}]
  /\ revoker' = [revoker EXCEPT ![d] = "post"]
  /\ limit' = [limit EXCEPT ![d] = IF state.pending.attempted THEN state.pending.snapshot.seq
                                   ELSE state.checkpoint.seq]
  /\ UNCHANGED <<relay, wire, cat, job, rep, counters>>

\* revoke sends the block and then publishes; a refusal ends the command.
PostBlock(d) ==
  /\ revoker[d] = "post"
  /\ LET b == CHOOSE b \in state.revocations : b.device = d
     IN  IF AcceptsBlock(relay, b)
         THEN relay' = AfterBlock(relay, b) /\ revoker' = [revoker EXCEPT ![d] = "publish"]
         ELSE revoker' = [revoker EXCEPT ![d] = "none"] /\ UNCHANGED relay
  /\ UNCHANGED <<wire, cat, state, job, rep, counters, limit>>

-----------------------------------------------------------------------------
(* The relay, the network and crashes *)

RelayPublish(q) ==
  /\ q \in wire
  /\ wire' = wire \ {q}
  /\ relay' = AfterPublish(relay, q)
  /\ UNCHANGED <<cat, state, job, revoker, rep, counters, limit>>

Fault == faults < MaxFaults /\ faults' = faults + 1 /\ UNCHANGED <<lastOp, edits>>

LoseRequest(q) ==
  /\ Fault
  /\ q \in wire
  /\ wire' = wire \ {q}
  /\ UNCHANGED <<relay, cat, state, job, revoker, rep, limit>>

\* The job dies or gives up waiting; a request it sent may still arrive.
JobFails ==
  /\ Fault
  /\ job # Idle
  /\ Abort
  /\ UNCHANGED <<relay, wire, cat, state, revoker, rep, limit>>

\* The block or its answer is lost; the user gives up, or repeats the command,
\* which finds the same record.
RevokerFails(d) ==
  /\ Fault
  /\ \/ revoker[d] = "post" /\ revoker' = [revoker EXCEPT ![d] = "none"]
     \/ revoker[d] = "publish" /\ revoker' = [revoker EXCEPT ![d] = "post"]
  /\ UNCHANGED <<relay, wire, cat, state, job, rep, limit>>

-----------------------------------------------------------------------------
(* The replicas *)

NoReplica == [applied |-> NoSnapshot, active |-> NoSnapshot, got |-> NoSnapshot, pc |-> "idle"]

ReplicaStep(d, r) ==
  /\ rep' = [rep EXCEPT ![d] = r]
  /\ UNCHANGED <<relay, wire, cat, state, job, revoker, limit>>

\* pull reads the head; what is applied already must be the active generation.
Fetch(d) ==
  /\ rep[d].pc = "idle"
  /\ MayRead(relay, d) /\ relay.head # NoSnapshot
  /\ rep[d].applied # relay.head
  /\ ReplicaStep(d, [rep[d] EXCEPT !.pc = "install", !.got = relay.head])
  /\ UNCHANGED counters

\* Slip: the ancestor must be older than the active generation.
InstallableOlder(r) ==
  IF r.applied = NoSnapshot
  THEN r.active = NoSnapshot \/ r.got = r.active \/ r.got.seq = r.active.seq + 1
  ELSE r.applied.seq < r.active.seq

\* ReplicaStore.install: without an applied checkpoint the new generation must
\* be the active one or its child; with one, that must be the active one.
Installable(r) ==
  IF r.applied = NoSnapshot
  THEN r.active = NoSnapshot \/ r.got = r.active \/ r.got.seq = r.active.seq + 1
  ELSE r.active = r.applied /\ r.got.seq >= r.active.seq

Install(d) ==
  /\ rep[d].pc = "install"
  /\ IF Installable(rep[d])
     THEN ReplicaStep(d, [rep[d] EXCEPT !.active = rep[d].got, !.pc = "save"])
     ELSE ReplicaStep(d, [rep[d] EXCEPT !.got = NoSnapshot, !.pc = "idle"])
  /\ UNCHANGED counters

SaveApplied(d) ==
  /\ rep[d].pc = "save"
  /\ ReplicaStep(d, [rep[d] EXCEPT !.applied = rep[d].got, !.got = NoSnapshot, !.pc = "idle"])
  /\ UNCHANGED counters

ReplicaCrash(d) ==
  /\ Fault
  /\ rep[d].pc # "idle"
  /\ ReplicaStep(d, [rep[d] EXCEPT !.got = NoSnapshot, !.pc = "idle"])

-----------------------------------------------------------------------------
\* A new scope to which the user has assigned the entries.
Init ==
  /\ relay = NewScope
  /\ wire = {}
  /\ cat = [bound |-> Entries, allowed |-> Entries, rev |-> [e \in Entries |-> 1], draft |-> {},
            desired |-> [e \in Entries |-> 1], applied |-> NoCapture]
  /\ state = [policy |-> FirstPolicy, checkpoint |-> NoSnapshot, pending |-> NoPending,
              revocations |-> {}]
  /\ job = Idle
  /\ revoker = [d \in Devices |-> "none"]
  /\ rep = [d \in Devices |-> NoReplica]
  /\ lastOp = 0 /\ edits = 0 /\ faults = 0
  /\ limit = [d \in Devices |-> Forever]

Pull(d) == Fetch(d) \/ Install(d) \/ SaveApplied(d)

FaultStep ==
  \/ \E q \in wire : LoseRequest(q)
  \/ JobFails
  \/ \E d \in Devices : RevokerFails(d) \/ ReplicaCrash(d)

Next ==
  \/ UserStep \/ StartPublish \/ PublishStep \/ FaultStep
  \/ \E d \in Devices : StartAddGrant(d) \/ StartRekey(d) \/ RequestRevoke(d) \/ PostBlock(d) \/ Pull(d)
  \/ \E q \in wire : RelayPublish(q)

Spec == Init /\ [][Next]_vars

\* The automatic worker publishes and pulls again and again, a job that runs
\* goes on unless it fails, and the relay handles what reaches it.
FairSpec ==
  /\ Spec
  /\ SF_vars(StartPublish) /\ WF_vars(PublishStep)
  /\ WF_vars(\E q \in wire : RelayPublish(q))
  /\ \A d \in Devices : WF_vars(Pull(d))

-----------------------------------------------------------------------------
Policies == [version : 1..(MaxOps + 1), grants : SUBSET Devices, base : 0..MaxOps]
Snapshots == [op : 0..MaxOps, seq : 0..MaxOps, policy : Policies,
              content : SUBSET (Entries \X (1..(MaxEdits + 1)))]
Numbers == [Entries -> Nat]

TypeOK ==
  /\ relay.policy \in Policies /\ relay.head \in Snapshots
  /\ relay.policies \subseteq Policies /\ relay.ops \subseteq 1..MaxOps
  /\ relay.known \subseteq Devices /\ relay.blocks \subseteq [device : Devices, policy : Policies]
  /\ relay.policy \in relay.policies /\ relay.policy.grants \subseteq relay.known
  /\ wire \subseteq [expected : 0..MaxOps, snapshot : Snapshots]
  /\ cat.bound \subseteq Entries /\ cat.allowed \subseteq Entries /\ cat.draft \subseteq Entries
  /\ cat.desired \in Numbers /\ cat.applied \in Numbers
  /\ \A e \in Entries : cat.applied[e] <= cat.desired[e]
  /\ state.policy \in Policies /\ state.checkpoint \in Snapshots /\ state.pending.snapshot \in Snapshots
  /\ \A d \in Devices : rep[d].applied \in Snapshots /\ rep[d].active \in Snapshots

\* The master never loses sight of the head: the relay holds the publication it
\* saved as its checkpoint, or the one it still has to settle.
HeadAccounted ==
  /\ relay.head \in {state.checkpoint, state.pending.snapshot}
  /\ HasPending \/ relay.head = state.checkpoint

PartOf(content, e) == {x \in content : x[1] = e}

\* Whatever the interleaving of edits, publications and crashes, an entry whose
\* last revision counts as applied is at the relay as the vault has it: same
\* content, or gone from both.
AppliedIsPublished ==
  \A e \in Entries :
    e \notin cat.draft /\ cat.applied[e] = cat.desired[e] /\ cat.desired[e] > 0
      => PartOf(relay.head.content, e) = PartOf(Projection(cat), e)

\* What the master has saved accounts for what the relay holds.
PublicationAccounted == TypeOK /\ HeadAccounted /\ AppliedIsPublished

\* No snapshot is published for a device after its revocation was recorded,
\* but for the one that was on its way at that moment.
WithdrawnInTime ==
  \A d \in Devices : relay.head.seq > limit[d] => d \notin relay.head.policy.grants

\* The job cannot know whether a withdrawn publication was applied: the master
\* has to be recovered.
Uncertain == state.pending.attempted /\ Stale /\ relay.head # state.pending.snapshot

\* What keeps a publication back, by design or by the bound of the model.
Withheld == Uncertain \/ ~Projectable(cat) \/ OutOfOps

\* A revoked device loses its place in the policy: the next publication rotates
\* the key without it, whatever became of the command that revoked it.
RevocationRotates ==
  \A d \in Devices : d \in Revoked ~> (d \notin relay.policy.grants \/ Withheld)

\* Every change of the scope is delivered in the end and accounted for.
ChangesDelivered ==
  []<>(Withheld \/ (cat.draft = {} /\ cat.applied = cat.desired /\ relay.head.content = Projection(cat)))

\* A crash between the installation and the saving of the checkpoint.
Torn(d) == rep[d].active # rep[d].applied /\ rep[d].pc = "idle"

\* A replica that may read the scope gets the head in the end.
ReplicaCatchesUp ==
  []<>(\A d \in Devices : MayRead(relay, d) => Torn(d) \/ rep[d].applied = relay.head)

=============================================================================
