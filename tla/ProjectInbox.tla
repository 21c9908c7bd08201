---------------------------- MODULE ProjectInbox ----------------------------
(***************************************************************************)
(* New entries proposed by the devices of a project: the outbox of a       *)
(* device (ProjectReplica.create, submit), the inbox of the relay (submit, *)
(* submissions, acknowledge) and the master's import (ProjectMaster.receive *)
(* and project_importer.py).                                               *)
(*                                                                         *)
(* An import writes the secret to the backend, then the entry and the      *)
(* outcome to the metadata store in one transaction, under a journal.  The *)
(* job lock keeps import and publication apart; a publication is one step  *)
(* here, and ProjectSync is about its parts.                               *)
(***************************************************************************)
EXTENDS ProjectRelay, Sequences

CONSTANTS
  Requests,    \* proposals: each has a fixed author, name and secret
  Author,      \* the device that makes a proposal
  Name,        \* the name of the proposed entry
  QueueLimit,  \* MAX_DEVICE_PENDING
  MaxFaults    \* bound on crashes and lost answers

ASSUME InboxAssumption ==
  /\ Author \in [Requests -> Devices]
  /\ DOMAIN Name = Requests
  /\ QueueLimit \in Nat \ {0} /\ MaxFaults \in Nat

VARIABLES
  relay,     \* policy, head, blocks
  inbox,     \* the relay's rows in order of arrival: request, source policy, receipt
  vault,     \* metadata store: entries, local names, outcomes (dedup ledger)
  accounts,  \* backend: the proposals whose secret is stored
  journal,   \* per proposal: the import's journal record
  revoked,   \* the master's local revocations
  job,       \* the running import
  outbox,    \* per proposal: its state at the author
  submitter, \* per device: the running submit
  device,    \* per device: the policy and the generation it has installed
  faults

vars == <<relay, inbox, vault, accounts, journal, revoked, job, outbox, submitter, device, faults>>

None == "none"
Idle == [pc |-> "idle", item |-> None, policy |-> FirstPolicy]
NoSubmit == [pc |-> "idle", item |-> None, seen |-> {}, todo |-> {}]
NotProposed == [status |-> None, policy |-> FirstPolicy]

\* Outcomes that a device does not ask about again.
Final == {"published", "conflict", "rejected", "quarantined"}
\* Outcomes that the master can reach.
Outcomes == {"accepted", "conflict", "quarantined"}

Rows == {inbox[i] : i \in DOMAIN inbox}
Row(r) == CHOOSE x \in Rows : x.request = r
Uploaded(r) == \E x \in Rows : x.request = r

-----------------------------------------------------------------------------
(* The device *)

\* create: the name must be free in the generation and among the proposals
\* that are still open.
Create(r) ==
  LET d == Author[r]
  IN  /\ outbox[r].status = None
      /\ Granted(device[d].policy, d)
      /\ \A s \in device[d].entries : Name[s] # Name[r]
      /\ \A s \in Requests : Author[s] = d /\ outbox[s].status \notin Final \union {None} => Name[s] # Name[r]
      /\ outbox' = [outbox EXCEPT ![r] = [status |-> "local_pending", policy |-> device[d].policy]]
      /\ UNCHANGED <<relay, inbox, vault, accounts, journal, revoked, job, submitter, device, faults>>

\* verify_create: the author was granted when it made the proposal and still is.
Valid(r, source, current) == Granted(source, Author[r]) /\ Granted(current, Author[r])

\* submit reads the outbox once and goes through what it read.
StartSubmit(d) ==
  /\ submitter[d] = NoSubmit
  /\ LET seen == {r \in Requests : Author[r] = d /\ outbox[r].status # None}
     IN  /\ \E r \in seen : outbox[r].status \notin Final
         /\ submitter' = [submitter EXCEPT ![d] = [pc |-> "next", item |-> None, seen |-> seen, todo |-> seen]]
  /\ UNCHANGED <<relay, inbox, vault, accounts, journal, revoked, job, outbox, device, faults>>

\* The grant under which the proposal was made must still be in the policy
\* that the device knows.
SubmitItem(d, r) ==
  /\ submitter[d].pc = "next"
  /\ r \in submitter[d].todo /\ outbox[r].status \notin Final
  /\ Valid(r, outbox[r].policy, device[d].policy)
  /\ submitter' = [submitter EXCEPT ![d].pc = IF outbox[r].status = "local_pending" THEN "post" ELSE "poll",
                                    ![d].item = r]
  /\ UNCHANGED <<relay, inbox, vault, accounts, journal, revoked, job, outbox, device, faults>>

\* submit at the relay: the author may write, the proposal is valid; the same
\* proposal again is answered and not stored again; the queue is bounded.
AcceptsProposal(r) ==
  /\ MayRead(relay, Author[r])
  /\ outbox[r].policy \in relay.policies /\ Valid(r, outbox[r].policy, relay.policy)
  /\ Uploaded(r) \/ Cardinality({x \in Rows : Author[x.request] = Author[r] /\ x.receipt = None}) < QueueLimit

Post(d) ==
  /\ submitter[d].pc = "post"
  /\ LET r == submitter[d].item
     IN  \/ /\ AcceptsProposal(r)
            /\ inbox' = IF Uploaded(r) THEN inbox
                        ELSE Append(inbox, [request |-> r, policy |-> outbox[r].policy, receipt |-> None])
            /\ submitter' = [submitter EXCEPT ![d].pc = "save"]
         \/ ~AcceptsProposal(r) /\ submitter' = [submitter EXCEPT ![d] = NoSubmit] /\ UNCHANGED inbox
  /\ UNCHANGED <<relay, vault, accounts, journal, revoked, job, outbox, device, faults>>

\* Slip: the whole outbox that submit has read is written back.
SavedWhole(d, item, status) ==
  [r \in Requests |->
     IF Author[r] # d THEN outbox[r]
     ELSE IF r \notin submitter[d].seen THEN NotProposed
     ELSE IF r = item THEN [outbox[r] EXCEPT !.status = status] ELSE outbox[r]]

\* _save_outbox_item
Saved(d, item, status) == [outbox EXCEPT ![item].status = status]

SaveUploaded(d) ==
  /\ submitter[d].pc = "save"
  /\ outbox' = Saved(d, submitter[d].item, "uploaded")
  /\ submitter' = [submitter EXCEPT ![d].pc = "poll"]
  /\ UNCHANGED <<relay, inbox, vault, accounts, journal, revoked, job, device, faults>>

\* An accepted entry that the device has installed counts as published.
Seen(d, r, receipt) == IF receipt = "accepted" /\ r \in device[d].entries THEN "published" ELSE receipt

Poll(d) ==
  /\ submitter[d].pc = "poll"
  /\ LET r == submitter[d].item
         receipt == Row(r).receipt
     IN  IF MayRead(relay, d)
         THEN /\ outbox' = IF receipt = None THEN outbox ELSE Saved(d, r, Seen(d, r, receipt))
              /\ submitter' = [submitter EXCEPT ![d] = [submitter[d] EXCEPT !.pc = "next", !.item = None,
                                                                        !.todo = @ \ {r}]]
         ELSE submitter' = [submitter EXCEPT ![d] = NoSubmit] /\ UNCHANGED outbox
  /\ UNCHANGED <<relay, inbox, vault, accounts, journal, revoked, job, device, faults>>

\* Nothing left to do, or the grant is gone.
EndSubmit(d) ==
  /\ submitter[d].pc = "next"
  /\ \/ \A r \in submitter[d].todo : outbox[r].status \in Final
     \/ ~Granted(device[d].policy, d)
  /\ submitter' = [submitter EXCEPT ![d] = NoSubmit]
  /\ UNCHANGED <<relay, inbox, vault, accounts, journal, revoked, job, outbox, device, faults>>

\* pull, under the same job lock as submit.
Pull(d) ==
  /\ submitter[d] = NoSubmit
  /\ MayRead(relay, d) /\ relay.head # NoSnapshot
  /\ device' = [device EXCEPT ![d] = [policy |-> relay.policy, entries |-> relay.head.content]]
  /\ UNCHANGED <<relay, inbox, vault, accounts, journal, revoked, job, outbox, submitter, faults>>

-----------------------------------------------------------------------------
(* The master: local edits, publication, revocation *)

UnchangedDevices == UNCHANGED <<outbox, submitter, device>>

NameTaken(n) == n \in vault.local \/ \E r \in vault.entries : Name[r] = n

AddLocalEntry(n) ==
  /\ ~NameTaken(n)
  /\ vault' = [vault EXCEPT !.local = @ \union {n}]
  /\ UNCHANGED <<relay, inbox, accounts, journal, revoked, job, faults>> /\ UnchangedDevices

\* The accept and the recovery of an import hold the lock of the state, so that
\* a revocation waits for them.
Importing == job.pc \in {"resume", "commit", "finish"}

RequestRevoke(d) ==
  /\ ~Importing
  /\ Granted(relay.policy, d) /\ d \notin revoked
  /\ revoked' = revoked \union {d}
  /\ UNCHANGED <<relay, inbox, vault, accounts, journal, job, faults>> /\ UnchangedDevices

PostBlock(d) ==
  /\ d \in revoked
  /\ Granted(relay.policy, d) /\ ~BlockedAt(relay, d)
  /\ relay' = AfterBlock(relay, Revocation(d, relay.policy))
  /\ UNCHANGED <<inbox, vault, accounts, journal, revoked, job, faults>> /\ UnchangedDevices

\* A publication holds what has been imported, and drops the revoked devices.
Publish ==
  /\ job = Idle
  /\ \/ relay.head.content # vault.entries
     \/ relay.policy.grants \cap revoked # {}
  /\ LET grants == relay.policy.grants \ revoked
         rotate == grants # relay.policy.grants \/ relay.head.content # vault.entries
         policy == IF rotate THEN NextPolicy(relay.policy, grants, relay.head.seq) ELSE relay.policy
     IN  relay' = Published(relay, [snapshot |->
                    Snapshot(relay.head.op + 1, relay.head.seq + 1, policy, vault.entries)])
  /\ UNCHANGED <<inbox, vault, accounts, journal, revoked, job, faults>> /\ UnchangedDevices

-----------------------------------------------------------------------------
(* The import *)

\* The policy that the job has read authorizes the author.
Authorized(r) == Author[r] \notin revoked /\ Granted(job.policy, Author[r])

\* _dedup_retry: an outcome is recorded, and is the answer from now on.
Decided(r) == vault.ledger[r] # None

\* _plan: an import can be prepared unless its name is in use.
Plannable(r) == ~NameTaken(Name[r])

\* _write_new_accounts: what an earlier attempt has written is kept.
WithSecret(r) == accounts \union {r}

\* _remove_owned_secrets
WithoutSecret(r) == accounts \ {r}

\* _persist_terminal: the first outcome stays.
WithOutcome(v, r, outcome) ==
  IF v.ledger[r] = None THEN [v EXCEPT !.ledger[r] = outcome] ELSE v

JobStep == UNCHANGED <<relay, revoked, faults>> /\ UnchangedDevices

\* receive: recovery comes before the inbox.
StartReceive ==
  /\ job = Idle
  /\ \/ \E r \in Requests : journal[r] = "open"
     \/ \E x \in Rows : x.receipt = None
  /\ job' = [pc |-> "recover", item |-> None, policy |-> relay.policy]
  /\ UNCHANGED <<inbox, vault, accounts, journal>> /\ JobStep

Recover ==
  /\ job.pc = "recover"
  /\ LET open == {r \in Requests : journal[r] = "open"}
     IN  \/ open = {} /\ job' = [job EXCEPT !.pc = "list"]
         \/ \E r \in open : job' = [job EXCEPT !.pc = "resume", !.item = r]
  /\ UNCHANGED <<inbox, vault, accounts, journal>> /\ JobStep

\* submissions at the relay: the rows that have no receipt, in order of arrival.
Waiting == {i \in DOMAIN inbox : inbox[i].receipt = None}

\* The oldest of them is next.
List ==
  /\ job.pc = "list"
  /\ \/ Waiting = {} /\ job' = Idle
     \/ \E i \in Waiting : /\ \A j \in Waiting : i <= j
                           /\ job' = [job EXCEPT !.pc = "accept", !.item = inbox[i].request]
  /\ UNCHANGED <<inbox, vault, accounts, journal>> /\ JobStep

\* accept: what was decided stays decided; a proposal of a device without a
\* grant is quarantined, one with a name in use is a conflict, and any other is
\* journalled.
Accept ==
  /\ job.pc = "accept"
  /\ LET r == job.item
     IN  \/ /\ Decided(r)
            /\ job' = [job EXCEPT !.pc = "ack"] /\ UNCHANGED <<vault, journal>>
         \/ /\ ~Decided(r) /\ ~Authorized(r)
            /\ vault' = WithOutcome(vault, r, "quarantined")
            /\ job' = [job EXCEPT !.pc = "ack"] /\ UNCHANGED journal
         \/ /\ ~Decided(r) /\ Authorized(r) /\ ~Plannable(r)
            /\ vault' = WithOutcome(vault, r, "conflict")
            /\ job' = [job EXCEPT !.pc = "ack"] /\ UNCHANGED journal
         \/ /\ ~Decided(r) /\ Authorized(r) /\ Plannable(r)
            /\ journal' = [journal EXCEPT ![r] = "open"]
            /\ job' = [job EXCEPT !.pc = "resume"] /\ UNCHANGED vault
  /\ UNCHANGED <<inbox, accounts>> /\ JobStep

\* Slip: a journalled import is finished whatever has happened since.
ResumeRegardless ==
  /\ job.pc = "resume"
  /\ LET r == job.item
     IN  \/ Decided(r) /\ job' = [job EXCEPT !.pc = "finish"] /\ UNCHANGED <<vault, accounts>>
         \/ /\ ~Decided(r)
            /\ accounts' = WithSecret(r)
            /\ job' = [job EXCEPT !.pc = "commit"] /\ UNCHANGED vault
  /\ UNCHANGED <<inbox, journal>> /\ JobStep

\* Slip: the journal of a decided import is left open.
ResumeLeavesOpen ==
  /\ job.pc = "resume"
  /\ LET r == job.item
     IN  \/ Decided(r) /\ job' = [job EXCEPT !.pc = "ack"] /\ UNCHANGED <<vault, accounts>>
         \/ /\ ~Decided(r) /\ Authorized(r)
            /\ accounts' = WithSecret(r)
            /\ job' = [job EXCEPT !.pc = "commit"] /\ UNCHANGED vault
  /\ UNCHANGED <<inbox, journal>> /\ JobStep

\* _resume: decided already; not authorized any more; or the secret is written.
Resume ==
  /\ job.pc = "resume"
  /\ LET r == job.item
     IN  \/ Decided(r) /\ job' = [job EXCEPT !.pc = "finish"] /\ UNCHANGED <<vault, accounts>>
         \/ /\ ~Decided(r) /\ ~Authorized(r)
            /\ accounts' = WithoutSecret(r)
            /\ vault' = WithOutcome(vault, r, "quarantined")
            /\ job' = [job EXCEPT !.pc = "finish"]
         \/ /\ ~Decided(r) /\ Authorized(r)
            /\ accounts' = WithSecret(r)
            /\ job' = [job EXCEPT !.pc = "commit"] /\ UNCHANGED vault
  /\ UNCHANGED <<inbox, journal>> /\ JobStep

\* Slip: the secret of a conflicting import stays behind.
CommitLeavesSecret ==
  /\ job.pc = "commit"
  /\ LET r == job.item
     IN  /\ vault' = IF ~Plannable(r) THEN WithOutcome(vault, r, "conflict")
                     ELSE [WithOutcome(vault, r, "accepted") EXCEPT !.entries = @ \union {r}]
         /\ UNCHANGED accounts
  /\ job' = [job EXCEPT !.pc = "finish"]
  /\ UNCHANGED <<inbox, journal>> /\ JobStep

\* The transaction: the name is checked again, and the entry, its binding and
\* the outcome are written together.
Commit ==
  /\ job.pc = "commit"
  /\ LET r == job.item
     IN  \/ /\ ~Plannable(r)
            /\ accounts' = WithoutSecret(r)
            /\ vault' = WithOutcome(vault, r, "conflict")
         \/ /\ Plannable(r)
            /\ vault' = [WithOutcome(vault, r, "accepted") EXCEPT !.entries = @ \union {r}]
            /\ UNCHANGED accounts
  /\ job' = [job EXCEPT !.pc = "finish"]
  /\ UNCHANGED <<inbox, journal>> /\ JobStep

Finish ==
  /\ job.pc = "finish"
  /\ journal' = [journal EXCEPT ![job.item] = "finished"]
  /\ job' = [job EXCEPT !.pc = "ack"]
  /\ UNCHANGED <<inbox, vault, accounts>> /\ JobStep

\* acknowledge at the relay: a receipt does not change, and the first receipt
\* that accepts needs the grant to be active.
AcceptsReceipt(r, outcome) ==
  \/ Row(r).receipt = outcome
  \/ /\ Row(r).receipt = None
     /\ outcome = "accepted" => MayRead(relay, Author[r])

\* Receipts of a recovery are delivered before the next record is recovered:
\* there is at most one open record.
Acknowledge ==
  /\ job.pc = "ack"
  /\ LET r == job.item
         outcome == vault.ledger[r]
     IN  \/ /\ AcceptsReceipt(r, outcome)
            /\ inbox' = [i \in DOMAIN inbox |-> IF inbox[i].request = r
                                                THEN [inbox[i] EXCEPT !.receipt = outcome] ELSE inbox[i]]
            /\ job' = [job EXCEPT !.pc = "recover", !.item = None]
         \/ ~AcceptsReceipt(r, outcome) /\ job' = Idle /\ UNCHANGED inbox
  /\ UNCHANGED <<vault, accounts, journal>> /\ JobStep

ReceiveStep == Recover \/ List \/ Accept \/ Resume \/ Commit \/ Finish \/ Acknowledge

-----------------------------------------------------------------------------
(* Crashes and lost answers *)

Fault == faults < MaxFaults /\ faults' = faults + 1

MasterFails ==
  /\ Fault
  /\ job # Idle
  /\ job' = Idle
  /\ UNCHANGED <<relay, inbox, vault, accounts, journal, revoked>> /\ UnchangedDevices

DeviceFails(d) ==
  /\ Fault
  /\ submitter[d] # NoSubmit
  /\ submitter' = [submitter EXCEPT ![d] = NoSubmit]
  /\ UNCHANGED <<relay, inbox, vault, accounts, journal, revoked, job, outbox, device>>

-----------------------------------------------------------------------------
\* All devices have been enrolled and have installed an empty scope.
Enrolled == NextPolicy(FirstPolicy, Devices, 0)
FirstSnapshot == Snapshot(1, 1, Enrolled, {})

Init ==
  /\ relay = Published(NewScope, [snapshot |-> FirstSnapshot])
  /\ inbox = <<>>
  /\ vault = [entries |-> {}, local |-> {}, ledger |-> [r \in Requests |-> None]]
  /\ accounts = {}
  /\ journal = [r \in Requests |-> None]
  /\ revoked = {} /\ job = Idle
  /\ outbox = [r \in Requests |-> NotProposed]
  /\ submitter = [d \in Devices |-> NoSubmit]
  /\ device = [d \in Devices |-> [policy |-> Enrolled, entries |-> {}]]
  /\ faults = 0

SubmitStep(d) ==
  \/ \E r \in Requests : SubmitItem(d, r)
  \/ Post(d) \/ SaveUploaded(d) \/ Poll(d) \/ EndSubmit(d)

Next ==
  \/ \E r \in Requests : Create(r) \/ AddLocalEntry(Name[r])
  \/ \E d \in Devices : \/ StartSubmit(d) \/ SubmitStep(d) \/ Pull(d) \/ DeviceFails(d)
                        \/ RequestRevoke(d) \/ PostBlock(d)
  \/ Publish \/ StartReceive \/ ReceiveStep \/ MasterFails

Spec == Init /\ [][Next]_vars

\* The workers of the master and of the devices run again and again, and go on
\* unless they fail.
FairSpec ==
  /\ Spec
  /\ WF_vars(StartReceive) /\ WF_vars(ReceiveStep) /\ SF_vars(Publish)
  /\ \A d \in Devices : SF_vars(Pull(d)) /\ WF_vars(StartSubmit(d)) /\ WF_vars(SubmitStep(d))

-----------------------------------------------------------------------------
TypeOK ==
  /\ \A i, j \in DOMAIN inbox : inbox[i].request = inbox[j].request => i = j
  /\ \A x \in Rows : x.request \in Requests /\ x.receipt \in Outcomes \union {None}
  /\ vault.entries \subseteq Requests /\ accounts \subseteq Requests
  /\ vault.ledger \in [Requests -> Outcomes \union {None}]
  /\ \A r, s \in vault.entries : Name[r] = Name[s] => r = s
  /\ \A r \in vault.entries : Name[r] \notin vault.local
  /\ journal \in [Requests -> {None, "open", "finished"}]
  /\ Cardinality({r \in Requests : journal[r] = "open"}) <= 1
  /\ \A r \in Requests : outbox[r].status \in Outcomes \union Final \union {None, "local_pending", "uploaded"}

\* A secret in the backend belongs to an imported entry or to an import that
\* the journal will complete or undo; an imported entry has its secret.
NoOrphanSecrets ==
  /\ \A r \in accounts : r \in vault.entries \/ journal[r] = "open"
  /\ vault.entries \subseteq accounts

\* Everyone is told the same: the receipt at the relay is the outcome that the
\* master has recorded, it was imported exactly if accepted, and the author
\* knows nothing else of it.
OneOutcome ==
  /\ \A r \in Requests : vault.ledger[r] = "accepted" <=> r \in vault.entries
  /\ \A x \in Rows : x.receipt \in {None, vault.ledger[x.request]}
  /\ \A r \in Requests :
       /\ outbox[r].status \in Outcomes => outbox[r].status = vault.ledger[r]
       /\ outbox[r].status = "published" => vault.ledger[r] = "accepted"

\* An import is whole in the vault, and so is what everyone knows of it.
ImportsWhole == TypeOK /\ NoOrphanSecrets /\ OneOutcome

\* No proposal of a device is imported once its revocation is recorded, not
\* even one whose import had begun when the master crashed.
RevokedNotImported ==
  [][\A r \in vault'.entries \ vault.entries : Author[r] \notin revoked]_vars

\* A proposal never vanishes from the outbox of its author.
ProposalsKept ==
  [][\A r \in Requests : outbox[r].status # None => outbox'[r].status # None]_vars

\* The master accepted it, the author was revoked before the receipt arrived:
\* the relay refuses the receipt for good, and the import stops there.
Jammed ==
  \E x \in Rows : x.receipt = None /\ vault.ledger[x.request] = "accepted"
                  /\ ~MayRead(relay, Author[x.request])

\* Every proposal at the relay gets its receipt, and its author hears of it
\* as long as it has access.
InboxDrains ==
  /\ []<>(Jammed \/ \A x \in Rows : x.receipt # None)
  /\ \A r \in Requests :
       outbox[r].status = "local_pending"
         ~> (outbox[r].status \in Final \/ ~MayRead(relay, Author[r]) \/ Jammed)

=============================================================================
