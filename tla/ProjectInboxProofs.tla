------------------------- MODULE ProjectInboxProofs -------------------------
(***************************************************************************)
(* Proofs about the proposals of a project's devices, for every number of  *)
(* devices, proposals and failures, and every limit of the queue.          *)
(*                                                                         *)
(* The outcome of a proposal is written once, to the master's ledger;      *)
(* everything else that is known of it, in the backend, at the relay or in *)
(* an outbox, is shown to follow the ledger.                               *)
(***************************************************************************)
EXTENDS ProjectInbox, FiniteSetTheorems, TLAPS

-----------------------------------------------------------------------------
(* The inductive invariant *)

Policies == [version : Nat, grants : SUBSET Devices, base : Nat]
Heads == [op : Nat, seq : Nat, policy : Policies, content : SUBSET Requests]
RelayStates == [policy : Policies, head : Heads, policies : SUBSET Policies, ops : SUBSET Nat,
                known : SUBSET Devices, blocks : SUBSET [device : Devices, policy : Policies]]
RowSet == [request : Requests, policy : Policies, receipt : Outcomes \union {None}]
Names == {Name[r] : r \in Requests}
Vaults == [entries : SUBSET Requests, local : SUBSET Names, ledger : [Requests -> Outcomes \union {None}]]
Jobs == [pc : {"idle", "recover", "list", "accept", "resume", "commit", "finish", "ack"},
         item : Requests \union {None}, policy : Policies]
Statuses == Outcomes \union Final \union {None, "local_pending", "uploaded"}
Proposals == [status : Statuses, policy : Policies]
Submitters == [pc : {"idle", "next", "post", "save", "poll"}, item : Requests \union {None},
               seen : SUBSET Requests, todo : SUBSET Requests]

Typed ==
  /\ relay \in RelayStates /\ inbox \in Seq(RowSet) /\ vault \in Vaults /\ accounts \subseteq Requests
  /\ journal \in [Requests -> {None, "open", "finished"}] /\ revoked \subseteq Devices
  /\ job \in Jobs /\ outbox \in [Requests -> Proposals] /\ submitter \in [Devices -> Submitters]
  /\ device \in [Devices -> [policy : Policies, entries : SUBSET Requests]]

\* The vault by itself: names are unique, entries are what was accepted.
VaultSound ==
  /\ \A r, s \in vault.entries : Name[r] = Name[s] => r = s
  /\ \A r \in vault.entries : Name[r] \notin vault.local
  /\ \A r \in Requests : vault.ledger[r] = "accepted" <=> r \in vault.entries

\* A secret without an entry is one the single open import still has to decide.
SecretsSound ==
  /\ \A r \in accounts : r \in vault.entries \/ (journal[r] = "open" /\ ~Decided(r))
  /\ vault.entries \subseteq accounts
  /\ \A r, s \in Requests : journal[r] = "open" /\ journal[s] = "open" => r = s

\* What the running import relies on.
ImportSound ==
  /\ job.pc \in {"accept", "resume", "commit", "finish", "ack"} => job.item \in Requests
  /\ job.pc \in {"list", "accept"} => \A r \in Requests : journal[r] # "open"
  /\ job.pc \in {"resume", "commit", "finish"} => journal[job.item] = "open"
  /\ job.pc = "commit" => /\ ~Decided(job.item) /\ job.item \in accounts
                          /\ Author[job.item] \notin revoked
  /\ job.pc \in {"finish", "ack"} => Decided(job.item)

\* Receipts and outboxes follow the ledger; what is past the first upload is at
\* the relay.
KnownSound ==
  /\ \A i, j \in DOMAIN inbox : inbox[i].request = inbox[j].request => i = j
  /\ \A i \in DOMAIN inbox : inbox[i].receipt \in {None, vault.ledger[inbox[i].request]}
  /\ \A r \in Requests :
       /\ outbox[r].status \in Outcomes => outbox[r].status = vault.ledger[r]
       /\ outbox[r].status = "published" => vault.ledger[r] = "accepted"
       /\ outbox[r].status \notin {None, "local_pending"} => Uploaded(r)

SubmitSound ==
  \A d \in Devices :
    /\ \A r \in submitter[d].todo : outbox[r].status # None
    /\ submitter[d].pc \in {"post", "save", "poll"} =>
         submitter[d].item \in Requests /\ outbox[submitter[d].item].status # None
    /\ submitter[d].pc \in {"save", "poll"} => Uploaded(submitter[d].item)

InboxInv == Typed /\ VaultSound /\ SecretsSound /\ ImportSound /\ KnownSound /\ SubmitSound

-----------------------------------------------------------------------------
(* Beginnings and frames *)

LEMMA Beginnings ==
  /\ FirstPolicy \in Policies /\ NoSnapshot \in Heads /\ Enrolled \in Policies /\ FirstSnapshot \in Heads
  /\ Idle \in Jobs /\ NoSubmit \in Submitters /\ NotProposed \in Proposals
<1>1. FirstPolicy \in Policies
  BY DEF FirstPolicy, Policies
<1>2. Enrolled \in Policies
  BY <1>1 DEF Enrolled, NextPolicy, FirstPolicy, Policies
<1>3. NoSnapshot \in Heads /\ FirstSnapshot \in Heads
  BY <1>1, <1>2 DEF NoSnapshot, FirstSnapshot, Snapshot, Heads
<1>4. Idle \in Jobs /\ NoSubmit \in Submitters /\ NotProposed \in Proposals
  BY <1>1 DEF Idle, Jobs, NoSubmit, Submitters, NotProposed, Proposals, Statuses
<1> QED BY <1>1, <1>2, <1>3, <1>4

\* A published snapshot at the relay.
LEMMA PublishedTyped ==
  ASSUME relay \in RelayStates, NEW s \in Heads
  PROVE  Published(relay, [snapshot |-> s]) \in RelayStates
<1> DEFINE policies == relay.policies \union {s.policy}
           ops == relay.ops \union {s.op}
           known == relay.known \union s.policy.grants
<1>1. Published(relay, [snapshot |-> s]) =
        [relay EXCEPT !.policy = s.policy, !.head = s, !.policies = policies, !.ops = ops, !.known = known]
  BY DEF Published
<1>2. s.policy \in Policies /\ s.op \in Nat /\ s.policy.grants \subseteq Devices
  BY DEF Heads, Policies
<1>3. policies \in SUBSET Policies /\ ops \in SUBSET Nat /\ known \in SUBSET Devices
  BY <1>2 DEF RelayStates
<1> HIDE DEF policies, ops, known
<1> QED BY <1>1, <1>2, <1>3 DEF RelayStates

LEMMA InitialInbox == Init => InboxInv
<1> SUFFICES ASSUME Init PROVE InboxInv
  OBVIOUS
<1>1. relay \in RelayStates
  <2>1. NewScope \in RelayStates
    BY Beginnings DEF NewScope, RelayStates
  <2> DEFINE s == FirstSnapshot
             r == NewScope
             policies == r.policies \union {s.policy}
             ops == r.ops \union {s.op}
             known == r.known \union s.policy.grants
  <2>2. relay = [r EXCEPT !.policy = s.policy, !.head = s, !.policies = policies, !.ops = ops, !.known = known]
    BY DEF Init, Published
  <2>3. s \in Heads
    BY Beginnings
  <2> HIDE DEF s, r
  <2>4. s.policy \in Policies /\ s.op \in Nat /\ s.policy.grants \subseteq Devices
    BY <2>3 DEF Heads, Policies
  <2>5. policies \in SUBSET Policies /\ ops \in SUBSET Nat /\ known \in SUBSET Devices
    BY <2>1, <2>4 DEF RelayStates, r
  <2> HIDE DEF policies, ops, known
  <2> QED BY <2>1, <2>2, <2>3, <2>4, <2>5 DEF RelayStates, r
<1>2. inbox = <<>> /\ inbox \in Seq(RowSet)
  BY DEF Init
<1>3. /\ vault \in Vaults /\ vault.entries = {} /\ vault.local = {} /\ (\A r \in Requests : vault.ledger[r] = None)
  BY DEF Init, Vaults, None
<1>4. /\ journal \in [Requests -> {None, "open", "finished"}] /\ (\A r \in Requests : journal[r] # "open")
      /\ accounts = {} /\ revoked = {}
  BY DEF Init, None
<1>5. /\ job \in Jobs /\ job.pc = "idle"
  BY Beginnings DEF Init, Idle
<1>6. /\ outbox \in [Requests -> Proposals] /\ \A r \in Requests : outbox[r].status = None
  BY Beginnings DEF Init, NotProposed
<1>7. /\ submitter \in [Devices -> Submitters]
      /\ \A d \in Devices : submitter[d].pc = "idle" /\ submitter[d].todo = {}
  BY Beginnings DEF Init, NoSubmit
<1>8. device \in [Devices -> [policy : Policies, entries : SUBSET Requests]]
  BY Beginnings DEF Init
<1>9. Typed
  BY <1>1, <1>2, <1>3, <1>4, <1>5, <1>6, <1>7, <1>8 DEF Typed
<1>10. VaultSound /\ SecretsSound /\ ImportSound
  BY <1>3, <1>4, <1>5 DEF VaultSound, SecretsSound, ImportSound, None
<1>11. KnownSound /\ SubmitSound
  BY <1>2, <1>6, <1>7 DEF KnownSound, SubmitSound, Outcomes, None
<1> QED BY <1>9, <1>10, <1>11 DEF InboxInv

LEMMA RowsTyped ==
  ASSUME Typed
  PROVE  \A i \in DOMAIN inbox : inbox[i] \in RowSet /\ inbox[i].request \in Requests
<1>1. inbox \in Seq(RowSet)
  BY DEF Typed
<1>2. \A i \in DOMAIN inbox : inbox[i] \in RowSet
  BY <1>1
<1> QED BY <1>2 DEF RowSet

\* The master and its import are not concerned.
LEMMA MasterKept ==
  ASSUME InboxInv, UNCHANGED <<vault, accounts, journal, revoked, job>>
  PROVE  VaultSound' /\ SecretsSound' /\ ImportSound'
BY DEF InboxInv, VaultSound, SecretsSound, ImportSound, Decided

\* The ledger only grows, and no one else has moved.
LEMMA LedgerGrows ==
  ASSUME InboxInv, UNCHANGED <<inbox, outbox, submitter>>,
         \A r \in Requests : Decided(r) => vault'.ledger[r] = vault.ledger[r]
  PROVE  KnownSound' /\ SubmitSound'
<1>1. \A i \in DOMAIN inbox : inbox[i].request \in Requests
  BY RowsTyped DEF InboxInv
<1>2. \A i \in DOMAIN inbox : inbox[i].receipt \in {None, vault'.ledger[inbox[i].request]}
  BY <1>1 DEF InboxInv, KnownSound, Decided
<1>3. ASSUME NEW r \in Requests
      PROVE  /\ outbox[r].status \in Outcomes => outbox[r].status = vault'.ledger[r]
             /\ outbox[r].status = "published" => vault'.ledger[r] = "accepted"
  BY DEF InboxInv, KnownSound, Decided, Outcomes, None
<1>4. \A r : Uploaded(r)' <=> Uploaded(r)
  BY DEF Uploaded, Rows
<1>5. KnownSound'
  BY <1>2, <1>3, <1>4 DEF InboxInv, KnownSound
<1>6. SubmitSound'
  BY <1>4 DEF InboxInv, SubmitSound
<1> QED BY <1>5, <1>6

\* What may become of a proposal in an outbox.
OutboxFollows ==
  \A r \in Requests : \/ outbox'[r].status = outbox[r].status
                      \/ outbox'[r].status = "local_pending"
                      \/ outbox'[r].status = "uploaded" /\ Uploaded(r)
                      \/ outbox'[r].status = vault.ledger[r] /\ Uploaded(r) /\ Decided(r)
                      \/ outbox'[r].status = "published" /\ vault.ledger[r] = "accepted" /\ Uploaded(r)

LEMMA OutboxMoves ==
  ASSUME InboxInv, UNCHANGED <<inbox, vault>>,
         OutboxFollows
  PROVE  KnownSound' /\ \A r \in Requests : outbox[r].status # None => outbox'[r].status # None
<1>1. \A r : Uploaded(r)' <=> Uploaded(r)
  BY DEF Uploaded, Rows
<1>2. ASSUME NEW r \in Requests
      PROVE  /\ outbox'[r].status \in Outcomes => outbox'[r].status = vault.ledger[r]
             /\ outbox'[r].status = "published" => vault.ledger[r] = "accepted"
             /\ outbox'[r].status \notin {None, "local_pending"} => Uploaded(r)
             /\ outbox[r].status # None => outbox'[r].status # None
  <2>1. vault.ledger[r] \in Outcomes \union {None}
    BY DEF InboxInv, Typed, Vaults
  <2> QED BY <2>1 DEF OutboxFollows, InboxInv, KnownSound, Decided, Outcomes, None
<1> QED BY <1>1, <1>2 DEF InboxInv, KnownSound

-----------------------------------------------------------------------------
(* The devices *)

LEMMA RowIs ==
  ASSUME NEW r, Uploaded(r)
  PROVE  \E i \in DOMAIN inbox : Row(r) = inbox[i] /\ inbox[i].request = r
<1>1. \E x \in Rows : x.request = r
  BY DEF Uploaded
<1>2. Row(r) \in Rows /\ Row(r).request = r
  BY <1>1 DEF Row
<1> QED BY <1>2 DEF Rows

LEMMA StepCreate == ASSUME InboxInv, NEW r \in Requests, Create(r) PROVE InboxInv' /\ OutboxFollows
<1> DEFINE policy == device[Author[r]].policy
           new == [status |-> "local_pending", policy |-> policy]
<1>1. /\ outbox' = [outbox EXCEPT ![r] = new] /\ Typed
      /\ UNCHANGED <<relay, inbox, vault, accounts, journal, revoked, job, submitter, device>>
  BY DEF Create, InboxInv
<1>2. new \in Proposals
  BY <1>1, InboxAssumption DEF Typed, Proposals, Statuses
<1>3. new.status = "local_pending"
  OBVIOUS
<1> HIDE DEF new
<1>4. outbox' \in [Requests -> Proposals] /\ outbox'[r] = new /\ \A s \in Requests : s # r => outbox'[s] = outbox[s]
  BY <1>1, <1>2 DEF Typed
<1>5. OutboxFollows
  BY <1>3, <1>4 DEF OutboxFollows
<1>6. KnownSound' /\ \A s \in Requests : outbox[s].status # None => outbox'[s].status # None
  BY <1>1, <1>5, OutboxMoves
<1>7. \A s : Uploaded(s)' <=> Uploaded(s)
  BY <1>1 DEF Uploaded, Rows
<1>8. SubmitSound'
  BY <1>1, <1>6, <1>7 DEF InboxInv, SubmitSound, Typed, Submitters
<1>9. VaultSound' /\ SecretsSound' /\ ImportSound'
  BY <1>1, MasterKept
<1>10. Typed'
  BY <1>1, <1>4 DEF Typed
<1> QED BY <1>5, <1>6, <1>8, <1>9, <1>10 DEF InboxInv

\* A submit that only moves on: what it has to rely on holds of the new state.
LEMMA SubmitterMoves ==
  ASSUME InboxInv, NEW d \in Devices, NEW to \in Submitters,
         submitter' = [submitter EXCEPT ![d] = to],
         UNCHANGED <<relay, inbox, vault, accounts, journal, revoked, job, outbox, device>>,
         \A r \in to.todo : outbox[r].status # None,
         to.pc \in {"post", "save", "poll"} => to.item \in Requests /\ outbox[to.item].status # None,
         to.pc \in {"save", "poll"} => Uploaded(to.item)
  PROVE  InboxInv'
<1>1. /\ Typed /\ submitter' \in [Devices -> Submitters] /\ submitter'[d] = to
      /\ \A c \in Devices : c # d => submitter'[c] = submitter[c]
  BY DEF InboxInv, Typed
<1>2. Typed'
  BY <1>1 DEF Typed
<1>3. \A r : Uploaded(r)' <=> Uploaded(r)
  BY DEF Uploaded, Rows
<1>4. KnownSound'
  BY <1>3 DEF InboxInv, KnownSound
<1>5. SubmitSound'
  <2> SUFFICES ASSUME NEW c \in Devices
               PROVE  /\ \A r \in submitter'[c].todo : outbox[r].status # None
                      /\ submitter'[c].pc \in {"post", "save", "poll"} =>
                           submitter'[c].item \in Requests /\ outbox[submitter'[c].item].status # None
                      /\ submitter'[c].pc \in {"save", "poll"} => Uploaded(submitter'[c].item)
    BY <1>3 DEF SubmitSound
  <2>1. CASE c = d
    BY <1>1, <2>1
  <2>2. CASE c # d
    BY <1>1, <2>2 DEF InboxInv, SubmitSound
  <2> QED BY <2>1, <2>2
<1>6. VaultSound' /\ SecretsSound' /\ ImportSound'
  BY MasterKept
<1> QED BY <1>2, <1>4, <1>5, <1>6 DEF InboxInv

LEMMA StepSubmitterRests ==
  ASSUME InboxInv, NEW d \in Devices, EndSubmit(d) \/ DeviceFails(d)
  PROVE  InboxInv'
<1>1. NoSubmit \in Submitters /\ NoSubmit.pc = "idle" /\ NoSubmit.todo = {}
  BY Beginnings DEF NoSubmit
<1> QED BY <1>1, SubmitterMoves DEF EndSubmit, DeviceFails

LEMMA StepStartSubmit == ASSUME InboxInv, NEW d \in Devices, StartSubmit(d) PROVE InboxInv'
<1> DEFINE seen == {r \in Requests : Author[r] = d /\ outbox[r].status # None}
           to == [pc |-> "next", item |-> None, seen |-> seen, todo |-> seen]
<1>1. submitter' = [submitter EXCEPT ![d] = to]
  BY DEF StartSubmit
<1>2. to \in Submitters /\ to.pc = "next" /\ to.todo = seen
  BY DEF Submitters
<1>3. \A r \in to.todo : outbox[r].status # None
  OBVIOUS
<1> HIDE DEF to
<1> QED BY <1>1, <1>2, <1>3, SubmitterMoves DEF StartSubmit

LEMMA StepSubmitItem ==
  ASSUME InboxInv, NEW d \in Devices, NEW r \in Requests, SubmitItem(d, r)
  PROVE  InboxInv'
<1> DEFINE pc == IF outbox[r].status = "local_pending" THEN "post" ELSE "poll"
           to == [submitter[d] EXCEPT !.pc = pc, !.item = r]
<1>1. submitter \in [Devices -> Submitters] /\ submitter[d] \in Submitters
  BY DEF InboxInv, Typed
<1>2. submitter' = [submitter EXCEPT ![d] = to]
  BY <1>1 DEF SubmitItem
<1>3. to \in Submitters /\ to.pc = pc /\ to.item = r /\ to.todo = submitter[d].todo
  BY <1>1 DEF Submitters
<1>4. outbox[r].status # None /\ (pc = "poll" => Uploaded(r)) /\ pc \in {"post", "poll"}
  BY DEF SubmitItem, InboxInv, SubmitSound, KnownSound
<1>5. \A s \in to.todo : outbox[s].status # None
  BY <1>3 DEF InboxInv, SubmitSound
<1> HIDE DEF to, pc
<1> QED BY <1>2, <1>3, <1>4, <1>5, SubmitterMoves DEF SubmitItem

\* The relay stores a proposal.
LEMMA StepPost == ASSUME InboxInv, NEW d \in Devices, Post(d) PROVE InboxInv'
<1> DEFINE r == submitter[d].item
           to == [submitter[d] EXCEPT !.pc = "save"]
           row == [request |-> r, policy |-> outbox[r].policy, receipt |-> None]
<1>1. /\ Typed /\ submitter[d] \in Submitters /\ r \in Requests /\ outbox[r].status # None
      /\ \A s \in submitter[d].todo : outbox[s].status # None
      /\ UNCHANGED <<relay, vault, accounts, journal, revoked, job, outbox, device>>
  BY DEF InboxInv, Typed, SubmitSound, Post
<1>2. CASE submitter' = [submitter EXCEPT ![d] = NoSubmit] /\ UNCHANGED inbox
  <2>1. NoSubmit \in Submitters /\ NoSubmit.pc = "idle" /\ NoSubmit.todo = {}
    BY Beginnings DEF NoSubmit
  <2> QED BY <1>2, <2>1, SubmitterMoves DEF Post
<1>3. CASE /\ inbox' = IF Uploaded(r) THEN inbox ELSE Append(inbox, row)
           /\ submitter' = [submitter EXCEPT ![d].pc = "save"]
  <2>1. submitter' = [submitter EXCEPT ![d] = to]
    BY <1>1, <1>3 DEF Typed
  <2>2. to \in Submitters /\ to.pc = "save" /\ to.item = r /\ to.todo = submitter[d].todo
    BY <1>1 DEF Submitters
  <2>3. CASE Uploaded(r)
    <3>1. UNCHANGED <<relay, inbox, vault, accounts, journal, revoked, job, outbox, device>>
      BY <1>1, <1>3, <2>3
    <3> HIDE DEF to, r
    <3> QED BY <1>1, <2>1, <2>2, <2>3, <3>1, SubmitterMoves
  <2>4. CASE ~Uploaded(r)
    <3>1. row \in RowSet /\ row.request = r /\ row.receipt = None
      BY <1>1 DEF RowSet, Typed, Proposals
    <3> HIDE DEF row
    <3>2. inbox \in Seq(RowSet) /\ inbox' = Append(inbox, row)
      BY <1>1, <1>3, <2>4 DEF Typed
    <3>3. /\ inbox' \in Seq(RowSet) /\ DOMAIN inbox' = DOMAIN inbox \union {Len(inbox) + 1}
          /\ inbox'[Len(inbox) + 1] = row /\ \A i \in DOMAIN inbox : inbox'[i] = inbox[i]
      BY <3>1, <3>2
    <3>4. \A i \in DOMAIN inbox : inbox[i].request # r
      BY <2>4 DEF Uploaded, Rows
    <3>5. \A s : Uploaded(s)' <=> Uploaded(s) \/ s = r
      <4>1. \A s : Uploaded(s) <=> \E i \in DOMAIN inbox : inbox[i].request = s
        BY DEF Uploaded, Rows
      <4>2. \A s : Uploaded(s)' <=> \E i \in DOMAIN inbox' : inbox'[i].request = s
        BY DEF Uploaded, Rows
      <4> QED BY <3>1, <3>3, <4>1, <4>2
    <3>6. KnownSound'
      <4>1. \A i, j \in DOMAIN inbox' : inbox'[i].request = inbox'[j].request => i = j
        BY <3>1, <3>3, <3>4 DEF InboxInv, KnownSound
      <4>2. \A i \in DOMAIN inbox' : inbox'[i].receipt \in {None, vault.ledger[inbox'[i].request]}
        BY <1>1, <3>1, <3>3 DEF InboxInv, KnownSound
      <4> QED BY <1>1, <3>5, <4>1, <4>2 DEF InboxInv, KnownSound
    <3>7. /\ submitter' \in [Devices -> Submitters] /\ submitter'[d] = to
          /\ \A c \in Devices : c # d => submitter'[c] = submitter[c]
      BY <1>1, <2>1, <2>2 DEF Typed
    <3> HIDE DEF to, r
    <3>8. SubmitSound'
      <4> SUFFICES ASSUME NEW c \in Devices
                   PROVE  /\ \A s \in submitter'[c].todo : outbox[s].status # None
                          /\ submitter'[c].pc \in {"post", "save", "poll"} =>
                               submitter'[c].item \in Requests /\ outbox[submitter'[c].item].status # None
                          /\ submitter'[c].pc \in {"save", "poll"} => Uploaded(submitter[c].item)'
        BY <1>1 DEF SubmitSound
      <4>1. CASE c = d
        BY <1>1, <2>2, <3>5, <3>7, <4>1
      <4>2. CASE c # d
        BY <1>1, <3>5, <3>7, <4>2 DEF InboxInv, SubmitSound
      <4> QED BY <4>1, <4>2
    <3>9. VaultSound' /\ SecretsSound' /\ ImportSound'
      BY <1>1, MasterKept
    <3>10. Typed'
      BY <1>1, <3>3, <3>7 DEF Typed
    <3> QED BY <3>6, <3>8, <3>9, <3>10 DEF InboxInv
  <2> QED BY <2>3, <2>4
<1> QED BY <1>2, <1>3 DEF Post

LEMMA StepSaveUploaded == ASSUME InboxInv, NEW d \in Devices, SaveUploaded(d) PROVE InboxInv' /\ OutboxFollows
<1> DEFINE r == submitter[d].item
           new == [outbox[r] EXCEPT !.status = "uploaded"]
           to == [submitter[d] EXCEPT !.pc = "poll"]
<1>1. /\ Typed /\ submitter[d] \in Submitters /\ r \in Requests /\ outbox[r] \in Proposals /\ Uploaded(r)
      /\ \A s \in submitter[d].todo : outbox[s].status # None
      /\ UNCHANGED <<relay, inbox, vault, accounts, journal, revoked, job, device>>
  BY DEF InboxInv, Typed, SubmitSound, SaveUploaded
<1>2. outbox' = [outbox EXCEPT ![r] = new] /\ submitter' = [submitter EXCEPT ![d] = to]
  BY <1>1 DEF SaveUploaded, Saved, Typed
<1>3. new \in Proposals /\ new.status = "uploaded"
  BY <1>1 DEF Proposals, Statuses
<1>4. to \in Submitters /\ to.pc = "poll" /\ to.item = r /\ to.todo = submitter[d].todo
  BY <1>1 DEF Submitters
<1> HIDE DEF new, to, r
<1>5. /\ outbox' \in [Requests -> Proposals] /\ outbox'[r] = new
      /\ \A s \in Requests : s # r => outbox'[s] = outbox[s]
  BY <1>1, <1>2, <1>3 DEF Typed
<1>6. OutboxFollows
  BY <1>1, <1>3, <1>5 DEF OutboxFollows
<1>7. KnownSound' /\ \A s \in Requests : outbox[s].status # None => outbox'[s].status # None
  BY <1>1, <1>6, OutboxMoves
<1>8. /\ submitter' \in [Devices -> Submitters] /\ submitter'[d] = to
      /\ \A c \in Devices : c # d => submitter'[c] = submitter[c]
  BY <1>1, <1>2, <1>4 DEF Typed
<1>9. \A s : Uploaded(s)' <=> Uploaded(s)
  BY <1>1 DEF Uploaded, Rows
<1>10. SubmitSound'
  <2> SUFFICES ASSUME NEW c \in Devices
               PROVE  /\ \A s \in submitter'[c].todo : outbox'[s].status # None
                      /\ submitter'[c].pc \in {"post", "save", "poll"} =>
                           submitter'[c].item \in Requests /\ outbox'[submitter'[c].item].status # None
                      /\ submitter'[c].pc \in {"save", "poll"} => Uploaded(submitter'[c].item)
    BY <1>9 DEF SubmitSound
  <2>1. submitter[d].todo \subseteq Requests /\ submitter[c].todo \subseteq Requests
    BY <1>1 DEF Typed, Submitters
  <2>2. CASE c = d
    BY <1>1, <1>3, <1>4, <1>5, <1>7, <1>8, <2>1, <2>2 DEF None
  <2>3. CASE c # d
    BY <1>7, <1>8, <2>1, <2>3 DEF InboxInv, SubmitSound
  <2> QED BY <2>2, <2>3
<1>11. VaultSound' /\ SecretsSound' /\ ImportSound'
  BY <1>1, MasterKept
<1>12. Typed'
  BY <1>1, <1>5, <1>8 DEF Typed
<1> QED BY <1>6, <1>7, <1>10, <1>11, <1>12 DEF InboxInv

LEMMA StepPoll == ASSUME InboxInv, NEW d \in Devices, Poll(d) PROVE InboxInv' /\ OutboxFollows
<1> DEFINE r == submitter[d].item
           receipt == Row(r).receipt
           new == [outbox[r] EXCEPT !.status = Seen(d, r, receipt)]
           to == [submitter[d] EXCEPT !.pc = "next", !.item = None, !.todo = @ \ {r}]
<1>1. /\ Typed /\ submitter[d] \in Submitters /\ r \in Requests /\ outbox[r] \in Proposals /\ Uploaded(r)
      /\ \A s \in submitter[d].todo : outbox[s].status # None
      /\ UNCHANGED <<relay, inbox, vault, accounts, journal, revoked, job, device>>
  BY DEF InboxInv, Typed, SubmitSound, Poll
<1>2. receipt \in {None, vault.ledger[r]} /\ vault.ledger[r] \in Outcomes \union {None}
  <2>1. PICK i \in DOMAIN inbox : Row(r) = inbox[i] /\ inbox[i].request = r
    BY <1>1, RowIs
  <2>2. inbox[i].receipt \in {None, vault.ledger[inbox[i].request]}
    BY DEF InboxInv, KnownSound
  <2> QED BY <1>1, <2>1, <2>2 DEF Typed, Vaults
<1>3. CASE submitter' = [submitter EXCEPT ![d] = NoSubmit] /\ UNCHANGED outbox
  <2>1. NoSubmit \in Submitters /\ NoSubmit.pc = "idle" /\ NoSubmit.todo = {}
    BY Beginnings DEF NoSubmit
  <2>2. InboxInv'
    BY <1>1, <1>3, <2>1, SubmitterMoves
  <2> QED BY <1>3, <2>2 DEF OutboxFollows
<1>4. CASE /\ outbox' = IF receipt = None THEN outbox ELSE Saved(d, r, Seen(d, r, receipt))
           /\ submitter' = [submitter EXCEPT ![d] = to]
  <2>1. to \in Submitters /\ to.pc = "next" /\ to.todo \subseteq submitter[d].todo
    <3> DEFINE todo == submitter[d].todo \ {r}
    <3>1. to = [submitter[d] EXCEPT !.pc = "next", !.item = None, !.todo = todo]
      BY <1>1 DEF Submitters
    <3>2. todo \in SUBSET Requests /\ todo \subseteq submitter[d].todo
      BY <1>1 DEF Submitters
    <3> HIDE DEF todo
    <3> QED BY <1>1, <3>1, <3>2 DEF Submitters
  <2> HIDE DEF to
  <2>2. CASE receipt = None
    <3>1. outbox' = outbox
      BY <1>4, <2>2
    <3>2. InboxInv'
      BY <1>1, <1>4, <2>1, <3>1, SubmitterMoves
    <3> QED BY <3>1, <3>2 DEF OutboxFollows
  <2>3. CASE receipt # None
    <3>1. outbox' = [outbox EXCEPT ![r] = new]
      BY <1>4, <2>3 DEF Saved
    <3>2. /\ Decided(r) /\ receipt = vault.ledger[r] /\ receipt \in Outcomes
          /\ Seen(d, r, receipt) \in {receipt, "published"}
          /\ Seen(d, r, receipt) = "published" => vault.ledger[r] = "accepted"
      BY <1>2, <2>3 DEF Decided, Seen, Outcomes, None
    <3>3. new \in Proposals /\ new.status = Seen(d, r, receipt)
      <4>1. Seen(d, r, receipt) \in Statuses
        BY <3>2 DEF Statuses, Final
      <4> QED BY <1>1, <4>1 DEF Proposals
    <3> HIDE DEF new, r, receipt
    <3>4. /\ outbox' \in [Requests -> Proposals] /\ outbox'[r] = new
          /\ \A s \in Requests : s # r => outbox'[s] = outbox[s]
      BY <1>1, <3>1, <3>3 DEF Typed
    <3>5. OutboxFollows
      <4>1. \/ new.status = vault.ledger[r]
            \/ new.status = "published" /\ vault.ledger[r] = "accepted"
        BY <3>2, <3>3
      <4> QED BY <1>1, <3>2, <3>4, <4>1 DEF OutboxFollows
    <3>6. KnownSound' /\ \A s \in Requests : outbox[s].status # None => outbox'[s].status # None
      BY <1>1, <3>5, OutboxMoves
    <3>7. /\ submitter' \in [Devices -> Submitters] /\ submitter'[d] = to
          /\ \A c \in Devices : c # d => submitter'[c] = submitter[c]
      BY <1>1, <1>4, <2>1 DEF Typed
    <3>8. \A s : Uploaded(s)' <=> Uploaded(s)
      BY <1>1 DEF Uploaded, Rows
    <3>9. SubmitSound'
      <4> SUFFICES ASSUME NEW c \in Devices
                   PROVE  /\ \A s \in submitter'[c].todo : outbox'[s].status # None
                          /\ submitter'[c].pc \in {"post", "save", "poll"} =>
                               submitter'[c].item \in Requests /\ outbox'[submitter'[c].item].status # None
                          /\ submitter'[c].pc \in {"save", "poll"} => Uploaded(submitter'[c].item)
        BY <3>8 DEF SubmitSound
      <4>1. submitter[d].todo \subseteq Requests /\ submitter[c].todo \subseteq Requests
        BY <1>1 DEF Typed, Submitters
      <4>2. CASE c = d
        BY <1>1, <2>1, <3>6, <3>7, <4>1, <4>2
      <4>3. CASE c # d
        BY <3>6, <3>7, <4>1, <4>3 DEF InboxInv, SubmitSound
      <4> QED BY <4>2, <4>3
    <3>10. VaultSound' /\ SecretsSound' /\ ImportSound'
      BY <1>1, MasterKept
    <3>11. Typed'
      BY <1>1, <3>4, <3>7 DEF Typed
    <3> QED BY <3>5, <3>6, <3>9, <3>10, <3>11 DEF InboxInv
  <2> QED BY <2>2, <2>3
<1>5. submitter \in [Devices -> Submitters]
  BY <1>1 DEF Typed
<1>6. CASE MayRead(relay, d)
  <2>1. submitter' = [submitter EXCEPT ![d] = to]
    BY <1>6 DEF Poll
  <2>2. outbox' = IF receipt = None THEN outbox ELSE Saved(d, r, Seen(d, r, receipt))
    BY <1>6 DEF Poll
  <2> QED BY <1>4, <2>1, <2>2
<1> QED BY <1>3, <1>6 DEF Poll

LEMMA StepPull == ASSUME InboxInv, NEW d \in Devices, Pull(d) PROVE InboxInv'
<1> DEFINE to == [policy |-> relay.policy, entries |-> relay.head.content]
<1>1. /\ Typed /\ device' = [device EXCEPT ![d] = to]
      /\ UNCHANGED <<relay, inbox, vault, accounts, journal, revoked, job, outbox, submitter>>
  BY DEF InboxInv, Pull
<1>2. to \in [policy : Policies, entries : SUBSET Requests]
  BY <1>1 DEF Typed, RelayStates, Heads
<1> HIDE DEF to
<1>3. Typed'
  BY <1>1, <1>2 DEF Typed
<1> QED BY <1>1, <1>3, MasterKept, LedgerGrows DEF InboxInv

-----------------------------------------------------------------------------
(* The master outside the import *)

LEMMA StepAddLocalEntry == ASSUME InboxInv, NEW n \in Names, AddLocalEntry(n) PROVE InboxInv'
<1>1. /\ Typed /\ ~NameTaken(n) /\ vault' = [vault EXCEPT !.local = @ \union {n}]
      /\ UNCHANGED <<relay, inbox, accounts, journal, revoked, job, outbox, submitter, device>>
  BY DEF InboxInv, AddLocalEntry, UnchangedDevices
<1>2. /\ vault' \in Vaults /\ vault'.entries = vault.entries /\ vault'.ledger = vault.ledger
      /\ vault'.local = vault.local \union {n}
  BY <1>1 DEF Typed, Vaults
<1>3. Typed'
  BY <1>1, <1>2 DEF Typed
<1>4. VaultSound'
  BY <1>1, <1>2 DEF InboxInv, VaultSound, NameTaken
<1>5. SecretsSound' /\ ImportSound'
  BY <1>1, <1>2 DEF InboxInv, SecretsSound, ImportSound, Decided
<1> QED BY <1>1, <1>2, <1>3, <1>4, <1>5, LedgerGrows DEF InboxInv

\* A revocation waits for an import that has passed its check.
LEMMA StepRequestRevoke == ASSUME InboxInv, NEW d \in Devices, RequestRevoke(d) PROVE InboxInv'
<1>1. /\ Typed /\ job.pc \notin {"resume", "commit", "finish"} /\ revoked' = revoked \union {d}
      /\ UNCHANGED <<relay, inbox, vault, accounts, journal, job, outbox, submitter, device>>
  BY DEF InboxInv, RequestRevoke, Importing, UnchangedDevices
<1>2. Typed'
  BY <1>1 DEF Typed
<1>3. VaultSound' /\ SecretsSound' /\ ImportSound'
  BY <1>1 DEF InboxInv, VaultSound, SecretsSound, ImportSound, Decided
<1> QED BY <1>1, <1>2, <1>3, LedgerGrows DEF InboxInv

LEMMA StepPostBlock == ASSUME InboxInv, NEW d \in Devices, PostBlock(d) PROVE InboxInv'
<1> DEFINE b == Revocation(d, relay.policy)
<1>1. /\ Typed /\ relay \in RelayStates /\ relay' = AfterBlock(relay, b)
      /\ UNCHANGED <<inbox, vault, accounts, journal, revoked, job, outbox, submitter, device>>
  BY DEF InboxInv, Typed, PostBlock, UnchangedDevices
<1>2. b \in [device : Devices, policy : Policies]
  BY <1>1 DEF Revocation, RelayStates
<1> HIDE DEF b
<1>3. relay' \in RelayStates
  BY <1>1, <1>2 DEF AfterBlock, RelayStates
<1>4. Typed'
  BY <1>1, <1>3 DEF Typed
<1> QED BY <1>1, <1>4, MasterKept, LedgerGrows DEF InboxInv

LEMMA StepPublish == ASSUME InboxInv, Publish PROVE InboxInv'
<1> DEFINE grants == relay.policy.grants \ revoked
           rotate == grants # relay.policy.grants \/ relay.head.content # vault.entries
           policy == IF rotate THEN NextPolicy(relay.policy, grants, relay.head.seq) ELSE relay.policy
           s == Snapshot(relay.head.op + 1, relay.head.seq + 1, policy, vault.entries)
<1>1. /\ Typed /\ relay \in RelayStates /\ vault \in Vaults
      /\ relay' = Published(relay, [snapshot |-> s])
      /\ UNCHANGED <<inbox, vault, accounts, journal, revoked, job, outbox, submitter, device>>
  BY DEF InboxInv, Typed, Publish, UnchangedDevices
<1>2. /\ relay.policy \in Policies /\ relay.head \in Heads /\ vault.entries \in SUBSET Requests
  BY <1>1 DEF RelayStates, Vaults
<1>3. relay.head.op \in Nat /\ relay.head.seq \in Nat /\ grants \in SUBSET Devices
      /\ relay.policy.version \in Nat
  BY <1>2 DEF Heads, Policies
<1>4. policy \in Policies
  <2> HIDE DEF grants, rotate
  <2> QED BY <1>2, <1>3 DEF NextPolicy, Policies
<1> HIDE DEF policy
<1>5. s \in Heads
  BY <1>2, <1>3, <1>4 DEF Snapshot, Heads
<1> HIDE DEF s
<1>6. relay' \in RelayStates
  BY <1>1, <1>5, PublishedTyped
<1>7. Typed'
  BY <1>1, <1>6 DEF Typed
<1> QED BY <1>1, <1>7, MasterKept, LedgerGrows DEF InboxInv

-----------------------------------------------------------------------------
(* The import *)

\* The job moves to pc: the rest of the job is as it was.
LEMMA JobMoves ==
  ASSUME job \in Jobs, NEW pc \in {"recover", "list", "resume", "commit", "finish", "ack"},
         job' = [job EXCEPT !.pc = pc]
  PROVE  job' \in Jobs /\ job'.pc = pc /\ job'.item = job.item
BY DEF Jobs

LEMMA StepStartReceive == ASSUME InboxInv, StartReceive PROVE InboxInv'
<1>1. /\ Typed /\ job' = [pc |-> "recover", item |-> None, policy |-> relay.policy]
      /\ UNCHANGED <<relay, inbox, vault, accounts, journal, revoked, outbox, submitter, device>>
  BY DEF InboxInv, StartReceive, JobStep, UnchangedDevices
<1>2. job' \in Jobs /\ job'.pc = "recover"
  BY <1>1 DEF Typed, RelayStates, Jobs
<1>3. Typed'
  BY <1>1, <1>2 DEF Typed
<1>4. VaultSound' /\ SecretsSound' /\ ImportSound'
  BY <1>1, <1>2 DEF InboxInv, VaultSound, SecretsSound, ImportSound, Decided
<1> QED BY <1>1, <1>3, <1>4, LedgerGrows DEF InboxInv

LEMMA StepMasterFails == ASSUME InboxInv, MasterFails PROVE InboxInv'
<1>1. /\ Typed /\ job' = Idle
      /\ UNCHANGED <<relay, inbox, vault, accounts, journal, revoked, outbox, submitter, device>>
  BY DEF InboxInv, MasterFails, UnchangedDevices
<1>2. job' \in Jobs /\ job'.pc = "idle"
  BY <1>1, Beginnings DEF Idle
<1>3. Typed'
  BY <1>1, <1>2 DEF Typed
<1>4. VaultSound' /\ SecretsSound' /\ ImportSound'
  BY <1>1, <1>2 DEF InboxInv, VaultSound, SecretsSound, ImportSound, Decided
<1> QED BY <1>1, <1>3, <1>4, LedgerGrows DEF InboxInv

LEMMA StepRecover == ASSUME InboxInv, Recover PROVE InboxInv'
<1>1. /\ Typed /\ job \in Jobs
      /\ UNCHANGED <<relay, inbox, vault, accounts, journal, revoked, outbox, submitter, device>>
  BY DEF InboxInv, Typed, Recover, JobStep, UnchangedDevices
<1>2. job' \in Jobs /\ \/ job'.pc = "list" /\ \A r \in Requests : journal[r] # "open"
                       \/ job'.pc = "resume" /\ job'.item \in Requests /\ journal[job'.item] = "open"
  BY <1>1 DEF Recover, Jobs
<1>3. Typed'
  BY <1>1, <1>2 DEF Typed
<1>4. VaultSound' /\ SecretsSound' /\ ImportSound'
  BY <1>1, <1>2 DEF InboxInv, VaultSound, SecretsSound, ImportSound, Decided
<1> QED BY <1>1, <1>3, <1>4, LedgerGrows DEF InboxInv

LEMMA StepList == ASSUME InboxInv, List PROVE InboxInv'
<1>1. /\ Typed /\ job \in Jobs /\ job.pc = "list" /\ \A r \in Requests : journal[r] # "open"
      /\ UNCHANGED <<relay, inbox, vault, accounts, journal, revoked, outbox, submitter, device>>
  BY DEF InboxInv, Typed, ImportSound, List, JobStep, UnchangedDevices
<1>2. job' \in Jobs /\ (job'.pc = "idle" \/ (job'.pc = "accept" /\ job'.item \in Requests))
  <2>1. CASE job' = Idle
    BY <2>1, Beginnings DEF Idle
  <2>2. ASSUME NEW i \in DOMAIN inbox, job' = [job EXCEPT !.pc = "accept", !.item = inbox[i].request]
        PROVE  job' \in Jobs /\ job'.pc = "accept" /\ job'.item \in Requests
    <3>1. inbox[i].request \in Requests
      BY <1>1, RowsTyped
    <3> QED BY <1>1, <2>2, <3>1 DEF Jobs
  <2> QED BY <2>1, <2>2 DEF List, Waiting
<1>3. Typed'
  BY <1>1, <1>2 DEF Typed
<1>4. VaultSound' /\ SecretsSound' /\ ImportSound'
  BY <1>1, <1>2 DEF InboxInv, VaultSound, SecretsSound, ImportSound, Decided
<1> QED BY <1>1, <1>3, <1>4, LedgerGrows DEF InboxInv

\* An outcome that is recorded for a proposal without one.
LEMMA OutcomeIs ==
  ASSUME Typed, NEW r \in Requests, ~Decided(r), NEW outcome \in Outcomes
  PROVE  /\ WithOutcome(vault, r, outcome) \in Vaults
         /\ WithOutcome(vault, r, outcome).entries = vault.entries
         /\ WithOutcome(vault, r, outcome).local = vault.local
         /\ WithOutcome(vault, r, outcome).ledger = [vault.ledger EXCEPT ![r] = outcome]
         /\ WithOutcome(vault, r, outcome).ledger[r] = outcome
         /\ \A s \in Requests : s # r => WithOutcome(vault, r, outcome).ledger[s] = vault.ledger[s]
<1> DEFINE ledger == [vault.ledger EXCEPT ![r] = outcome]
<1>1. vault \in Vaults /\ vault.ledger \in [Requests -> Outcomes \union {None}]
  BY DEF Typed, Vaults
<1>2. /\ ledger \in [Requests -> Outcomes \union {None}] /\ ledger[r] = outcome
      /\ \A s \in Requests : s # r => ledger[s] = vault.ledger[s]
  BY <1>1
<1>3. WithOutcome(vault, r, outcome) = [vault EXCEPT !.ledger = ledger]
  BY <1>1 DEF WithOutcome, Decided, Vaults
<1> HIDE DEF ledger
<1> QED BY <1>1, <1>2, <1>3 DEF Vaults, ledger

LEMMA StepAccept == ASSUME InboxInv, Accept PROVE InboxInv'
<1> DEFINE r == job.item
<1>1. /\ Typed /\ job \in Jobs /\ r \in Requests /\ \A s \in Requests : journal[s] # "open"
      /\ UNCHANGED <<relay, inbox, accounts, revoked, outbox, submitter, device>>
  BY DEF InboxInv, Typed, ImportSound, Accept, JobStep, UnchangedDevices
<1>2. CASE Decided(r) /\ job' = [job EXCEPT !.pc = "ack"] /\ UNCHANGED <<vault, journal>>
  <2>1. job' \in Jobs /\ job'.pc = "ack" /\ job'.item = r
    BY <1>1, <1>2, JobMoves
  <2>2. Typed'
    BY <1>1, <1>2, <2>1 DEF Typed
  <2>3. VaultSound' /\ SecretsSound' /\ ImportSound'
    BY <1>1, <1>2, <2>1 DEF InboxInv, VaultSound, SecretsSound, ImportSound, Decided
  <2> QED BY <1>1, <1>2, <2>2, <2>3, LedgerGrows DEF InboxInv
<1>3. ASSUME NEW outcome \in {"quarantined", "conflict"}, ~Decided(r), vault' = WithOutcome(vault, r, outcome),
             job' = [job EXCEPT !.pc = "ack"], UNCHANGED journal
      PROVE  InboxInv'
  <2>1. job' \in Jobs /\ job'.pc = "ack" /\ job'.item = r
    BY <1>1, <1>3, JobMoves
  <2>2. outcome \in Outcomes /\ outcome # "accepted" /\ outcome # None
    BY DEF Outcomes, None
  <2>3. /\ vault' \in Vaults /\ vault'.entries = vault.entries /\ vault'.local = vault.local
        /\ vault'.ledger[r] = outcome /\ \A s \in Requests : s # r => vault'.ledger[s] = vault.ledger[s]
    <3> HIDE DEF r
    <3>1. Typed /\ r \in Requests /\ ~Decided(r) /\ outcome \in Outcomes
      BY <1>1, <1>3, <2>2
    <3> DEFINE v == WithOutcome(vault, r, outcome)
    <3>2. /\ v \in Vaults /\ v.entries = vault.entries /\ v.local = vault.local
          /\ v.ledger[r] = outcome /\ \A s \in Requests : s # r => v.ledger[s] = vault.ledger[s]
      BY <3>1, OutcomeIs, Zenon
    <3> HIDE DEF v
    <3>3. vault' = v
      BY <1>3 DEF v
    <3> QED BY <3>2, <3>3
  <2>4. vault.ledger[r] # "accepted"
    BY <1>3 DEF Decided, None
  <2>5. Typed'
    BY <1>1, <1>3, <2>1, <2>3 DEF Typed
  <2>6. VaultSound'
    BY <1>1, <2>2, <2>3, <2>4 DEF InboxInv, VaultSound
  <2>7. SecretsSound'
    BY <1>1, <1>3, <2>3 DEF InboxInv, Typed, SecretsSound
  <2>8. ImportSound'
    BY <1>1, <1>3, <2>1, <2>2, <2>3 DEF ImportSound, Decided
  <2>9. \A s \in Requests : Decided(s) => vault'.ledger[s] = vault.ledger[s]
    BY <1>3, <2>3
  <2> QED BY <1>1, <2>5, <2>6, <2>7, <2>8, <2>9, LedgerGrows DEF InboxInv
<1>4. CASE /\ ~Decided(r) /\ journal' = [journal EXCEPT ![r] = "open"]
           /\ job' = [job EXCEPT !.pc = "resume"] /\ UNCHANGED vault
  <2>1. job' \in Jobs /\ job'.pc = "resume" /\ job'.item = r
    BY <1>1, <1>4, JobMoves
  <2>2. /\ journal' \in [Requests -> {None, "open", "finished"}] /\ journal'[r] = "open"
        /\ \A s \in Requests : s # r => journal'[s] = journal[s]
    BY <1>1, <1>4 DEF Typed
  <2>3. Typed'
    BY <1>1, <1>4, <2>1, <2>2 DEF Typed
  <2>4. VaultSound'
    BY <1>4 DEF InboxInv, VaultSound
  <2>5. SecretsSound'
    BY <1>1, <1>4, <2>2 DEF InboxInv, Typed, SecretsSound, Decided
  <2>6. ImportSound'
    BY <1>1, <2>1, <2>2 DEF ImportSound
  <2> QED BY <1>1, <1>4, <2>3, <2>4, <2>5, <2>6, LedgerGrows DEF InboxInv
<1> QED BY <1>2, <1>3, <1>4 DEF Accept

\* An open import that ends without an entry takes its secret with it.
LEMMA Refusal ==
  ASSUME InboxInv, job.item \in Requests, ~Decided(job.item), journal[job.item] = "open",
         NEW outcome \in {"quarantined", "conflict"},
         accounts' = WithoutSecret(job.item), vault' = WithOutcome(vault, job.item, outcome),
         job' = [job EXCEPT !.pc = "finish"],
         UNCHANGED <<relay, inbox, journal, revoked, outbox, submitter, device>>
  PROVE  InboxInv'
<1> DEFINE r == job.item
           v == WithOutcome(vault, r, outcome)
<1>1. /\ Typed /\ job \in Jobs /\ r \in Requests /\ ~Decided(r) /\ journal[r] = "open"
      /\ outcome \in Outcomes /\ outcome # "accepted" /\ outcome # None
      /\ accounts' = accounts \ {r} /\ vault' = v
  BY DEF InboxInv, Typed, Outcomes, None, WithoutSecret
<1>2. job' \in Jobs /\ job'.pc = "finish" /\ job'.item = r
  BY <1>1, JobMoves
<1> HIDE DEF r
<1>3. /\ v \in Vaults /\ v.entries = vault.entries /\ v.local = vault.local
      /\ v.ledger[r] = outcome /\ \A s \in Requests : s # r => v.ledger[s] = vault.ledger[s]
  BY <1>1, OutcomeIs, Zenon
<1> HIDE DEF v
<1>4. vault.ledger[r] # "accepted" /\ r \notin vault.entries
  BY <1>1 DEF Decided, None, InboxInv, VaultSound
<1>5. Typed'
  BY <1>1, <1>2, <1>3 DEF Typed
<1>6. VaultSound'
  BY <1>1, <1>3, <1>4 DEF InboxInv, VaultSound
<1>7. SecretsSound'
  <2>1. \A s \in accounts \ {r} : s \in Requests /\ s # r
    BY <1>1 DEF Typed
  <2> QED BY <1>1, <1>3, <1>4, <2>1 DEF InboxInv, SecretsSound, Decided
<1>8. ImportSound'
  BY <1>1, <1>2, <1>3 DEF ImportSound, Decided
<1>9. \A s \in Requests : Decided(s) => vault'.ledger[s] = vault.ledger[s]
  BY <1>1, <1>3
<1> QED BY <1>5, <1>6, <1>7, <1>8, <1>9, LedgerGrows DEF InboxInv

LEMMA StepResume == ASSUME InboxInv, Resume PROVE InboxInv'
<1> DEFINE r == job.item
<1>1. /\ Typed /\ job \in Jobs /\ r \in Requests /\ journal[r] = "open"
      /\ UNCHANGED <<relay, inbox, journal, revoked, outbox, submitter, device>>
  BY DEF InboxInv, Typed, ImportSound, Resume, JobStep, UnchangedDevices
<1>2. CASE Decided(r) /\ job' = [job EXCEPT !.pc = "finish"] /\ UNCHANGED <<vault, accounts>>
  <2>1. job' \in Jobs /\ job'.pc = "finish" /\ job'.item = r
    BY <1>1, <1>2, JobMoves
  <2>2. Typed'
    BY <1>1, <1>2, <2>1 DEF Typed
  <2>3. VaultSound' /\ SecretsSound' /\ ImportSound'
    BY <1>1, <1>2, <2>1 DEF InboxInv, VaultSound, SecretsSound, ImportSound, Decided
  <2> QED BY <1>1, <1>2, <2>2, <2>3, LedgerGrows DEF InboxInv
<1>3. CASE /\ ~Decided(r) /\ accounts' = WithoutSecret(r) /\ vault' = WithOutcome(vault, r, "quarantined")
           /\ job' = [job EXCEPT !.pc = "finish"]
  BY <1>1, <1>3, Refusal
<1>4. CASE /\ ~Decided(r) /\ Authorized(r) /\ accounts' = WithSecret(r)
           /\ job' = [job EXCEPT !.pc = "commit"] /\ UNCHANGED vault
  <2>1. job' \in Jobs /\ job'.pc = "commit" /\ job'.item = r
    BY <1>1, <1>4, JobMoves
  <2>2. accounts' = accounts \union {r} /\ Author[r] \notin revoked
    BY <1>4 DEF WithSecret, Authorized
  <2>3. Typed'
    BY <1>1, <1>4, <2>1, <2>2 DEF Typed
  <2>4. VaultSound' /\ SecretsSound'
    BY <1>1, <1>4, <2>2 DEF InboxInv, VaultSound, SecretsSound, Decided
  <2>5. ImportSound'
    BY <1>1, <1>4, <2>1, <2>2 DEF ImportSound, Decided
  <2> QED BY <1>1, <1>4, <2>3, <2>4, <2>5, LedgerGrows DEF InboxInv
<1> QED BY <1>2, <1>3, <1>4 DEF Resume

\* The transaction: entry and outcome together, under a name that is free.
LEMMA StepCommit == ASSUME InboxInv, Commit PROVE InboxInv'
<1> DEFINE r == job.item
           v == WithOutcome(vault, r, "accepted")
           entries == v.entries \union {r}
<1>1. /\ Typed /\ job \in Jobs /\ r \in Requests /\ journal[r] = "open" /\ ~Decided(r) /\ r \in accounts
      /\ job' = [job EXCEPT !.pc = "finish"]
      /\ UNCHANGED <<relay, inbox, journal, revoked, outbox, submitter, device>>
  BY DEF InboxInv, Typed, ImportSound, Commit, JobStep, UnchangedDevices
<1>2. CASE accounts' = WithoutSecret(r) /\ vault' = WithOutcome(vault, r, "conflict")
  BY <1>1, <1>2, Refusal
<1>3. CASE ~NameTaken(Name[r]) /\ vault' = [v EXCEPT !.entries = @ \union {r}] /\ UNCHANGED accounts
  <2>1. job' \in Jobs /\ job'.pc = "finish" /\ job'.item = r
    BY <1>1, JobMoves
  <2> HIDE DEF r
  <2>2. /\ v \in Vaults /\ v.entries = vault.entries /\ v.local = vault.local
        /\ v.ledger[r] = "accepted" /\ \A s \in Requests : s # r => v.ledger[s] = vault.ledger[s]
    <3>1. "accepted" \in Outcomes
      BY DEF Outcomes
    <3> QED BY <1>1, <3>1, OutcomeIs, Zenon
  <2>3. vault' = [v EXCEPT !.entries = entries]
    BY <1>3, <2>2 DEF Vaults
  <2> HIDE DEF v
  <2>4. entries \in SUBSET Requests /\ entries = vault.entries \union {r}
    BY <1>1, <2>2 DEF Vaults
  <2> HIDE DEF entries
  <2>5. /\ vault' \in Vaults /\ vault'.entries = vault.entries \union {r} /\ vault'.local = vault.local
        /\ vault'.ledger[r] = "accepted" /\ \A s \in Requests : s # r => vault'.ledger[s] = vault.ledger[s]
    BY <2>2, <2>3, <2>4 DEF Vaults
  <2>6. Typed'
    BY <1>1, <1>3, <2>1, <2>5 DEF Typed
  <2>7. VaultSound'
    <3>1. \A s \in vault.entries : Name[s] # Name[r]
      BY <1>3 DEF NameTaken
    <3>2. Name[r] \notin vault.local
      BY <1>3 DEF NameTaken
    <3> QED BY <1>1, <2>5, <3>1, <3>2 DEF InboxInv, VaultSound
  <2>8. SecretsSound'
    <3>1. accounts \subseteq Requests
      BY <1>1 DEF Typed
    <3> QED BY <1>1, <1>3, <2>5, <3>1 DEF InboxInv, SecretsSound, Decided
  <2>9. ImportSound'
    BY <1>1, <2>1, <2>5 DEF ImportSound, Decided, None
  <2>10. \A s \in Requests : Decided(s) => vault'.ledger[s] = vault.ledger[s]
    BY <1>1, <2>5
  <2> QED BY <1>1, <2>6, <2>7, <2>8, <2>9, <2>10, LedgerGrows DEF InboxInv
<1> QED BY <1>2, <1>3 DEF Commit, Plannable

LEMMA StepFinish == ASSUME InboxInv, Finish PROVE InboxInv'
<1> DEFINE r == job.item
<1>1. /\ Typed /\ job \in Jobs /\ r \in Requests /\ Decided(r)
      /\ journal' = [journal EXCEPT ![r] = "finished"] /\ job' = [job EXCEPT !.pc = "ack"]
      /\ UNCHANGED <<relay, inbox, vault, accounts, revoked, outbox, submitter, device>>
  BY DEF InboxInv, Typed, ImportSound, Finish, JobStep, UnchangedDevices
<1>2. job' \in Jobs /\ job'.pc = "ack" /\ job'.item = r
  BY <1>1, JobMoves
<1>3. /\ journal' \in [Requests -> {None, "open", "finished"}] /\ journal'[r] = "finished"
      /\ \A s \in Requests : s # r => journal'[s] = journal[s]
  BY <1>1 DEF Typed
<1>4. Typed'
  BY <1>1, <1>2, <1>3 DEF Typed
<1>5. VaultSound' /\ SecretsSound'
  BY <1>1, <1>3 DEF InboxInv, Typed, VaultSound, SecretsSound, Decided
<1>6. ImportSound'
  BY <1>1, <1>2 DEF ImportSound, Decided
<1> QED BY <1>1, <1>4, <1>5, <1>6, LedgerGrows DEF InboxInv

\* The receipt is the recorded outcome.
LEMMA StepAcknowledge == ASSUME InboxInv, Acknowledge PROVE InboxInv'
<1> DEFINE r == job.item
           outcome == vault.ledger[r]
<1>1. /\ Typed /\ job \in Jobs /\ r \in Requests /\ Decided(r)
      /\ UNCHANGED <<relay, vault, accounts, journal, revoked, outbox, submitter, device>>
  BY DEF InboxInv, Typed, ImportSound, Acknowledge, JobStep, UnchangedDevices
<1>2. job' \in Jobs /\ job'.pc \in {"recover", "idle"}
  BY <1>1, Beginnings DEF Acknowledge, Jobs, Idle
<1>3. VaultSound' /\ SecretsSound' /\ ImportSound'
  BY <1>1, <1>2 DEF InboxInv, VaultSound, SecretsSound, ImportSound, Decided
<1>4. CASE UNCHANGED inbox
  <2>1. Typed'
    BY <1>1, <1>2, <1>4 DEF Typed
  <2> QED BY <1>1, <1>3, <1>4, <2>1, LedgerGrows DEF InboxInv
<1>5. CASE inbox' = [i \in DOMAIN inbox |-> IF inbox[i].request = r
                                            THEN [inbox[i] EXCEPT !.receipt = outcome] ELSE inbox[i]]
  <2>1. outcome \in Outcomes \union {None}
    BY <1>1 DEF Typed, Vaults
  <2> HIDE DEF r, outcome
  <2>2. inbox \in Seq(RowSet) /\ DOMAIN inbox' = DOMAIN inbox
    BY <1>1, <1>5 DEF Typed
  <2>3. \A i \in DOMAIN inbox : /\ inbox'[i] \in RowSet /\ inbox'[i].request = inbox[i].request
                                /\ \/ inbox'[i].receipt = inbox[i].receipt
                                   \/ inbox[i].request = r /\ inbox'[i].receipt = outcome
    <3> TAKE i \in DOMAIN inbox
    <3>1. inbox[i] \in RowSet
      BY <1>1, RowsTyped
    <3>2. CASE inbox[i].request = r
      <4>1. inbox'[i] = [inbox[i] EXCEPT !.receipt = outcome]
        BY <1>5, <3>2
      <4> QED BY <2>1, <3>1, <3>2, <4>1 DEF RowSet
    <3>3. CASE inbox[i].request # r
      BY <1>5, <3>1, <3>3
    <3> QED BY <3>2, <3>3
  <2>4. inbox' \in Seq(RowSet)
    <3>1. DOMAIN inbox' = 1..Len(inbox) /\ Len(inbox) \in Nat
      BY <2>2
    <3>2. inbox' \in [1..Len(inbox) -> RowSet]
      BY <1>5, <2>3, <3>1
    <3> QED BY <3>1, <3>2
  <2>5. Typed'
    BY <1>1, <1>2, <2>4 DEF Typed
  <2>6. \A s : Uploaded(s)' <=> Uploaded(s)
    <3>1. \A s : Uploaded(s) <=> \E i \in DOMAIN inbox : inbox[i].request = s
      BY DEF Uploaded, Rows
    <3>2. \A s : Uploaded(s)' <=> \E i \in DOMAIN inbox' : inbox'[i].request = s
      BY DEF Uploaded, Rows
    <3> QED BY <2>2, <2>3, <3>1, <3>2
  <2>7. KnownSound'
    <3>1. \A i, j \in DOMAIN inbox' : inbox'[i].request = inbox'[j].request => i = j
      BY <2>2, <2>3 DEF InboxInv, KnownSound
    <3>2. \A i \in DOMAIN inbox' : inbox'[i].receipt \in {None, vault.ledger[inbox'[i].request]}
      BY <2>2, <2>3 DEF InboxInv, KnownSound, outcome
    <3> QED BY <1>1, <2>6, <3>1, <3>2 DEF InboxInv, KnownSound
  <2>8. SubmitSound'
    BY <1>1, <2>6 DEF InboxInv, SubmitSound
  <2> QED BY <1>3, <2>5, <2>7, <2>8 DEF InboxInv
<1> QED BY <1>4, <1>5 DEF Acknowledge

-----------------------------------------------------------------------------
(* The theorems *)

LEMMA InboxInductive == InboxInv /\ [Next]_vars => InboxInv'
<1> SUFFICES ASSUME InboxInv, [Next]_vars PROVE InboxInv'
  OBVIOUS
<1>1. ASSUME NEW r \in Requests, Create(r) \/ AddLocalEntry(Name[r])
      PROVE  InboxInv'
  <2>1. Name[r] \in Names
    BY DEF Names
  <2> QED BY <1>1, <2>1, StepCreate, StepAddLocalEntry
<1>2. ASSUME NEW d \in Devices, SubmitStep(d)
      PROVE  InboxInv'
  BY <1>2, StepSubmitItem, StepPost, StepSaveUploaded, StepPoll, StepSubmitterRests DEF SubmitStep
<1>3. ASSUME NEW d \in Devices,
             StartSubmit(d) \/ Pull(d) \/ DeviceFails(d) \/ RequestRevoke(d) \/ PostBlock(d)
      PROVE  InboxInv'
  BY <1>3, StepStartSubmit, StepPull, StepSubmitterRests, StepRequestRevoke, StepPostBlock
<1>4. CASE Publish \/ StartReceive \/ MasterFails
  BY <1>4, StepPublish, StepStartReceive, StepMasterFails
<1>5. CASE ReceiveStep
  BY <1>5, StepRecover, StepList, StepAccept, StepResume, StepCommit, StepFinish, StepAcknowledge DEF ReceiveStep
<1>6. CASE UNCHANGED vars
  <2>1. Typed'
    BY <1>6 DEF vars, InboxInv, Typed
  <2> QED BY <1>6, <2>1, MasterKept, LedgerGrows DEF vars, InboxInv
<1> QED BY <1>1, <1>2, <1>3, <1>4, <1>5, <1>6 DEF Next

\* In every state the backend, the relay and the outboxes follow the ledger.
THEOREM InboxInvariant == Spec => []InboxInv
<1> QED BY InitialInbox, InboxInductive, PTL DEF Spec

\* An import is whole, whatever crashes and lost receipts came in between: an
\* entry has its secret, a secret its entry or an open journal record, and the
\* receipt and the author's outbox say what the master recorded
\* (project_importer.py, ProjectMaster.receive).
THEOREM ImportsWholeHolds == Spec => []ImportsWhole
<1>1. InboxInv => ImportsWhole
  <2> SUFFICES ASSUME InboxInv PROVE ImportsWhole
    OBVIOUS
  <2>1. \A x \in Rows : x.request \in Requests /\ x.receipt \in Outcomes \union {None}
    <3>1. \A i \in DOMAIN inbox : inbox[i].request \in Requests /\ inbox[i].receipt \in Outcomes \union {None}
      BY RowsTyped DEF InboxInv, RowSet
    <3> QED BY <3>1 DEF Rows
  <2>2. Cardinality({r \in Requests : journal[r] = "open"}) <= 1
    <3> DEFINE open == {r \in Requests : journal[r] = "open"}
    <3>1. \A r, s \in open : r = s
      BY DEF InboxInv, SecretsSound
    <3> HIDE DEF open
    <3>2. CASE open = {}
      BY <3>2, FS_EmptySet DEF open
    <3>3. CASE open # {}
      <4>1. PICK r \in open : TRUE
        BY <3>3
      <4>2. open = {r}
        BY <3>1, <4>1
      <4>3. Cardinality(open) = 1
        BY <4>2, FS_Singleton, Zenon
      <4> QED BY <4>3 DEF open
    <3> QED BY <3>2, <3>3
  <2>3. \A r \in Requests : outbox[r].status \in Outcomes \union Final \union {None, "local_pending", "uploaded"}
    BY DEF InboxInv, Typed, Proposals, Statuses
  <2>4. vault.entries \subseteq Requests /\ vault.ledger \in [Requests -> Outcomes \union {None}]
    BY DEF InboxInv, Typed, Vaults
  <2>5. TypeOK
    BY <2>1, <2>2, <2>3, <2>4 DEF InboxInv, Typed, VaultSound, KnownSound, TypeOK
  <2>6. NoOrphanSecrets
    BY DEF InboxInv, SecretsSound, NoOrphanSecrets
  <2>7. \A x \in Rows : x.receipt \in {None, vault.ledger[x.request]}
    BY DEF InboxInv, KnownSound, Rows
  <2>8. OneOutcome
    BY <2>7 DEF InboxInv, VaultSound, KnownSound, OneOutcome
  <2> QED BY <2>5, <2>6, <2>8 DEF ImportsWhole
<1> QED BY <1>1, InboxInvariant, PTL

\* No proposal of a device is imported once its revocation is recorded, not even
\* one whose import had begun when the master crashed (project_importer._resume).
THEOREM RevokedNotImportedHolds == Spec => RevokedNotImported
<1>1. ASSUME InboxInv, [Next]_vars
      PROVE  [\A r \in vault'.entries \ vault.entries : Author[r] \notin revoked]_vars
  <2>1. CASE Commit
    <3>1. job.item \in Requests /\ Author[job.item] \notin revoked /\ vault \in Vaults
      BY <1>1, <2>1 DEF InboxInv, Typed, ImportSound, Commit
    <3>2. vault'.entries \subseteq vault.entries \union {job.item}
      BY <2>1, <3>1 DEF Commit, WithOutcome, Vaults
    <3> QED BY <3>1, <3>2
  <2>2. CASE vault'.entries = vault.entries
    BY <2>2
  <2>3. CASE vault' # vault /\ ~Commit
    <3>1. vault \in Vaults
      BY <1>1 DEF InboxInv, Typed
    <3>2. \/ \E r \in Requests : AddLocalEntry(Name[r])
          \/ Accept \/ Resume
      BY <1>1, <2>3 DEF Next, vars, Create, StartSubmit, SubmitStep, SubmitItem, Post, SaveUploaded, Poll, EndSubmit,
         Pull, DeviceFails, RequestRevoke, PostBlock, Publish, StartReceive, ReceiveStep, MasterFails, Recover, List,
         Finish, Acknowledge
    <3>3. vault'.entries = vault.entries
      BY <3>1, <3>2 DEF AddLocalEntry, Accept, Resume, WithOutcome, Vaults
    <3> QED BY <3>3
  <2> QED BY <2>1, <2>2, <2>3
<1> QED BY <1>1, InboxInvariant, PTL DEF Spec, RevokedNotImported

\* A proposal never vanishes from the outbox of its author
\* (ProjectReplica._save_outbox_item).
THEOREM ProposalsKeptHolds == Spec => ProposalsKept
<1>1. ASSUME InboxInv, [Next]_vars
      PROVE  [\A r \in Requests : outbox[r].status # None => outbox'[r].status # None]_vars
  <2>1. CASE OutboxFollows
    <3>1. \A r \in Requests : outbox[r].status # None => outbox'[r].status # None
      BY <2>1 DEF OutboxFollows, Decided, None
    <3> QED BY <3>1
  <2>2. CASE outbox' = outbox
    BY <2>2
  <2>3. CASE outbox' # outbox
    <3>1. \/ \E r \in Requests : Create(r)
          \/ \E d \in Devices : SaveUploaded(d) \/ Poll(d)
      BY <1>1, <2>3 DEF Next, vars, AddLocalEntry, StartSubmit, SubmitStep, SubmitItem, Post, EndSubmit,
         Pull, DeviceFails, RequestRevoke, PostBlock, Publish, StartReceive, ReceiveStep, MasterFails, Recover, List,
         Accept, Resume, Commit, Finish, Acknowledge, JobStep, UnchangedDevices
    <3>2. OutboxFollows
      BY <1>1, <3>1, StepCreate, StepSaveUploaded, StepPoll
    <3> QED BY <2>1, <3>2
  <2> QED BY <2>2, <2>3
<1> QED BY <1>1, InboxInvariant, PTL DEF Spec, ProposalsKept
=============================================================================
