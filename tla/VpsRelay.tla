------------------------------ MODULE VpsRelay ------------------------------
(***************************************************************************)
(* The signed records of KK2 (sync_protocol_v2.py, sync_vps.py) and what   *)
(* syncd does with them (sync_server.py).  Each operation of the relay is  *)
(* one SQLite transaction: an operator that says when it is accepted, and  *)
(* one that gives the commit log or the device table afterwards.           *)
(*                                                                         *)
(* Signatures and hashes are abstracted to what they bind: a commit id is  *)
(* fresh and names the commit's whole ancestry, a signature holds for those *)
(* who trust the author's key, a statement of the root names a device and  *)
(* a checkpoint.  A device gets one invitation in its life (every join     *)
(* makes a new device id).  That an invitation expires is one of the ways  *)
(* in which it may never be claimed or approved.                           *)
(***************************************************************************)
EXTENDS Integers, Sequences, FiniteSets

CONSTANTS
  Devices,
  Root,         \* the device that created the vault
  MaxCommits,   \* MAX_CHAIN_COMMITS
  MaxIds,       \* commits the relay has room for, over all branches
  MaxUpdates    \* bound on local edits

-----------------------------------------------------------------------------
(* Commits and checkpoints *)

Updates == 1..MaxUpdates

Commit == [id : 1..MaxIds, parent : 0..MaxIds, author : Devices, data : SUBSET Updates]

Checkpoint == [seq : 0..MaxCommits, id : 0..MaxIds]

\* The checkpoint of an empty log.
Genesis == [seq |-> 0, id |-> 0]

\* get_head: the checkpoint at the end of log s.
At(s) == IF s = <<>> THEN Genesis ELSE [seq |-> Len(s), id |-> s[Len(s)].id]

\* build_signed_commit: author c publishes data on top of s.
SignedCommit(id, s, c, data) == [id |-> id, parent |-> At(s).id, author |-> c, data |-> data]

\* verify_commit_signature by one who trusts the keys of members.
SignatureHolds(commit, members) == commit.author \in members

\* get_commit: log s holds the commit k names.
Holds(s, k) == k.seq > 0 => k.seq <= Len(s) /\ s[k.seq].id = k.id

\* list_commits: at most size commits after the first n.
Page(s, n, size) == SubSeq(s, n + 1, IF n + size < Len(s) THEN n + size ELSE Len(s))

-----------------------------------------------------------------------------
(* Devices *)

\* A device of the relay: an invitation for it is open, it claimed it, ...
Row == [st : {"unknown", "invited", "pending", "active", "revoked"},
        admit : Checkpoint, cut : Checkpoint]

\* The membership statement of the root: commits of the device count after k.
Membership(k) == [st |-> "active", admit |-> k, cut |-> Genesis]

Evidence == [dev : Devices, cut : Checkpoint]

\* A revocation statement of the root: no commit of d counts after k.
Revocation(d, k) == [dev |-> d, cut |-> k]

\* authenticate_device, and again in every transaction that writes.
ActiveIn(t, c) == t[c].st = "active"

Unlisted == [d \in Devices |-> [st |-> "unknown", admit |-> Genesis, cut |-> Genesis]]

\* create_vault, with the members approved before the first commit.
NewTable(members) ==
  [d \in Devices |-> IF d \in members \cup {Root} THEN Membership(Genesis) ELSE Unlisted[d]]

\* create_invite
Invited(t, d) == [t EXCEPT ![d].st = "invited"]

\* claim_invite: the first claim counts, and the same claim is answered again.
Claimed(t, d) == IF t[d].st = "invited" THEN [t EXCEPT ![d].st = "pending"] ELSE t

\* inspect_invite: the invitation of d shows a claimant.
HasClaimant(t, d) == t[d].st \in {"pending", "active", "revoked"}

\* approve_invite: only a claimed invitation can be approved.
Approved(t, d, k) == IF t[d].st = "pending" THEN [t EXCEPT ![d] = Membership(k)] ELSE t

\* invite_status: what an approved device, while it is active, is told.
ApprovalAt(t, d, k) == ActiveIn(t, d) /\ t[d].admit = k

-----------------------------------------------------------------------------
(* append_commit and revoke_device: compare and swap of the head *)

\* Slip: the transaction trusts the authentication of the request.
AppendAnswerAuthenticated(s, t, c, parent, authenticated) ==
  IF ~authenticated THEN "denied"
  ELSE IF At(s) # parent THEN "conflict"
  ELSE "stored"

\* append_commit by c on top of parent, whose request had been authenticated.
AppendAnswer(s, t, c, parent, authenticated) ==
  IF ~authenticated \/ ~ActiveIn(t, c) THEN "denied"
  ELSE IF At(s) # parent THEN "conflict"
  ELSE "stored"

\* Slip: the relay does not compare the head.
RevokeAnswerAnyHead(s, t, d, head) ==
  IF t[d].st \in {"unknown", "invited"} THEN "missing"
  ELSE IF t[d].st = "active" THEN "stored"
  ELSE "conflict"

\* revoke_device for d at head: a device that no one approved counts as the
\* root, and a revocation is never replaced.
RevokeAnswer(s, t, d, head) ==
  IF At(s) # head THEN "conflict"
  ELSE IF t[d].st \in {"unknown", "invited"} THEN "missing"
  ELSE IF t[d].st = "active" THEN "stored"
  ELSE "conflict"

Revoked(t, e) == [t EXCEPT ![e.dev].st = "revoked", ![e.dev].cut = e.cut]

\* list_devices: the revocations a table shows.
Shown(t) == {Revocation(d, t[d].cut) : d \in {x \in Devices : t[x].st = "revoked"}}

\* The devices with a signed membership, revoked or not.
Enrolled(t) == {d \in Devices : t[d].st \in {"active", "revoked"}}
=============================================================================
