----------------------------- MODULE VaultMerge -----------------------------
(***************************************************************************)
(* The merge of two schema 2 vaults (vault_snapshot.py) and what a device  *)
(* does with its result (sync_vps.py): last writer wins per entry id, with *)
(* timestamps of one second, tombstones for deletions, names made unique,  *)
(* and references by name that must not change their target unnoticed.     *)
(*                                                                         *)
(* Devices exchange whole snapshots over one head.  That a device replaces *)
(* exactly the head it has merged is the subject of VpsSync; here a sync   *)
(* is one step, and what it computes is modelled in full.                  *)
(*                                                                         *)
(* A name is a sequence of numbers: the user's name, followed by the id    *)
(* (and, if that is taken, a number) that the merge appends to it.  The    *)
(* canonical JSON of an entry orders names as sequences.                   *)
(***************************************************************************)
EXTENDS Integers, Sequences, FiniteSets

CONSTANTS
  Devices,
  Writers,    \* the devices whose user edits the vault
  Ids,        \* entry ids: positive numbers
  UserNames,  \* names a user may choose
  RefNames,   \* names a user may refer to
  Shared,     \* the name of each entry that all devices held at first
  MaxTime,    \* bound on the clock, in seconds
  MaxEdits    \* bound on the edits of all users

ASSUME MergeAssumption ==
  /\ Writers \subseteq Devices
  /\ Ids \subseteq Nat \ {0} /\ IsFiniteSet(Ids)
  /\ UserNames \subseteq Seq(Nat) \ {<<>>} /\ RefNames \subseteq UserNames
  /\ DOMAIN Shared \subseteq Ids
  /\ \A i, j \in DOMAIN Shared : Shared[i] \in Seq(Nat) \ {<<>>} /\ (Shared[i] = Shared[j] => i = j)
  /\ MaxTime \in Nat \ {0} /\ MaxEdits \in Nat

VARIABLES
  vault,     \* per device: metadata and secrets
  head,      \* the snapshot at the relay, or NoSnapshot
  now,       \* the clock, in seconds
  edits,     \* number of edits so far; an edit's number names its secret
  written    \* history: entry, time and secret of every version a user wrote

vars == <<vault, head, now, edits, written>>

None == <<>>         \* no reference
NoId == 0            \* no target
NoCell == [kind |-> "none", at |-> 0, name |-> None, ref |-> None]
LiveCell(t, n, r) == [kind |-> "live", at |-> t, name |-> n, ref |-> r]
Tombstone(t, n) == [kind |-> "tombstone", at |-> t, name |-> n, ref |-> None]

Empty == [meta |-> [i \in Ids |-> NoCell], secret |-> [i \in Ids |-> 0]]
NoSnapshot == [meta |-> <<>>, secret |-> <<>>]

\* A synchronized vault: its secrets are older than every edit.
Start ==
  [meta   |-> [i \in Ids |-> IF i \in DOMAIN Shared THEN LiveCell(0, Shared[i], None) ELSE NoCell],
   secret |-> [i \in Ids |-> IF i \in DOMAIN Shared THEN -i ELSE 0]]

Live(m) == {i \in Ids : m[i].kind = "live"}
Dead(m) == {i \in Ids : m[i].kind = "tombstone"}
NamesOf(m) == {m[i].name : i \in Live(m)}

-----------------------------------------------------------------------------
(* The pure merge *)

Precedes(s, t) ==
  \E k \in 0..Len(s) :
    /\ k < Len(t)
    /\ \A j \in 1..k : s[j] = t[j]
    /\ k = Len(s) \/ s[k + 1] < t[k + 1]

\* _sort_key of two versions of one entry: the later second, then the content.
Newer(a, b) ==
  \/ a.at > b.at
  \/ a.at = b.at /\ Precedes(b.name, a.name)
  \/ a.at = b.at /\ a.name = b.name /\ Precedes(b.ref, a.ref)

\* _sort_key of two entries: the content of equal seconds begins with the id.
Outranks(m, i, j) == m[i].at > m[j].at \/ (m[i].at = m[j].at /\ i > j)

LatestTombstone(l, r) ==
  IF l.kind = "tombstone" /\ r.kind = "tombstone"
  THEN IF l.at >= r.at THEN l ELSE r
  ELSE IF l.kind = "tombstone" THEN l
  ELSE IF r.kind = "tombstone" THEN r ELSE NoCell

\* Slip: versions of one second are not told apart.
RemoteWinsLaterOnly(l, r) == r.kind = "live" /\ (l.kind = "live" => r.at > l.at)

RemoteWins(l, r) == r.kind = "live" /\ (l.kind = "live" => Newer(r, l))

Winner(l, r) ==
  IF RemoteWins(l, r) THEN r ELSE IF l.kind = "live" THEN l ELSE NoCell

\* Slip: an edit in the second of the deletion survives it.
ResolveForEdit(l, r) ==
  LET t == LatestTombstone(l, r)
      w == Winner(l, r)
  IN  IF w.kind = "live" /\ (t = NoCell \/ w.at >= t.at) THEN w ELSE t

\* An entry survives a deletion only if it was written in a later second.
Resolve(l, r) ==
  LET t == LatestTombstone(l, r)
      w == Winner(l, r)
  IN  IF w.kind = "live" /\ (t = NoCell \/ w.at > t.at) THEN w ELSE t

\* The names that _unique_suffix_name tries: the id is appended, then a number.
SuffixName(n, i, number) == IF number = 0 THEN Append(n, i) ELSE n \o <<i, number>>

UniqueSuffixName(n, i, occupied, total) ==
  SuffixName(n, i, CHOOSE k \in 0..total :
                     /\ SuffixName(n, i, k) \notin occupied
                     /\ \A j \in 0..(k - 1) : SuffixName(n, i, j) \in occupied)

\* Of the live entries with one name only the first keeps it.
Losers(live) ==
  {i \in DOMAIN live :
     \E j \in DOMAIN live \ {i} : live[j].name = live[i].name /\ Outranks(live, j, i)}

\* The order in which the losers get their new names.
RenamedBefore(live, i, j) ==
  \/ Precedes(live[i].name, live[j].name)
  \/ live[i].name = live[j].name /\ Outranks(live, i, j)

NewNames(live) ==
  LET losers == Losers(live)
      names == {live[i].name : i \in DOMAIN live}
      named[i \in losers] ==
        LET earlier == {j \in losers : RenamedBefore(live, j, i)}
        IN  UniqueSuffixName(live[i].name, i, names \union {named[j] : j \in earlier},
                             Cardinality(DOMAIN live))
  IN  named

DisambiguateLiveNames(live) ==
  LET named == NewNames(live)
  IN  [i \in DOMAIN live |-> IF i \in DOMAIN named THEN [live[i] EXCEPT !.name = named[i]] ELSE live[i]]

Target(m, n) ==
  LET owners == {i \in Live(m) : m[i].name = n}
  IN  IF owners = {} THEN NoId ELSE CHOOSE i \in owners : TRUE

\* Slip: only the history of the winning version is looked at.
RebindsReferenceOfWinner(m, l, r) ==
  \E i \in Live(m) :
    LET side == IF RemoteWins(l[i], r[i]) THEN r ELSE l
    IN  /\ m[i].ref # None
        /\ Target(side, m[i].ref) # Target(m, m[i].ref)

\* A reference that either side already had must lead to the same entry.
RebindsReference(m, l, r) ==
  \E i \in Live(m), side \in {l, r} :
    /\ m[i].ref # None
    /\ side[i].kind = "live" /\ side[i].ref = m[i].ref
    /\ Target(side, m[i].ref) # Target(m, m[i].ref)

\* merge: the live versions under their final names, and the tombstones.
Merged(l, r) ==
  LET m == [i \in Ids |-> Resolve(l[i], r[i])]
      live == DisambiguateLiveNames([i \in Live(m) |-> m[i]])
  IN  [i \in Ids |-> IF i \in Live(m) THEN live[i] ELSE m[i]]

Conflict(l, r) == RebindsReference(Merged(l, r), l, r)

-----------------------------------------------------------------------------
(* The secrets of a merged vault *)

\* Slip: the tie of two secrets under equal metadata is overlooked.
SecretsFromRemoteWinners(v, s, m) ==
  {i \in Live(m) : RemoteWins(v.meta[i], s.meta[i])}

\* merge() names the entries whose version came from the remote side; versions
\* that are equal in every byte of metadata are told apart by their secrets.
SecretsFromRemote(v, s, m) ==
  {i \in Live(m) : RemoteWins(v.meta[i], s.meta[i])}
  \union {i \in Live(m) : v.meta[i] = s.meta[i] /\ s.secret[i] > v.secret[i]}

\* _apply_payload: write the secrets of the remote winners, purge those of
\* entries that were live here and are deleted now.
Applied(v, s) ==
  LET m == Merged(v.meta, s.meta)
      remote == SecretsFromRemote(v, s, m)
  IN  [meta   |-> m,
       secret |-> [i \in Ids |-> IF i \in remote THEN s.secret[i]
                                 ELSE IF i \in Live(v.meta) \cap Dead(m) THEN 0
                                 ELSE v.secret[i]]]

\* pull
Pull(d) ==
  /\ UNCHANGED <<head, now, edits, written>>
  /\ head # NoSnapshot
  /\ ~Conflict(vault[d].meta, head.meta)
  /\ vault' = [vault EXCEPT ![d] = Applied(vault[d], head)]

\* push: merge the head in, and publish what it did not hold.
Push(d) ==
  /\ UNCHANGED <<now, edits, written>>
  /\ \/ head = NoSnapshot /\ vault[d] # Empty /\ UNCHANGED vault
     \/ /\ head # NoSnapshot
        /\ ~Conflict(vault[d].meta, head.meta)
        /\ vault' = [vault EXCEPT ![d] = Applied(vault[d], head)]
  /\ head' = vault'[d]

-----------------------------------------------------------------------------
(* What a user does on one device *)

EditedOn(d) == d \in Writers /\ edits < MaxEdits /\ edits' = edits + 1

NameFree(d, n) == n \notin NamesOf(vault[d].meta)

WriteEntry(d, i, cell, secret) ==
  vault' = [vault EXCEPT ![d].meta[i] = cell, ![d].secret[i] = secret]

Create(d, i, n, r) ==
  /\ EditedOn(d)
  /\ \A e \in Devices : vault[e].meta[i] = NoCell     \* ids are fresh
  /\ head # NoSnapshot => head.meta[i] = NoCell
  /\ NameFree(d, n)
  /\ WriteEntry(d, i, LiveCell(now, n, r), edits')
  /\ written' = written \union {<<i, now, edits'>>}
  /\ UNCHANGED <<head, now>>

\* An edit keeps the secret; a name in use by references cannot be changed.
Update(d, i, n, r) ==
  /\ EditedOn(d)
  /\ i \in Live(vault[d].meta)
  /\ LET cell == vault[d].meta[i]
     IN  /\ <<n, r>> # <<cell.name, cell.ref>>
         /\ n # cell.name => /\ NameFree(d, n)
                             /\ \A j \in Live(vault[d].meta) : vault[d].meta[j].ref # cell.name
         /\ WriteEntry(d, i, LiveCell(now, n, r), vault[d].secret[i])
  /\ written' = written \union {<<i, now, vault[d].secret[i]>>}
  /\ UNCHANGED <<head, now>>

ReplaceSecret(d, i) ==
  /\ EditedOn(d)
  /\ i \in Live(vault[d].meta)
  /\ WriteEntry(d, i, [vault[d].meta[i] EXCEPT !.at = now], edits')
  /\ written' = written \union {<<i, now, edits'>>}
  /\ UNCHANGED <<head, now>>

\* Dependents lose the reference when the user asks for it (--cascade), and
\* block the deletion otherwise; their updated_at stays what it was.
Delete(d, i) ==
  /\ EditedOn(d)
  /\ i \in Live(vault[d].meta)
  /\ LET m == vault[d].meta
         unlinked == [j \in Ids |-> IF m[j].kind = "live" /\ m[j].ref = m[i].name
                                    THEN [m[j] EXCEPT !.ref = None] ELSE m[j]]
     IN  vault' = [vault EXCEPT
                     ![d].meta = [unlinked EXCEPT ![i] = Tombstone(now, m[i].name)],
                     ![d].secret[i] = 0]
  /\ UNCHANGED <<head, now, written>>

Tick == now < MaxTime /\ now' = now + 1 /\ UNCHANGED <<vault, head, edits, written>>

-----------------------------------------------------------------------------
Init ==
  /\ vault = [d \in Devices |-> Start]
  /\ head = IF Start = Empty THEN NoSnapshot ELSE Start
  /\ now = 1 /\ edits = 0
  /\ written = {<<i, 0, -i>> : i \in DOMAIN Shared}

Sync(d) == Pull(d) \/ Push(d)

UserStep ==
  \E d \in Devices, i \in Ids :
    \/ \E n \in UserNames, r \in RefNames \union {None} : Create(d, i, n, r) \/ Update(d, i, n, r)
    \/ ReplaceSecret(d, i)
    \/ Delete(d, i)

Next == Tick \/ UserStep \/ \E d \in Devices : Sync(d)

Spec == Init /\ [][Next]_vars

\* A reference conflict stops the device until its user edits an entry.
Blocked(d) == head # NoSnapshot /\ Conflict(vault[d].meta, head.meta)

\* Push(d) changes nothing.
UpToDate(d) == Blocked(d) \/ vault[d] = head \/ (head = NoSnapshot /\ vault[d] = Empty)

\* Each device syncs again and again (the daily job and the user's own runs):
\* weak fairness of Push(d), with the states that do not enable it spelled out.
FairSpec == Spec /\ \A d \in Devices : []<>UpToDate(d) \/ []<><<Push(d)>>_vars

-----------------------------------------------------------------------------
Cell == [kind : {"none", "live", "tombstone"}, at : 0..MaxTime,
         name : Seq(Nat), ref : RefNames \union {None}]
Snapshot == [meta : [Ids -> Cell], secret : [Ids -> Int]]

\* Every vault and every snapshot is well formed, a secret exists exactly for a
\* live entry, and the names of a vault are unique (what _validate_record_identities
\* demands of data.json, and the merge has to restore).
TypeOK ==
  /\ now \in 1..MaxTime /\ edits \in 0..MaxEdits
  /\ \A s \in {vault[d] : d \in Devices} \union ({head} \ {NoSnapshot}) :
       /\ s \in Snapshot
       /\ \A i \in Ids : (s.secret[i] # 0) <=> (i \in Live(s.meta))
       /\ \A i, j \in Live(s.meta) : s.meta[i].name = s.meta[j].name => i = j

Unnamed(s) ==
  [s EXCEPT !.meta = [i \in Ids |-> IF s.meta[i].kind = "tombstone"
                                    THEN [s.meta[i] EXCEPT !.name = None] ELSE s.meta[i]]]

\* Whichever of two devices merges the other's vault, both refuse or both get
\* the same vault: entries, names, references and secrets.  (Only the name kept
\* in a tombstone may differ: _latest_tombstone prefers the local one.)
MergeCommutes ==
  \A d, e \in Devices :
    /\ Conflict(vault[d].meta, vault[e].meta) <=> Conflict(vault[e].meta, vault[d].meta)
    /\ ~Conflict(vault[d].meta, vault[e].meta) =>
         Unnamed(Applied(vault[d], vault[e])) = Unnamed(Applied(vault[e], vault[d]))

\* The secret of an entry is one that a user gave that entry in the second of
\* its updated_at: a merge never joins the metadata of one write with the
\* secret of another.
SecretOfTheVersion ==
  \A d \in Devices : \A i \in Live(vault[d].meta) :
    <<i, vault[d].meta[i].at, vault[d].secret[i]>> \in written

\* What a merge makes of two vaults: well formed, the same on either side, and
\* without mixing what belongs to different writes.
MergeSound == TypeOK /\ MergeCommutes /\ SecretOfTheVersion

\* A deleted entry lives on only where it was written in a later second than
\* the device knows it to be deleted in: no old snapshot brings it back.
NoResurrection ==
  [][\A d \in Devices, i \in Ids :
       /\ vault[d].meta[i].kind = "tombstone"
       /\ vault'[d].meta[i].kind = "live"
       => vault'[d].meta[i].at > vault[d].meta[i].at]_vars

\* A merge never turns a reference that stays on a device to another entry, nor
\* a dangling one to any entry.
ReferencesKeepTarget ==
  [][edits' = edits =>
       \A d \in Devices : \A i \in Live(vault[d].meta) \cap Live(vault'[d].meta) :
         LET r == vault[d].meta[i].ref
         IN  r # None /\ vault'[d].meta[i].ref = r
             => Target(vault'[d].meta, r) = Target(vault[d].meta, r)]_vars

Agree(s, t) == Unnamed(s) = Unnamed(t)

\* When the users stop editing and each device syncs, all vaults become equal
\* for good, unless a device has to report a reference conflict.
Converges ==
  <>[](\/ \E d \in Devices : Blocked(d)
       \/ \A d, e \in Devices : Agree(vault[d], vault[e]))

=============================================================================
