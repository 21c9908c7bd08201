------------------------ MODULE DevicePairingProofs ------------------------
(***************************************************************************)
(* Proofs about the pairing ceremony of DevicePairing, for every number of *)
(* computers, invitations, attempts and versions and every limit.          *)
(*                                                                         *)
(* Nothing locks the two computers and the relay against each other: what  *)
(* holds the ceremony together is that each fact is written once.  A       *)
(* mailbox has one request and one answer, an invitation one device, one   *)
(* grant and one bundle, and who reads one of them may rely on it however  *)
(* late it acts.  The invariant says, for each job and each worker in      *)
(* between, on which of these it relies.                                   *)
(***************************************************************************)
EXTENDS DevicePairing, FiniteSetTheorems, SequenceTheorems, TLAPS

Grants == [device : Roots, id : 1..MaxMints]
JobPcs == {"idle", "check", "add", "wrap", "save", "respond", "flush", "post", "mark"}
Jobs == [pc : JobPcs, code : Codes \union {None}, root : Roots \union {None}, answer : Nat, todo : SUBSET Codes]
Workers == [pc : {"idle", "upload", "poll", "get", "install", "apply", "activate"}, answer : 0..MaxVersion]
Invites == [known : BOOLEAN, request : Roots \union {None}, grant : 0..MaxMints, bundle : 0..MaxVersion]
Pairings == [known : BOOLEAN, response : 0..MaxVersion, device : Roots \union {None}, sent : BOOLEAN]
Mailboxes == [there : BOOLEAN, request : Roots \union {None}, response : 0..MaxVersion]
RootRecords == [code : Codes \union {None}, generation : 0..MaxVersion, applied : 0..MaxVersion,
                status : {"none", "pending", "active"}]

Typed ==
  /\ published \in Seq(SUBSET Grants) /\ Len(published) \in 1..MaxVersion
  /\ planned \in Seq(SUBSET Grants) /\ Len(planned) <= 1 /\ minted \in 0..MaxMints
  /\ invites \in [Codes -> Invites] /\ pairings \in [Codes -> Pairings]
  /\ mailbox \in [Codes -> Mailboxes] /\ expired \subseteq Codes
  /\ job \in Jobs /\ worker \in [Computers -> Workers]
  /\ settings \in [Computers -> Roots \union {None}] /\ roots \in [Roots -> RootRecords]

OpenCodes == {c \in Codes : Open(c)}
LiveCodes == {c \in Codes : pairings[c].known /\ c \notin expired}
WithinLimits == Cardinality(OpenCodes) <= PairLimit /\ Cardinality(LiveCodes) <= PairLimit

\* An invitation has a device and a grant or neither, and a grant belongs to
\* one invitation.
Identified ==
  /\ \A c \in Codes : /\ (invites[c].request = None <=> invites[c].grant = 0)
                      /\ invites[c].bundle # 0 => invites[c].request # None
                      /\ invites[c].grant <= minted
  /\ \A c, d \in Codes : (invites[c].grant = invites[d].grant /\ invites[c].grant # 0) => c = d

\* What GrantsTracked says of one publication, the invitations being records.
Tracked(grants, records) ==
  \A g \in grants : /\ \E c \in Codes : records[c].request = g.device /\ records[c].grant = g.id
                    /\ \A h \in grants : h.device = g.device => h = g

ScopeTracked ==
  /\ \A n \in DOMAIN published : Tracked(published[n], invites)
  /\ \A n \in DOMAIN planned : Tracked(planned[n], invites)

\* A stored answer is sealed for the publication that holds the grant.
BundlesHold ==
  \A c \in Codes : invites[c].bundle # 0 =>
    /\ invites[c].bundle \in DOMAIN published
    /\ [device |-> invites[c].request, id |-> invites[c].grant] \in published[invites[c].bundle]

\* The mailbox of an invitation that was taken up still has its request, and
\* no answer but the stored one, until it is purged.
MailSound ==
  \A c \in Codes :
    /\ invites[c].request # None =>
         \/ mailbox[c].request = invites[c].request
         \/ c \in expired /\ mailbox[c] = NoMailbox
    /\ mailbox[c].response # 0 => mailbox[c].response = invites[c].bundle
    /\ pairings[c].response # 0 => pairings[c].response = invites[c].bundle
    /\ ~mailbox[c].there => mailbox[c] = NoMailbox

\* What the main computer's job relies on.
JobSound ==
  /\ job.pc \in {"check", "add", "wrap", "save", "respond"} => job.code \in Codes /\ job.root \in Roots
  /\ job.pc = "mark" => job.code \in Codes
  /\ job.pc = "check" => mailbox[job.code].request = job.root \/ job.code \in expired
  /\ job.pc \in {"add", "wrap", "save"} =>
       invites[job.code].request = job.root /\ invites[job.code].bundle = 0
  /\ job.pc = "add" => job.answer = invites[job.code].grant
  /\ job.pc = "respond" =>
       invites[job.code].request = job.root /\ invites[job.code].bundle = job.answer /\ job.answer # 0

\* A root that holds an answer is the device of its invitation.
RootsSound ==
  \A r \in Roots : roots[r].generation # 0 =>
    /\ roots[r].code \in Codes
    /\ invites[roots[r].code].request = r /\ invites[roots[r].code].bundle = roots[r].generation

\* What a secondary computer's join or poll relies on.
WorkerSound(m) ==
  /\ settings[m] # None => roots[settings[m]].code \in Codes
  /\ worker[m].pc # "idle" => settings[m] # None
  /\ worker[m].pc = "get" =>
       mailbox[RootOf(m).code].request = settings[m] \/ RootOf(m).code \in expired
  /\ worker[m].pc \in {"install", "apply", "activate"} =>
       /\ worker[m].answer # 0 /\ worker[m].answer = invites[RootOf(m).code].bundle
       /\ invites[RootOf(m).code].request = settings[m]

WorkersSound == \A m \in Computers : WorkerSound(m)

PairingInv ==
  /\ Typed /\ WithinLimits /\ Identified /\ ScopeTracked /\ BundlesHold /\ MailSound /\ JobSound
  /\ RootsSound /\ WorkersSound

-----------------------------------------------------------------------------
(* What is written once *)

\* The device, the grant and the answer of an invitation stay.
InvitesKept ==
  \A c \in Codes :
    /\ invites[c].request # None =>
         /\ invites'[c].request = invites[c].request
         /\ invites'[c].grant = invites[c].grant
    /\ invites[c].bundle # 0 => invites'[c].bundle = invites[c].bundle

\* An invitation is created and nothing else happens to any.
InvitesSame ==
  \A c \in Codes :
    /\ invites'[c].request = invites[c].request
    /\ invites'[c].grant = invites[c].grant
    /\ invites'[c].bundle = invites[c].bundle

\* The request of a mailbox stays until it expires, and expired it stays.
RequestsKept ==
  /\ expired \subseteq expired'
  /\ \A c \in Codes : c \notin expired /\ mailbox[c].request # None => mailbox'[c].request = mailbox[c].request

LEMMA Parameters ==
  /\ MaxCodes \in Nat /\ MaxRoots \in Nat /\ PairLimit \in Nat \ {0}
  /\ MaxMints \in Nat /\ MaxVersion \in Nat \ {0} /\ MaxFaults \in Nat
BY PairingAssumption

LEMMA NoneIsNothing == None \notin Codes /\ None \notin Roots /\ None = 0
BY Parameters DEF None, Codes, Roots

LEMMA UnchangedKept ==
  ASSUME UNCHANGED invites
  PROVE  InvitesSame /\ InvitesKept
BY DEF InvitesSame, InvitesKept

LEMMA SameKept ==
  ASSUME InvitesSame
  PROVE  InvitesKept
BY DEF InvitesSame, InvitesKept

\* A publication stays tracked whatever becomes of the invitations.
LEMMA TrackedKept ==
  ASSUME InvitesKept, NEW S, S \subseteq Grants, Tracked(S, invites)
  PROVE  Tracked(S, invites')
<1> SUFFICES ASSUME NEW g \in S
             PROVE  /\ \E c \in Codes : invites'[c].request = g.device /\ invites'[c].grant = g.id
                    /\ \A h \in S : h.device = g.device => h = g
  BY DEF Tracked
<1>1. g.device # None
  BY NoneIsNothing DEF Grants
<1>2. PICK c \in Codes : invites[c].request = g.device /\ invites[c].grant = g.id
  BY DEF Tracked
<1>3. invites'[c].request = g.device /\ invites'[c].grant = g.id
  BY <1>1, <1>2 DEF InvitesKept
<1> QED BY <1>3 DEF Tracked

LEMMA ScopeTypes ==
  ASSUME Typed
  PROVE  /\ \A n \in DOMAIN published : published[n] \subseteq Grants
         /\ \A n \in DOMAIN planned : planned[n] \subseteq Grants
BY DEF Typed

LEMMA ScopeFrame ==
  ASSUME Typed, ScopeTracked, InvitesKept, UNCHANGED <<published, planned>>
  PROVE  ScopeTracked'
BY ScopeTypes, TrackedKept DEF ScopeTracked

LEMMA IdentifiedFrame ==
  ASSUME Identified, InvitesSame, UNCHANGED minted
  PROVE  Identified'
BY DEF Identified, InvitesSame

LEMMA BundlesFrame ==
  ASSUME BundlesHold, InvitesSame, UNCHANGED published
  PROVE  BundlesHold'
BY DEF BundlesHold, InvitesSame

LEMMA MailFrame ==
  ASSUME MailSound, InvitesSame, expired \subseteq expired', UNCHANGED <<mailbox, pairings>>
  PROVE  MailSound'
BY DEF MailSound, InvitesSame

LEMMA JobFrame ==
  ASSUME JobSound, InvitesSame, RequestsKept, UNCHANGED job
  PROVE  JobSound'
BY NoneIsNothing DEF JobSound, InvitesSame, RequestsKept

LEMMA IdleJob ==
  ASSUME job'.pc \in {"idle", "flush", "post"}
  PROVE  JobSound'
BY DEF JobSound

LEMMA RootsFrame ==
  ASSUME RootsSound, InvitesKept, UNCHANGED roots
  PROVE  RootsSound'
BY NoneIsNothing DEF RootsSound, InvitesKept

LEMMA WorkersFrame ==
  ASSUME Typed, WorkersSound, InvitesKept, RequestsKept, UNCHANGED <<settings, roots, worker>>
  PROVE  WorkersSound'
<1> SUFFICES ASSUME NEW m \in Computers PROVE WorkerSound(m)'
  BY DEF WorkersSound
<1>1. WorkerSound(m)
  BY DEF WorkersSound
<1> QED BY <1>1, NoneIsNothing DEF WorkerSound, InvitesKept, RequestsKept, RootOf

LEMMA LimitsFrame ==
  ASSUME WithinLimits, UNCHANGED <<mailbox, pairings, expired>>
  PROVE  WithinLimits'
BY DEF WithinLimits, OpenCodes, LiveCodes, Open

-----------------------------------------------------------------------------
(* The main computer *)

LEMMA FiniteCodes ==
  /\ IsFiniteSet(OpenCodes) /\ Cardinality(OpenCodes) \in Nat
  /\ IsFiniteSet(LiveCodes) /\ Cardinality(LiveCodes) \in Nat
<1>1. IsFiniteSet(Codes)
  BY Parameters, FS_Interval DEF Codes
<1>2. OpenCodes \subseteq Codes /\ LiveCodes \subseteq Codes
  BY DEF OpenCodes, LiveCodes
<1> QED BY <1>1, <1>2, FS_Subset, FS_CardinalityType

LEMMA EmptyRecords ==
  /\ NoInvite \in Invites /\ NoRoot \in RootRecords /\ NoWork \in Workers /\ Idle \in Jobs
  /\ NoMailbox \in Mailboxes /\ [NoMailbox EXCEPT !.there = TRUE] \in Mailboxes
  /\ NoPairing \in Pairings /\ [NoPairing EXCEPT !.known = TRUE] \in Pairings
<1>1. 0 \in 0..MaxVersion /\ 0 \in 0..MaxMints /\ None \in Roots \union {None} /\ None \in Codes \union {None}
  BY Parameters
<1>4. NoInvite \in Invites
  BY <1>1 DEF NoInvite, Invites
<1>5. NoRoot \in RootRecords
  BY <1>1 DEF NoRoot, RootRecords
<1>6. NoWork \in Workers /\ Idle \in Jobs
  BY <1>1 DEF NoWork, Workers, Idle, Jobs, JobPcs
<1>7. NoMailbox \in Mailboxes
  BY <1>1 DEF NoMailbox, Mailboxes
<1>8. [NoMailbox EXCEPT !.there = TRUE] \in Mailboxes
  BY <1>7 DEF Mailboxes
<1>9. NoPairing \in Pairings
  BY <1>1 DEF NoPairing, Pairings
<1>10. [NoPairing EXCEPT !.known = TRUE] \in Pairings
  BY <1>9 DEF Pairings
<1> QED BY <1>4, <1>5, <1>6, <1>7, <1>8, <1>9, <1>10

\* A set of open connections grows by one at most, and only below the limit.
LEMMA OneMore ==
  ASSUME NEW S, IsFiniteSet(S), Cardinality(S) < PairLimit, NEW T, NEW c, T \subseteq S \union {c}
  PROVE  Cardinality(T) <= PairLimit
<1>1. IsFiniteSet(S \union {c}) /\ (Cardinality(S \union {c}) = Cardinality(S) + 1 \/ S \union {c} = S)
  BY FS_AddElement
<1>2. Cardinality(T) <= Cardinality(S \union {c}) /\ Cardinality(T) \in Nat
  BY <1>1, FS_Subset, FS_CardinalityType
<1>3. Cardinality(S) \in Nat /\ Cardinality(S \union {c}) \in Nat
  BY <1>1, FS_CardinalityType
<1>4. Cardinality(S \union {c}) <= PairLimit
  <2>1. CASE S \union {c} = S
    BY <2>1, <1>3, Parameters
  <2>2. CASE Cardinality(S \union {c}) = Cardinality(S) + 1
    BY <2>2, <1>3, Parameters
  <2> QED BY <1>1, <2>1, <2>2
<1> QED BY <1>2, <1>3, <1>4, Parameters

\* So do the mailboxes when one is created; no request and no answer is lost
\* that is not expired.
LEMMA CreatedSound ==
  ASSUME Typed, WithinLimits, MailSound, NEW c \in Codes, AcceptsCreate(c), mailbox' = Created(c),
         UNCHANGED <<expired, invites, pairings>>
  PROVE  /\ mailbox' \in [Codes -> Mailboxes]
         /\ RequestsKept /\ MailSound' /\ WithinLimits'
<1>1. mailbox' \in [Codes -> Mailboxes]
  <2>1. mailbox \in [Codes -> Mailboxes]
    BY DEF Typed
  <2>2. NoMailbox \in Mailboxes /\ [NoMailbox EXCEPT !.there = TRUE] \in Mailboxes
    BY EmptyRecords
  <2> QED BY <2>1, <2>2 DEF Created
<1>2. \A k \in Codes : ~mailbox[k].there => mailbox[k].request = None
  BY DEF MailSound, NoMailbox
<1>3. RequestsKept
  <2>1. ASSUME NEW k \in Codes, k \notin expired, mailbox[k].request # None
        PROVE  mailbox'[k].request = mailbox[k].request
    <3>1. mailbox[k].there
      BY <1>2, <2>1
    <3> QED BY <2>1, <3>1 DEF Created
  <2>2. expired \subseteq expired'
    OBVIOUS
  <2>3. \A k \in Codes : k \notin expired /\ mailbox[k].request # None => mailbox'[k].request = mailbox[k].request
    BY <2>1
  <2> HIDE DEF Created, AcceptsCreate
  <2> QED BY <2>2, <2>3 DEF RequestsKept
<1>4. MailSound'
  <2>1. ASSUME NEW k \in Codes, k = c, ~mailbox[c].there
        PROVE  /\ invites[k].request # None =>
                    \/ mailbox'[k].request = invites[k].request
                    \/ k \in expired /\ mailbox'[k] = NoMailbox
               /\ mailbox'[k].response = 0 /\ mailbox'[k].there
    BY <2>1, <1>2 DEF Created, NoMailbox, MailSound, AcceptsCreate
  <2>2. ASSUME NEW k \in Codes, ~(k = c /\ ~mailbox[c].there), k \in expired
        PROVE  mailbox'[k] = NoMailbox
    BY <2>2 DEF Created
  <2>3. ASSUME NEW k \in Codes, ~(k = c /\ ~mailbox[c].there), k \notin expired
        PROVE  mailbox'[k] = mailbox[k]
    BY <2>3 DEF Created
  <2>4. NoMailbox.response = 0
    BY DEF NoMailbox
  <2> QED BY <2>1, <2>2, <2>3, <2>4 DEF MailSound
<1>5. WithinLimits'
  <2>1. LiveCodes' = LiveCodes
    BY DEF LiveCodes
  <2>2. CASE mailbox[c].there
    <3>1. OpenCodes' \subseteq OpenCodes
      BY <2>2 DEF OpenCodes, Open, Created, NoMailbox
    <3>2. Cardinality(OpenCodes') <= Cardinality(OpenCodes) /\ Cardinality(OpenCodes') \in Nat
      BY <3>1, FiniteCodes, FS_Subset, FS_CardinalityType
    <3> QED BY <2>1, <3>2, FiniteCodes, Parameters DEF WithinLimits
  <2>3. CASE ~mailbox[c].there
    <3>1. OpenCodes' \subseteq OpenCodes \union {c}
      BY DEF OpenCodes, Open, Created, NoMailbox
    <3>2. Cardinality(OpenCodes) < PairLimit
      BY <2>3 DEF AcceptsCreate, OpenCodes
    <3> HIDE DEF OpenCodes
    <3> QED BY <2>1, <3>1, <3>2, FiniteCodes, OneMore DEF WithinLimits
  <2> QED BY <2>2, <2>3
<1> QED BY <1>1, <1>3, <1>4, <1>5

LEMMA InviteStep ==
  ASSUME PairingInv, NEW c \in Codes, Invite(c)
  PROVE  PairingInv'
<1> USE DEF PairingInv, Invite, UnchangedScope, UnchangedDevices
<1>1. Typed'
  <2>1. [invites EXCEPT ![c].known = TRUE] \in [Codes -> Invites]
    BY DEF Typed, Invites
  <2> QED BY <2>1 DEF Typed
<1>2. InvitesSame /\ InvitesKept
  <2>1. InvitesSame
    BY DEF InvitesSame, Typed, Invites
  <2> QED BY <2>1, SameKept
<1>3. RequestsKept
  BY DEF RequestsKept
<1> QED BY <1>1, <1>2, <1>3, LimitsFrame, ScopeFrame, IdentifiedFrame, BundlesFrame, MailFrame, JobFrame,
           RootsFrame, WorkersFrame

\* The connections stay within the limit, and none that lives is forgotten.
LEMMA RecordPairingStep ==
  ASSUME PairingInv, NEW c \in Codes, RecordPairing(c)
  PROVE  PairingInv'
<1> USE DEF PairingInv, RecordPairing, UnchangedScope, UnchangedDevices
<1>1. Typed'
  <2>1. NoPairing \in Pairings /\ [NoPairing EXCEPT !.known = TRUE] \in Pairings
    BY EmptyRecords
  <2>2. pairings' \in [Codes -> Pairings]
    BY <2>1 DEF Typed
  <2> QED BY <2>2 DEF Typed
<1>2. InvitesSame /\ InvitesKept
  BY UnchangedKept
<1>3. WithinLimits'
  <2>1. OpenCodes' = OpenCodes
    BY DEF OpenCodes, Open
  <2>2. LiveCodes' \subseteq LiveCodes \union {c}
    BY DEF LiveCodes, NoPairing
  <2>3. Cardinality(LiveCodes) < PairLimit
    BY DEF LiveCodes
  <2> HIDE DEF LiveCodes
  <2> QED BY <2>1, <2>2, <2>3, FiniteCodes, OneMore DEF WithinLimits
<1>4. MailSound'
  <2>1. \A k \in Codes : pairings'[k].response # 0 => pairings'[k] = pairings[k]
    BY DEF NoPairing
  <2>2. UNCHANGED <<mailbox, expired, invites>>
    OBVIOUS
  <2> HIDE DEF RecordPairing, PairingInv
  <2>3. MailSound
    BY DEF PairingInv
  <2> QED BY <2>1, <2>2, <2>3 DEF MailSound
<1>5. RequestsKept
  BY DEF RequestsKept
<1> QED BY <1>1, <1>2, <1>3, <1>4, <1>5, ScopeFrame, IdentifiedFrame, BundlesFrame, JobFrame, RootsFrame,
           WorkersFrame

LEMMA UploadInviteStep ==
  ASSUME PairingInv, NEW c \in Codes, UploadInvite(c)
  PROVE  PairingInv'
<1> USE DEF PairingInv, UploadInvite, UnchangedScope, UnchangedDevices
<1>1. mailbox' \in [Codes -> Mailboxes] /\ RequestsKept /\ MailSound' /\ WithinLimits'
  BY CreatedSound
<1>2. InvitesSame /\ InvitesKept
  BY UnchangedKept
<1>3. Typed'
  BY <1>1 DEF Typed
<1> QED BY <1>1, <1>2, <1>3, ScopeFrame, IdentifiedFrame, BundlesFrame, JobFrame, RootsFrame, WorkersFrame

LEMMA StartApproveStep ==
  ASSUME PairingInv, NEW c \in Codes, StartApprove(c)
  PROVE  PairingInv'
<1> USE DEF PairingInv, StartApprove, UnchangedScope, UnchangedDevices
<1>1. mailbox' \in [Codes -> Mailboxes] /\ RequestsKept /\ MailSound' /\ WithinLimits'
  BY CreatedSound
<1>2. InvitesSame /\ InvitesKept
  BY UnchangedKept
<1>3. mailbox'[c].request \in Roots
  BY <1>1 DEF Mailboxes
<1>4. job'.pc = "check" /\ job'.code = c /\ job'.root = mailbox'[c].request /\ job' \in Jobs
  BY <1>3 DEF Idle, Jobs, JobPcs
<1>5. Typed'
  BY <1>1, <1>4 DEF Typed
<1>6. JobSound'
  BY <1>3, <1>4 DEF JobSound
<1> QED BY <1>1, <1>2, <1>5, <1>6, ScopeFrame, IdentifiedFrame, BundlesFrame, RootsFrame, WorkersFrame

LEMMA JobMoves ==
  ASSUME job \in Jobs, NEW p \in JobPcs, NEW a \in Nat, job' = [job EXCEPT !.pc = p, !.answer = a]
  PROVE  /\ job' \in Jobs /\ job'.pc = p /\ job'.answer = a
         /\ job'.code = job.code /\ job'.root = job.root
BY DEF Jobs

\* A step that only moves the main computer's job on.
LEMMA JobOnly ==
  ASSUME PairingInv, job' \in Jobs, JobSound',
         UNCHANGED <<published, planned, minted, invites, pairings, mailbox, expired, settings, roots, worker>>
  PROVE  PairingInv'
<1> USE DEF PairingInv
<1>1. InvitesSame /\ InvitesKept
  BY UnchangedKept
<1>2. Typed'
  BY DEF Typed
<1>3. RequestsKept
  BY DEF RequestsKept
<1>4. MailSound'
  BY <1>1, MailFrame
<1> QED BY <1>1, <1>2, <1>3, <1>4, ScopeFrame, IdentifiedFrame, BundlesFrame, RootsFrame, WorkersFrame,
           LimitsFrame

LEMMA FailStep ==
  ASSUME PairingInv, Fail,
         UNCHANGED <<published, planned, minted, invites, pairings, mailbox, expired, settings, roots, worker>>
  PROVE  PairingInv'
<1>1. job' \in Jobs /\ job'.pc = "idle"
  BY EmptyRecords DEF Fail, Idle
<1>2. JobSound'
  BY <1>1, IdleJob
<1> QED BY <1>1, <1>2, JobOnly

\* What the job finds in the record of its invitation when it checks it.
LEMMA CheckFinds ==
  ASSUME PairingInv, job.pc = "check", invites[job.code].request \in {None, job.root}
  PROVE  /\ job.code \in Codes /\ job.root \in Roots /\ job.root # None
         /\ invites[job.code] \in Invites
         /\ invites[job.code].bundle # 0 \/ invites[job.code].grant # 0 => invites[job.code].request = job.root
<1>1. job.code \in Codes /\ job.root \in Roots
  BY DEF PairingInv, JobSound
<1>2. invites[job.code] \in Invites
  BY <1>1 DEF PairingInv, Typed
<1>3. invites[job.code].bundle # 0 \/ invites[job.code].grant # 0 => invites[job.code].request # None
  BY <1>1 DEF PairingInv, Identified
<1> QED BY <1>1, <1>2, <1>3, NoneIsNothing

\* The grant of a new invitation is one that no other has.
LEMMA Allocates ==
  ASSUME PairingInv, NEW c \in Codes, NEW r \in Roots, invites[c].grant = 0, invites[c].bundle = 0,
         mailbox[c].request = r, minted < MaxMints, minted' = minted + 1,
         invites' = [invites EXCEPT ![c] = [@ EXCEPT !.request = r, !.grant = minted + 1]],
         job' \in Jobs, JobSound',
         UNCHANGED <<published, planned, pairings, mailbox, expired, settings, roots, worker>>
  PROVE  PairingInv'
<1> USE DEF PairingInv
<1>1. r # None /\ invites[c].request = None /\ invites[c] \in Invites /\ minted \in 0..MaxMints
  BY NoneIsNothing DEF Identified, Typed
<1>2. minted + 1 \in 1..MaxMints /\ minted + 1 # 0 /\ minted' \in 0..MaxMints
  BY <1>1, Parameters
<1>3. [invites[c] EXCEPT !.request = r, !.grant = minted + 1] \in Invites
  BY <1>1, <1>2 DEF Invites
<1>4. Typed'
  <2>1. invites' \in [Codes -> Invites]
    BY <1>3 DEF Typed
  <2> QED BY <1>2, <2>1 DEF Typed
<1>5. \A k \in Codes : invites'[k] = IF k = c THEN [invites[c] EXCEPT !.request = r, !.grant = minted + 1]
                                     ELSE invites[k]
  BY DEF Typed
<1>6. invites'[c].request = r /\ invites'[c].grant = minted + 1 /\ invites'[c].bundle = 0
  <2>1. invites'[c] = [invites[c] EXCEPT !.request = r, !.grant = minted + 1]
    BY <1>5
  <2> HIDE DEF PairingInv
  <2> QED BY <1>1, <2>1 DEF Invites
<1>7. InvitesKept
  BY <1>1, <1>5 DEF InvitesKept
<1>8. Identified'
  <2>1. \A k \in Codes : invites[k].grant \in 0..MaxMints
    BY DEF Typed, Invites
  <2>2. \A k \in Codes : invites[k].grant <= minted /\ invites[k].grant # minted + 1
    BY <1>1, <2>1, Parameters DEF Identified
  <2>3. \A k \in Codes : invites'[k].grant <= minted'
    BY <1>1, <1>5, <1>6, <2>1, <2>2, Parameters
  <2>4. \A k \in Codes : /\ (invites'[k].request = None <=> invites'[k].grant = 0)
                         /\ invites'[k].bundle # 0 => invites'[k].request # None
    BY <1>1, <1>2, <1>5, <1>6 DEF Identified
  <2>5. \A k, l \in Codes : (invites'[k].grant = invites'[l].grant /\ invites'[k].grant # 0) => k = l
    <3>1. \A k, l \in Codes : (k # c /\ l # c /\ invites'[k].grant = invites'[l].grant /\ invites'[k].grant # 0) => k = l
      BY <1>5 DEF Identified
    <3>2. \A k \in Codes : k # c => invites'[k].grant # invites'[c].grant
      BY <1>5, <1>6, <2>2
    <3> QED BY <3>1, <3>2
  <2> QED BY <2>3, <2>4, <2>5 DEF Identified
<1>9. BundlesHold'
  BY <1>5, <1>6 DEF BundlesHold
<1>10. MailSound'
  BY <1>1, <1>5, <1>6 DEF MailSound
<1>11. RequestsKept
  BY DEF RequestsKept
<1> QED BY <1>4, <1>7, <1>8, <1>9, <1>10, <1>11, ScopeFrame, RootsFrame, WorkersFrame, LimitsFrame

LEMMA CheckStep ==
  ASSUME PairingInv, Check
  PROVE  PairingInv'
<1> DEFINE c == job.code
<1>1. UNCHANGED <<published, planned, pairings, mailbox, expired, settings, roots, worker>> /\ job.pc = "check"
  BY DEF Check, JobStep, UnchangedDevices
<1>2. CASE Fail /\ UNCHANGED <<invites, minted>>
  BY <1>1, <1>2, FailStep
<1>3. CASE ~(Fail /\ UNCHANGED <<invites, minted>>)
  <2>1. invites[c].request \in {None, job.root} /\ c \notin expired
    BY <1>3 DEF Check
  <2>2. /\ c \in Codes /\ job.root \in Roots /\ job.root # None /\ invites[c] \in Invites
        /\ invites[c].bundle # 0 \/ invites[c].grant # 0 => invites[c].request = job.root
    BY <1>1, <2>1, CheckFinds
  <2>3. job \in Jobs
    BY DEF PairingInv, Typed
  <2>4. CASE invites[c].bundle # 0
    <3>1. job' = [job EXCEPT !.pc = "respond", !.answer = invites[c].bundle] /\ UNCHANGED <<invites, minted>>
      BY <1>3, <2>1, <2>4 DEF Check
    <3>2. /\ job' \in Jobs /\ job'.pc = "respond" /\ job'.code = c /\ job'.root = job.root
          /\ job'.answer = invites[c].bundle
      <4>1. invites[c].bundle \in Nat /\ invites[c].grant \in Nat
        BY <2>2, Parameters DEF Invites
      <4> QED BY <2>3, <3>1, <4>1, JobMoves DEF JobPcs
    <3>3. JobSound'
      BY <2>2, <2>4, <3>1, <3>2 DEF JobSound
    <3> QED BY <1>1, <3>1, <3>2, <3>3, JobOnly
  <2>5. CASE invites[c].bundle = 0 /\ invites[c].grant # 0
    <3>1. job' = [job EXCEPT !.pc = "add", !.answer = invites[c].grant] /\ UNCHANGED <<invites, minted>>
      BY <2>1, <2>5 DEF Check
    <3>2. /\ job' \in Jobs /\ job'.pc = "add" /\ job'.code = c /\ job'.root = job.root
          /\ job'.answer = invites[c].grant
      <4>1. invites[c].bundle \in Nat /\ invites[c].grant \in Nat
        BY <2>2, Parameters DEF Invites
      <4> QED BY <2>3, <3>1, <4>1, JobMoves DEF JobPcs
    <3>3. JobSound'
      BY <2>2, <2>5, <3>1, <3>2 DEF JobSound
    <3> QED BY <1>1, <3>1, <3>2, <3>3, JobOnly
  <2>6. CASE invites[c].bundle = 0 /\ invites[c].grant = 0
    <3>1. /\ minted < MaxMints /\ minted' = minted + 1
          /\ invites' = [invites EXCEPT ![c] = [@ EXCEPT !.request = job.root, !.grant = minted + 1]]
          /\ job' = [job EXCEPT !.pc = "add", !.answer = minted + 1]
      BY <2>1, <2>6 DEF Check
    <3>2. mailbox[c].request = job.root
      BY <1>1, <2>1 DEF PairingInv, JobSound
    <3>3. minted + 1 \in Nat
      BY Parameters DEF PairingInv, Typed
    <3>4. /\ job' \in Jobs /\ job'.pc = "add" /\ job'.code = c /\ job'.root = job.root
          /\ job'.answer = minted + 1
      BY <2>3, <3>1, <3>3 DEF Jobs, JobPcs
    <3>5. invites'[c].request = job.root /\ invites'[c].grant = minted + 1 /\ invites'[c].bundle = 0
      <4>1. invites'[c] = [invites[c] EXCEPT !.request = job.root, !.grant = minted + 1]
        BY <2>2, <3>1 DEF PairingInv, Typed
      <4> QED BY <2>2, <2>6, <4>1 DEF Invites
    <3>6. JobSound'
      BY <2>2, <3>4, <3>5 DEF JobSound
    <3> HIDE DEF c
    <3> QED BY <1>1, <2>2, <2>6, <3>1, <3>2, <3>4, <3>6, Allocates
  <2> QED BY <2>4, <2>5, <2>6
<1> QED BY <1>2, <1>3

\* A step of the main computer's publications.
LEMMA ScopeMoves ==
  ASSUME PairingInv, job' \in Jobs, JobSound', ScopeTracked', BundlesHold',
         published' \in Seq(SUBSET Grants), Len(published') \in 1..MaxVersion,
         planned' \in Seq(SUBSET Grants), Len(planned') <= 1,
         UNCHANGED <<minted, invites, pairings, mailbox, expired, settings, roots, worker>>
  PROVE  PairingInv'
<1> USE DEF PairingInv
<1>1. InvitesSame /\ InvitesKept
  BY UnchangedKept
<1>2. Typed'
  BY DEF Typed
<1>3. RequestsKept
  BY DEF RequestsKept
<1>4. MailSound'
  BY <1>1, MailFrame
<1> QED BY <1>1, <1>2, <1>3, <1>4, IdentifiedFrame, RootsFrame, WorkersFrame, LimitsFrame

LEMMA CurrentTracked ==
  ASSUME PairingInv
  PROVE  /\ Len(published) \in DOMAIN published /\ Current = published[Len(published)]
         /\ Current \subseteq Grants /\ Tracked(Current, invites)
<1>1. Len(published) \in DOMAIN published
  BY Parameters DEF PairingInv, Typed
<1> QED BY <1>1, ScopeTypes DEF PairingInv, ScopeTracked, Current

LEMMA Singletons ==
  ASSUME NEW T, NEW x \in T
  PROVE  /\ <<x>> \in Seq(T) /\ Len(<<x>>) = 1
         /\ <<>> \in Seq(T) /\ Len(<<>>) = 0
OBVIOUS

LEMMA OneLonger ==
  ASSUME NEW T, NEW s \in Seq(T), NEW t \in Seq(T), Len(t) = 1
  PROVE  /\ s \o t \in Seq(T) /\ Len(s \o t) = Len(s) + 1
         /\ \A n \in DOMAIN s : n \in DOMAIN (s \o t) /\ (s \o t)[n] = s[n]
         /\ 1 \in DOMAIN t
         /\ \A n \in DOMAIN (s \o t) : n \in DOMAIN s \/ (s \o t)[n] = t[1]
<1>1. /\ s \o t \in Seq(T) /\ Len(s \o t) = Len(s) + 1 /\ Len(s) \in Nat
      /\ \A n \in 1..Len(s) + 1 : (s \o t)[n] = IF n <= Len(s) THEN s[n] ELSE t[n - Len(s)]
  <2>1. s \o t \in Seq(T)
    BY ConcatProperties, Zenon
  <2>2. Len(s \o t) = Len(s) + Len(t)
    BY ConcatProperties, Zenon
  <2>3. \A n \in 1..Len(s) + Len(t) : (s \o t)[n] = IF n <= Len(s) THEN s[n] ELSE t[n - Len(s)]
    BY ConcatProperties, Zenon
  <2>4. Len(s) \in Nat
    BY LenProperties, Zenon
  <2> QED BY <2>1, <2>2, <2>3, <2>4, Zenon
<1>2. DOMAIN s = 1..Len(s) /\ DOMAIN t = 1..1 /\ DOMAIN (s \o t) = 1..Len(s) + 1
  BY <1>1, LenProperties
<1> QED BY <1>1, <1>2

LEMMA NotEmpty ==
  ASSUME NEW T, NEW s \in Seq(T), s # <<>>, Len(s) <= 1
  PROVE  Len(s) = 1
<1>1. Len(s) \in Nat \ {0}
  BY EmptySeq, Zenon
<1> QED BY <1>1

\* A prepared publication that is tracked.
LEMMA PlanMoves ==
  ASSUME PairingInv, job' \in Jobs, JobSound', NEW S \in SUBSET Grants, Tracked(S, invites),
         planned' \in {<<>>, <<S>>},
         UNCHANGED <<published, minted, invites, pairings, mailbox, expired, settings, roots, worker>>
  PROVE  PairingInv'
<1>1. planned' \in Seq(SUBSET Grants) /\ Len(planned') <= 1
  <2>1. S \in SUBSET Grants
    OBVIOUS
  <2> HIDE DEF Grants
  <2>2. <<S>> \in Seq(SUBSET Grants) /\ Len(<<S>>) = 1 /\ <<>> \in Seq(SUBSET Grants) /\ Len(<<>>) = 0
    BY <2>1, Singletons
  <2>3. CASE planned' = <<>>
    BY <2>2, <2>3
  <2>4. CASE planned' = <<S>>
    BY <2>2, <2>4
  <2> QED BY <2>3, <2>4
<1>2. \A n \in DOMAIN planned' : planned'[n] = S
  OBVIOUS
<1>3. ScopeTracked'
  BY <1>2 DEF PairingInv, ScopeTracked
<1>4. InvitesSame
  BY UnchangedKept
<1>5. BundlesHold'
  BY <1>4, BundlesFrame DEF PairingInv
<1>6. published' \in Seq(SUBSET Grants) /\ Len(published') \in 1..MaxVersion
  BY DEF PairingInv, Typed
<1> QED BY <1>1, <1>3, <1>5, <1>6, ScopeMoves

LEMMA AddStep ==
  ASSUME PairingInv, Add
  PROVE  PairingInv'
<1> DEFINE c == job.code
           kept == {g \in Current : g.id \notin revoked}
           grant == [device |-> job.root, id |-> job.answer]
<1>1. /\ UNCHANGED <<published, minted, invites, pairings, mailbox, expired, settings, roots, worker>>
      /\ job.pc = "add" /\ planned = <<>>
  BY DEF Add, JobStep, UnchangedDevices
<1>2. CASE Fail /\ UNCHANGED planned
  BY <1>1, <1>2, FailStep
<1>3. CASE ~(Fail /\ UNCHANGED planned)
  <2>1. /\ ~\E g \in kept : (g.device = grant.device \/ g.id = grant.id) /\ g # grant
        /\ planned' \in {<<>>, <<kept \union {grant}>>}
        /\ job' = [job EXCEPT !.pc = "wrap", !.answer = 0]
    BY <1>3 DEF Add
  <2>2. /\ c \in Codes /\ job.root \in Roots /\ job.root # None
        /\ invites[c].request = job.root /\ invites[c].bundle = 0 /\ invites[c].grant = job.answer
    BY <1>1, NoneIsNothing DEF PairingInv, JobSound
  <2>3. job.answer \in 1..MaxMints
    <3>1. invites[c].grant \in 0..MaxMints /\ invites[c].grant # 0
      BY <2>2 DEF PairingInv, Typed, Invites, Identified
    <3> HIDE DEF c
    <3> QED BY <2>2, <3>1, Parameters
  <2>4. grant \in Grants /\ grant.device = job.root /\ grant.id = job.answer
    BY <2>2, <2>3 DEF Grants
  <2> HIDE DEF grant
  <2>5. kept \union {grant} \subseteq Grants
    BY <2>4, CurrentTracked
  <2>6. Tracked(kept \union {grant}, invites)
    <3>1. Tracked(Current, invites)
      BY CurrentTracked
    <3>2. \A g \in kept \union {grant} : \E k \in Codes : invites[k].request = g.device /\ invites[k].grant = g.id
      BY <2>2, <2>4, <3>1 DEF Tracked
    <3>3. \A g, h \in kept \union {grant} : h.device = g.device => h = g
      BY <2>1, <2>4, <3>1 DEF Tracked
    <3> HIDE DEF kept
    <3> QED BY <3>2, <3>3 DEF Tracked
  <2>7. /\ job' \in Jobs /\ job'.pc = "wrap" /\ job'.code = c /\ job'.root = job.root
    <3>1. job \in Jobs
      BY DEF PairingInv, Typed
    <3> QED BY <2>1, <3>1, JobMoves DEF JobPcs
  <2>8. JobSound'
    BY <1>1, <2>2, <2>7 DEF JobSound
  <2> HIDE DEF kept
  <2> QED BY <1>1, <2>1, <2>5, <2>6, <2>7, <2>8, PlanMoves
<1> QED BY <1>2, <1>3

\* The records and the mailboxes stay, and with them what the job relies on.
LEMMA JobStays ==
  ASSUME PairingInv, UNCHANGED <<invites, mailbox, expired, job>>
  PROVE  job' \in Jobs /\ JobSound'
<1>1. InvitesSame /\ RequestsKept
  BY UnchangedKept DEF RequestsKept
<1>2. job' \in Jobs
  BY DEF PairingInv, Typed
<1> QED BY <1>1, <1>2, JobFrame DEF PairingInv

LEMMA PublishStep ==
  ASSUME PairingInv, Publish
  PROVE  PairingInv'
<1>1. /\ UNCHANGED <<minted, invites, pairings, job, mailbox, expired, settings, roots, worker>>
      /\ planned # <<>> /\ planned' = <<>>
  BY DEF Publish, UnchangedDevices
<1>2. job' \in Jobs /\ JobSound'
  BY <1>1, JobStays
<1>3. planned' \in Seq(SUBSET Grants) /\ Len(planned') <= 1 /\ DOMAIN planned' = {}
  BY <1>1
<1>4. /\ published \in Seq(SUBSET Grants) /\ Len(published) \in 1..MaxVersion
      /\ planned \in Seq(SUBSET Grants) /\ Len(planned) = 1
  <2>1. /\ published \in Seq(SUBSET Grants) /\ Len(published) \in 1..MaxVersion
        /\ planned \in Seq(SUBSET Grants) /\ Len(planned) <= 1
    BY DEF PairingInv, Typed
  <2> QED BY <1>1, <2>1, NotEmpty
<1>5. CASE UNCHANGED published
  <2>1. ScopeTracked' /\ BundlesHold'
    BY <1>1, <1>3, <1>5 DEF PairingInv, ScopeTracked, BundlesHold
  <2> QED BY <1>1, <1>2, <1>3, <1>4, <1>5, <2>1, ScopeMoves
<1>6. CASE Version < MaxVersion /\ published' = published \o planned
  <2>1. published' \in Seq(SUBSET Grants) /\ Len(published') = Len(published) + 1
    BY <1>4, <1>6, OneLonger
  <2>2. Len(published') \in 1..MaxVersion
    BY <1>4, <1>6, <2>1, Parameters DEF Version
  <2>3. \A n \in DOMAIN published : n \in DOMAIN published' /\ published'[n] = published[n]
    BY <1>4, <1>6, OneLonger
  <2>4. \A n \in DOMAIN published' : n \in DOMAIN published \/ (1 \in DOMAIN planned /\ published'[n] = planned[1])
    BY <1>4, <1>6, OneLonger
  <2>5. ScopeTracked'
    BY <1>1, <1>3, <2>3, <2>4 DEF PairingInv, ScopeTracked
  <2>6. BundlesHold'
    BY <1>1, <2>3 DEF PairingInv, BundlesHold
  <2> QED BY <1>1, <1>2, <1>3, <2>1, <2>2, <2>5, <2>6, ScopeMoves
<1> QED BY <1>5, <1>6 DEF Publish

LEMMA PrepareStep ==
  ASSUME PairingInv, Prepare
  PROVE  PairingInv'
<1> DEFINE kept == {g \in Current : g.id \notin revoked}
<1>1. /\ UNCHANGED <<published, minted, invites, pairings, job, mailbox, expired, settings, roots, worker>>
      /\ planned' = <<kept>>
  BY DEF Prepare, UnchangedDevices
<1>2. job' \in Jobs /\ JobSound'
  BY <1>1, JobStays
<1>3. kept \subseteq Grants /\ Tracked(kept, invites)
  BY CurrentTracked DEF Tracked
<1> HIDE DEF kept
<1> QED BY <1>1, <1>2, <1>3, PlanMoves

LEMMA WrapStep ==
  ASSUME PairingInv, Wrap
  PROVE  PairingInv'
<1>1. /\ UNCHANGED <<published, planned, minted, invites, pairings, mailbox, expired, settings, roots, worker>>
      /\ job.pc = "wrap" /\ job \in Jobs
  BY DEF Wrap, JobStep, UnchangedDevices, PairingInv, Typed
<1>2. CASE Fail
  BY <1>1, <1>2, FailStep
<1>3. CASE job' = [job EXCEPT !.pc = "save", !.answer = Version]
  <2>1. Version \in Nat
    BY Parameters DEF PairingInv, Typed, Version
  <2>2. job' \in Jobs /\ job'.pc = "save" /\ job'.code = job.code /\ job'.root = job.root
    BY <1>1, <1>3, <2>1, JobMoves DEF JobPcs
  <2>3. JobSound'
    BY <1>1, <2>2 DEF PairingInv, JobSound
  <2> QED BY <1>1, <2>2, <2>3, JobOnly
<1> QED BY <1>2, <1>3 DEF Wrap

\* The grant that is still in the policy is the one of the invitation, so the
\* stored answer is sealed for a publication that holds it.
LEMMA LiveHolds ==
  ASSUME PairingInv, NEW c \in Codes, Live(c)
  PROVE  [device |-> invites[c].request, id |-> invites[c].grant] \in Current
<1>1. PICK g \in Current : g.id = invites[c].grant
  BY DEF Live
<1>2. PICK k \in Codes : invites[k].request = g.device /\ invites[k].grant = g.id
  BY CurrentTracked DEF Tracked
<1>3. k = c
  BY <1>1, <1>2 DEF PairingInv, Identified, Live
<1>4. g = [device |-> invites[c].request, id |-> invites[c].grant]
  BY <1>1, <1>2, <1>3, CurrentTracked DEF Grants
<1> QED BY <1>1, <1>4

LEMMA SaveStep ==
  ASSUME PairingInv, Save
  PROVE  PairingInv'
<1> DEFINE c == job.code
           v == Len(published)
<1>1. /\ UNCHANGED <<published, planned, minted, pairings, mailbox, expired, settings, roots, worker>>
      /\ job.pc = "save" /\ job \in Jobs
  BY DEF Save, JobStep, UnchangedDevices, PairingInv, Typed
<1>2. CASE Fail /\ UNCHANGED invites
  BY <1>1, <1>2, FailStep
<1>3. CASE ~(Fail /\ UNCHANGED invites)
  <2>1. /\ Live(c) /\ v = job.answer
        /\ invites' = [invites EXCEPT ![c].bundle = job.answer]
        /\ job' = [job EXCEPT !.pc = "respond"]
    BY <1>3 DEF Save, Version
  <2>2. /\ c \in Codes /\ job.root \in Roots /\ job.root # None
        /\ invites[c].request = job.root /\ invites[c].bundle = 0 /\ invites[c] \in Invites
    BY <1>1, NoneIsNothing DEF PairingInv, JobSound, Typed
  <2>3. v \in 1..MaxVersion /\ v \in DOMAIN published /\ v # 0
    BY CurrentTracked, Parameters DEF PairingInv, Typed
  <2>4. [device |-> invites[c].request, id |-> invites[c].grant] \in published[v]
    BY <2>1, <2>2, LiveHolds, CurrentTracked
  <2>5. \A k \in Codes : invites'[k] = IF k = c THEN [invites[c] EXCEPT !.bundle = v] ELSE invites[k]
    BY <2>1 DEF PairingInv, Typed
  <2> HIDE DEF v
  <2>6. [invites[c] EXCEPT !.bundle = v] \in Invites
    BY <2>2, <2>3, Parameters DEF Invites
  <2>7. /\ invites'[c].request = job.root /\ invites'[c].grant = invites[c].grant /\ invites'[c].bundle = v
        /\ invites'[c] \in Invites
    <3>1. invites'[c] = [invites[c] EXCEPT !.bundle = v]
      BY <2>2, <2>5
    <3> HIDE DEF c
    <3> QED BY <2>2, <2>6, <3>1 DEF Invites
  <2>8. invites' \in [Codes -> Invites]
    <3>1. DOMAIN invites' = Codes /\ invites' = [k \in Codes |-> invites'[k]]
      BY <2>1 DEF PairingInv, Typed
    <3>2. \A k \in Codes : invites'[k] \in Invites
      BY <2>5, <2>7 DEF PairingInv, Typed
    <3> QED BY <3>1, <3>2
  <2>9. job' \in Jobs /\ job'.pc = "respond" /\ job'.answer = v /\ job'.code = c /\ job'.root = job.root
    BY <1>1, <2>1 DEF Jobs, JobPcs
  <2>10. Typed'
    BY <1>1, <2>8, <2>9 DEF PairingInv, Typed
  <2> HIDE DEF c
  <2>11. InvitesKept
    BY <2>2, <2>5, <2>7 DEF InvitesKept
  <2>12. Identified'
    BY <1>1, <2>2, <2>5, <2>7 DEF PairingInv, Identified
  <2>13. BundlesHold'
    BY <1>1, <2>2, <2>3, <2>4, <2>5, <2>7 DEF PairingInv, BundlesHold
  <2>14. MailSound'
    BY <1>1, <2>2, <2>5, <2>7 DEF PairingInv, MailSound
  <2>15. JobSound'
    BY <2>2, <2>3, <2>7, <2>9 DEF JobSound
  <2>16. RequestsKept
    BY <1>1 DEF RequestsKept
  <2> QED BY <1>1, <2>10, <2>11, <2>12, <2>13, <2>14, <2>15, <2>16, ScopeFrame, RootsFrame, WorkersFrame,
             LimitsFrame DEF PairingInv
<1> QED BY <1>2, <1>3

\* A step that writes the records of the connections.
LEMMA PairingsMove ==
  ASSUME PairingInv, pairings' \in [Codes -> Pairings], job' \in Jobs, JobSound',
         \A c \in Codes : /\ pairings'[c].known = pairings[c].known
                          /\ pairings'[c].response # 0 => pairings'[c].response = invites[c].bundle,
         UNCHANGED <<published, planned, minted, invites, mailbox, expired, settings, roots, worker>>
  PROVE  PairingInv'
<1> USE DEF PairingInv
<1>1. InvitesSame /\ InvitesKept
  BY UnchangedKept
<1>2. Typed'
  BY DEF Typed
<1>3. RequestsKept
  BY DEF RequestsKept
<1>4. MailSound'
  BY DEF MailSound
<1>5. WithinLimits'
  <2>1. OpenCodes' = OpenCodes /\ LiveCodes' = LiveCodes
    BY DEF OpenCodes, LiveCodes, Open
  <2> QED BY <2>1 DEF WithinLimits
<1> QED BY <1>1, <1>2, <1>3, <1>4, <1>5, ScopeFrame, IdentifiedFrame, BundlesFrame, RootsFrame, WorkersFrame

LEMMA RespondStep ==
  ASSUME PairingInv, Respond
  PROVE  PairingInv'
<1> DEFINE c == job.code
           answered == IF pairings[c].response = 0 THEN job.answer ELSE pairings[c].response
<1>1. /\ UNCHANGED <<published, planned, minted, invites, mailbox, expired, settings, roots, worker>>
      /\ job.pc = "respond" /\ job \in Jobs
  BY DEF Respond, JobStep, UnchangedDevices, PairingInv, Typed
<1>2. CASE Fail /\ UNCHANGED pairings
  BY <1>1, <1>2, FailStep
<1>3. CASE ~(Fail /\ UNCHANGED pairings)
  <2>1. /\ pairings' = [pairings EXCEPT ![c].response = answered, ![c].device = job.root]
        /\ job' = [Idle EXCEPT !.pc = "flush"]
    <3>1. pairings[c].known
      BY <1>3 DEF Respond
    <3> QED BY <3>1 DEF Respond
  <2>2. /\ c \in Codes /\ job.root \in Roots /\ invites[c].bundle = job.answer
        /\ pairings[c] \in Pairings /\ invites[c] \in Invites
        /\ pairings[c].response # 0 => pairings[c].response = invites[c].bundle
    BY <1>1 DEF PairingInv, JobSound, Typed, MailSound
  <2>3. answered \in 0..MaxVersion /\ answered = invites[c].bundle
    <3>1. invites[c].bundle \in 0..MaxVersion
      BY <2>2 DEF Invites
    <3> QED BY <2>2, <3>1
  <2> HIDE DEF answered, c
  <2>4. [pairings[c] EXCEPT !.response = answered, !.device = job.root] \in Pairings
    BY <2>2, <2>3 DEF Pairings
  <2>5. \A k \in Codes : pairings'[k] = IF k = c
          THEN [pairings[c] EXCEPT !.response = answered, !.device = job.root] ELSE pairings[k]
    BY <2>1 DEF PairingInv, Typed
  <2>6. pairings' \in [Codes -> Pairings]
    <3>1. pairings \in [Codes -> Pairings]
      BY DEF PairingInv, Typed
    <3> QED BY <2>1, <2>4, <3>1
  <2>7. pairings'[c].known = pairings[c].known /\ pairings'[c].response = answered
    <3>1. pairings'[c] = [pairings[c] EXCEPT !.response = answered, !.device = job.root]
      BY <2>2, <2>5
    <3> QED BY <2>2, <3>1 DEF Pairings
  <2>8. job' \in Jobs /\ job'.pc = "flush"
    BY <2>1, EmptyRecords DEF Jobs, JobPcs
  <2>9. JobSound'
    BY <2>8, IdleJob
  <2>10. \A k \in Codes : /\ pairings'[k].known = pairings[k].known
                          /\ pairings'[k].response # 0 => pairings'[k].response = invites[k].bundle
    BY <2>3, <2>5, <2>7 DEF PairingInv, MailSound
  <2> QED BY <1>1, <2>6, <2>8, <2>9, <2>10, PairingsMove
<1> QED BY <1>2, <1>3

LEMMA StartFlushStep ==
  ASSUME PairingInv, StartFlush
  PROVE  PairingInv'
<1>1. UNCHANGED <<published, planned, minted, invites, pairings, mailbox, expired, settings, roots, worker>>
  BY DEF StartFlush, JobStep, UnchangedDevices
<1>2. job' \in Jobs /\ job'.pc = "flush"
  BY EmptyRecords DEF StartFlush, Jobs, JobPcs
<1> QED BY <1>1, <1>2, IdleJob, JobOnly

LEMMA FlushStep ==
  ASSUME PairingInv, Flush
  PROVE  PairingInv'
<1>1. UNCHANGED <<published, planned, minted, invites, pairings, mailbox, expired, settings, roots, worker>>
  BY DEF Flush, JobStep, UnchangedDevices
<1>2. job' \in Jobs /\ job'.pc = "post"
  <2> DEFINE due == {c \in Codes : Due(c)}
  <2>1. job' = [Idle EXCEPT !.pc = "post", !.todo = due] /\ due \in SUBSET Codes
    BY DEF Flush
  <2> HIDE DEF due
  <2> QED BY <2>1, EmptyRecords DEF Jobs, JobPcs
<1> QED BY <1>1, <1>2, IdleJob, JobOnly

\* A slot of an open mailbox that was empty is written.
LEMMA MailboxMoves ==
  ASSUME Typed, WithinLimits, MailSound,
         \A c \in Codes :
           \/ mailbox'[c] = mailbox[c]
           \/ /\ Open(c) /\ mailbox'[c].there
              /\ mailbox[c].request # None => mailbox'[c].request = mailbox[c].request
              /\ mailbox'[c].response # 0 => mailbox'[c].response = invites[c].bundle,
         UNCHANGED <<expired, invites, pairings>>
  PROVE  RequestsKept /\ MailSound' /\ WithinLimits'
<1>1. RequestsKept
  <2>1. expired \subseteq expired'
    OBVIOUS
  <2> QED BY <2>1 DEF RequestsKept
<1>2. MailSound'
  BY NoneIsNothing DEF MailSound, Open
<1>3. WithinLimits'
  <2>1. OpenCodes' = OpenCodes /\ LiveCodes' = LiveCodes
    BY DEF OpenCodes, LiveCodes, Open
  <2> QED BY <2>1 DEF WithinLimits
<1> QED BY <1>1, <1>2, <1>3

LEMMA PostStep ==
  ASSUME PairingInv, Post
  PROVE  PairingInv'
<1>1. /\ UNCHANGED <<published, planned, minted, invites, pairings, expired, settings, roots, worker>>
      /\ job.pc = "post" /\ job \in Jobs
  BY DEF Post, JobStep, UnchangedDevices, PairingInv, Typed
<1>2. CASE Fail /\ UNCHANGED mailbox
  BY <1>1, <1>2, FailStep
<1>3. ASSUME NEW c \in job.todo, AcceptsResponse(c, pairings[c].response),
             mailbox' = [mailbox EXCEPT ![c].response = pairings[c].response],
             job' = [job EXCEPT !.pc = "mark", !.code = c, !.todo = @ \ {c}]
      PROVE  PairingInv'
  <2>1. c \in Codes /\ pairings[c] \in Pairings /\ mailbox[c] \in Mailboxes
    BY <1>1 DEF Jobs, PairingInv, Typed
  <2>2. pairings[c].response \in 0..MaxVersion
    BY <2>1 DEF Pairings
  <2>3. mailbox'[c] = [mailbox[c] EXCEPT !.response = pairings[c].response]
    BY <1>3, <2>1 DEF PairingInv, Typed
  <2>4. /\ mailbox'[c] \in Mailboxes /\ mailbox'[c].there = mailbox[c].there
        /\ mailbox'[c].request = mailbox[c].request /\ mailbox'[c].response = pairings[c].response
    BY <2>1, <2>2, <2>3 DEF Mailboxes
  <2>5. mailbox' \in [Codes -> Mailboxes]
    <3>1. mailbox \in [Codes -> Mailboxes] /\ mailbox' = [mailbox EXCEPT ![c] = mailbox'[c]]
      BY <1>3, <2>1, <2>3 DEF PairingInv, Typed
    <3> QED BY <2>4, <3>1
  <2>6. \A k \in Codes : k # c => mailbox'[k] = mailbox[k]
    BY <1>3 DEF PairingInv, Typed
  <2>7. Open(c) /\ mailbox'[c].there
    BY <1>3, <2>4 DEF AcceptsResponse, Open
  <2>8. pairings[c].response # 0 => pairings[c].response = invites[c].bundle
    BY <2>1 DEF PairingInv, MailSound
  <2>9. RequestsKept /\ MailSound' /\ WithinLimits'
    BY <1>1, <2>4, <2>6, <2>7, <2>8, MailboxMoves DEF PairingInv
  <2>10. job' \in Jobs /\ job'.pc = "mark" /\ job'.code = c
    BY <1>1, <1>3, <2>1 DEF Jobs, JobPcs
  <2>11. JobSound'
    BY <2>1, <2>10 DEF JobSound
  <2>12. Typed'
    BY <1>1, <2>5, <2>10 DEF PairingInv, Typed
  <2>13. InvitesSame /\ InvitesKept
    BY <1>1, UnchangedKept
  <2> QED BY <1>1, <2>9, <2>11, <2>12, <2>13, ScopeFrame, IdentifiedFrame, BundlesFrame, RootsFrame,
             WorkersFrame DEF PairingInv
<1> QED BY <1>2, <1>3 DEF Post

LEMMA MarkStep ==
  ASSUME PairingInv, Mark
  PROVE  PairingInv'
<1> DEFINE c == job.code
<1>1. /\ UNCHANGED <<published, planned, minted, invites, mailbox, expired, settings, roots, worker>>
      /\ job.pc = "mark" /\ job \in Jobs
  BY DEF Mark, JobStep, UnchangedDevices, PairingInv, Typed
<1>2. CASE Fail /\ UNCHANGED pairings
  BY <1>1, <1>2, FailStep
<1>3. CASE ~(Fail /\ UNCHANGED pairings)
  <2>1. /\ pairings' = [pairings EXCEPT ![c].sent = TRUE]
        /\ job' = [job EXCEPT !.pc = "post", !.code = None]
    BY <1>3 DEF Mark
  <2>2. c \in Codes /\ pairings \in [Codes -> Pairings]
    BY <1>1 DEF PairingInv, JobSound, Typed
  <2>3. job' \in Jobs /\ job'.pc = "post"
    BY <1>1, <2>1 DEF Jobs, JobPcs
  <2> HIDE DEF c
  <2>4. pairings' \in [Codes -> Pairings]
    BY <2>1, <2>2 DEF Pairings
  <2>5. \A k \in Codes : pairings'[k].known = pairings[k].known /\ pairings'[k].response = pairings[k].response
    BY <2>1, <2>2 DEF Pairings
  <2>6. \A k \in Codes : pairings[k].response # 0 => pairings[k].response = invites[k].bundle
    BY DEF PairingInv, MailSound
  <2>7. JobSound'
    BY <2>3, IdleJob
  <2> QED BY <1>1, <2>3, <2>4, <2>5, <2>6, <2>7, PairingsMove
<1> QED BY <1>2, <1>3

LEMMA RevokeStep ==
  ASSUME PairingInv, Revoke
  PROVE  PairingInv'
<1>1. UNCHANGED <<published, planned, minted, invites, pairings, mailbox, expired, settings, roots, worker, job>>
  BY DEF Revoke, UnchangedDevices
<1> QED BY <1>1, JobStays, JobOnly

LEMMA JobFailsStep ==
  ASSUME PairingInv, JobFails
  PROVE  PairingInv'
<1>1. /\ UNCHANGED <<published, planned, minted, invites, pairings, mailbox, expired, settings, roots, worker>>
      /\ Fail
  BY DEF JobFails, UnchangedScope, UnchangedDevices
<1> QED BY <1>1, FailStep

-----------------------------------------------------------------------------
(* The secondary computers *)

\* A step of computer m that leaves the main one and the relay alone.
LEMMA DeviceMoves ==
  ASSUME PairingInv, NEW m \in Computers,
         worker' \in [Computers -> Workers], settings' \in [Computers -> Roots \union {None}],
         roots' \in [Roots -> RootRecords], RootsSound', WorkerSound(m)',
         \A k \in Computers \ {m} : worker'[k] = worker[k] /\ settings'[k] = settings[k],
         \A r \in Roots : roots[r].code # None => roots'[r].code = roots[r].code,
         UNCHANGED <<published, planned, minted, invites, pairings, job, mailbox, expired>>
  PROVE  PairingInv'
<1> USE DEF PairingInv
<1>1. InvitesSame /\ InvitesKept
  BY UnchangedKept
<1>2. Typed'
  BY DEF Typed
<1>3. RequestsKept
  BY DEF RequestsKept
<1>4. MailSound'
  BY <1>1, MailFrame
<1>5. JobSound'
  BY JobStays
<1>6. WorkersSound'
  <2>1. ASSUME NEW k \in Computers, k # m
        PROVE  WorkerSound(k)'
    <3>1. WorkerSound(k) /\ worker'[k] = worker[k] /\ settings'[k] = settings[k]
      BY <2>1 DEF WorkersSound
    <3>2. settings[k] # None => /\ roots[settings[k]].code \in Codes
                                /\ roots'[settings[k]].code = roots[settings[k]].code
      BY <3>1, NoneIsNothing DEF WorkerSound, Typed
    <3> HIDE DEF PairingInv
    <3> QED BY <3>1, <3>2 DEF WorkerSound, RootOf
  <2> QED BY <2>1 DEF WorkersSound
<1> QED BY <1>1, <1>2, <1>3, <1>4, <1>5, <1>6, ScopeFrame, IdentifiedFrame, BundlesFrame, LimitsFrame

\* A step that only moves the work of computer m on.
LEMMA WorkerMoves ==
  ASSUME PairingInv, NEW m \in Computers, NEW w \in Workers, worker' = [worker EXCEPT ![m] = w], WorkerSound(m)',
         UNCHANGED <<published, planned, minted, invites, pairings, job, mailbox, expired, settings, roots>>
  PROVE  PairingInv'
<1>1. /\ worker' \in [Computers -> Workers] /\ settings' \in [Computers -> Roots \union {None}]
      /\ roots' \in [Roots -> RootRecords]
      /\ \A k \in Computers \ {m} : worker'[k] = worker[k]
  BY DEF PairingInv, Typed
<1>2. RootsSound'
  BY UnchangedKept, RootsFrame DEF PairingInv
<1> QED BY <1>1, <1>2, DeviceMoves

LEMMA StopStep ==
  ASSUME PairingInv, NEW m \in Computers, Stop(m),
         UNCHANGED <<published, planned, minted, invites, pairings, job, mailbox, expired, settings, roots>>
  PROVE  PairingInv'
<1>1. worker' = [worker EXCEPT ![m] = NoWork] /\ NoWork \in Workers
  BY EmptyRecords DEF Stop
<1>2. worker'[m] = NoWork /\ NoWork.pc = "idle"
  BY DEF PairingInv, Typed, Stop, NoWork
<1>3. WorkerSound(m)'
  BY <1>2 DEF PairingInv, WorkersSound, WorkerSound
<1> QED BY <1>1, <1>3, WorkerMoves

\* What a computer at work has.
LEMMA WorkerHas ==
  ASSUME PairingInv, NEW m \in Computers, worker[m].pc # "idle"
  PROVE  /\ settings[m] \in Roots /\ settings[m] # None /\ worker[m] \in Workers
         /\ roots[settings[m]] \in RootRecords /\ RootOf(m).code \in Codes /\ RootOf(m) = roots[settings[m]]
         /\ WorkerSound(m)
<1>1. WorkerSound(m)
  BY DEF PairingInv, WorkersSound
<1>2. settings[m] \in Roots /\ settings[m] # None
  BY <1>1, NoneIsNothing DEF PairingInv, Typed, WorkerSound
<1> QED BY <1>1, <1>2 DEF PairingInv, Typed, WorkerSound, RootOf

LEMMA WorkerChanges ==
  ASSUME PairingInv, NEW m \in Computers, NEW p, p \in {"idle", "upload", "poll", "get", "install", "apply", "activate"},
         worker' = [worker EXCEPT ![m].pc = p]
  PROVE  /\ [worker[m] EXCEPT !.pc = p] \in Workers /\ worker' = [worker EXCEPT ![m] = [worker[m] EXCEPT !.pc = p]]
         /\ worker'[m].pc = p /\ worker'[m].answer = worker[m].answer /\ worker' \in [Computers -> Workers]
         /\ \A k \in Computers \ {m} : worker'[k] = worker[k]
<1>1. worker \in [Computers -> Workers] /\ worker[m] \in Workers
  BY DEF PairingInv, Typed
<1>2. [worker[m] EXCEPT !.pc = p] \in Workers
  BY <1>1 DEF Workers
<1>3. worker' = [worker EXCEPT ![m] = [worker[m] EXCEPT !.pc = p]]
  BY <1>1
<1>4. worker'[m] = [worker[m] EXCEPT !.pc = p]
  BY <1>1, <1>3
<1> QED BY <1>1, <1>2, <1>3, <1>4 DEF Workers

LEMMA JoinStep ==
  ASSUME PairingInv, NEW m \in Computers, NEW c \in Codes, Join(m, c)
  PROVE  PairingInv'
<1>1. /\ UNCHANGED <<published, planned, minted, invites, pairings, job, mailbox, expired>>
      /\ worker' = [worker EXCEPT ![m].pc = "upload"]
  BY DEF Join, UnchangedMain
<1>2. PICK r \in Roots : /\ roots[r] = NoRoot
                         /\ roots' = [roots EXCEPT ![r] = [NoRoot EXCEPT !.code = c, !.status = "pending"]]
                         /\ settings' = [settings EXCEPT ![m] = r]
  BY DEF Join
<1> DEFINE fresh == [NoRoot EXCEPT !.code = c, !.status = "pending"]
<1>3. fresh \in RootRecords /\ fresh.code = c /\ fresh.generation = 0
  BY EmptyRecords DEF RootRecords, NoRoot
<1>4. roots[r].code = None /\ roots[r].generation = 0
  BY <1>2 DEF NoRoot
<1> HIDE DEF fresh
<1>5. /\ roots' \in [Roots -> RootRecords] /\ roots'[r] = fresh
      /\ \A q \in Roots : q # r => roots'[q] = roots[q]
  BY <1>2, <1>3 DEF PairingInv, Typed, fresh
<1>6. settings' \in [Computers -> Roots \union {None}] /\ settings'[m] = r
      /\ \A k \in Computers \ {m} : settings'[k] = settings[k]
  BY <1>2 DEF PairingInv, Typed
<1>7. \A q \in Roots : roots[q].code # None => roots'[q].code = roots[q].code
  BY <1>4, <1>5
<1>8. RootsSound'
  BY <1>1, <1>3, <1>5 DEF PairingInv, RootsSound
<1>9. /\ worker' \in [Computers -> Workers] /\ worker'[m].pc = "upload"
      /\ \A k \in Computers \ {m} : worker'[k] = worker[k]
  BY <1>1, WorkerChanges
<1>10. WorkerSound(m)'
  BY <1>3, <1>5, <1>6, <1>9, NoneIsNothing DEF WorkerSound
<1> QED BY <1>1, <1>5, <1>6, <1>7, <1>8, <1>9, <1>10, DeviceMoves

\* A join or a poll begins.
LEMMA BeginStep ==
  ASSUME PairingInv, NEW m \in Computers, NEW p \in {"upload", "poll"}, worker' = [worker EXCEPT ![m].pc = p],
         settings[m] # None,
         UNCHANGED <<published, planned, minted, invites, pairings, job, mailbox, expired, settings, roots>>
  PROVE  PairingInv'
<1>1. /\ [worker[m] EXCEPT !.pc = p] \in Workers /\ worker' = [worker EXCEPT ![m] = [worker[m] EXCEPT !.pc = p]]
      /\ worker'[m].pc = p
  BY WorkerChanges
<1>2. WorkerSound(m)'
  BY <1>1 DEF PairingInv, WorkersSound, WorkerSound
<1> QED BY <1>1, <1>2, WorkerMoves

LEMMA RejoinStep ==
  ASSUME PairingInv, NEW m \in Computers, Rejoin(m) \/ StartPoll(m)
  PROVE  PairingInv'
<1>1. CASE Rejoin(m)
  <2>1. /\ UNCHANGED <<published, planned, minted, invites, pairings, job, mailbox, expired, settings, roots>>
        /\ settings[m] # None /\ worker' = [worker EXCEPT ![m].pc = "upload"]
    BY <1>1 DEF Rejoin, UnchangedMain
  <2> QED BY <2>1, BeginStep
<1>2. CASE StartPoll(m)
  <2>1. /\ UNCHANGED <<published, planned, minted, invites, pairings, job, mailbox, expired, settings, roots>>
        /\ settings[m] # None /\ worker' = [worker EXCEPT ![m].pc = "poll"]
    BY <1>2 DEF StartPoll, UnchangedMain
  <2> QED BY <2>1, BeginStep
<1> QED BY <1>1, <1>2

LEMMA UploadStep ==
  ASSUME PairingInv, NEW m \in Computers, Upload(m)
  PROVE  PairingInv'
<1> DEFINE c == RootOf(m).code
           p == IF worker[m].pc = "poll" THEN "get" ELSE "idle"
<1>1. /\ UNCHANGED <<published, planned, minted, invites, pairings, job, expired, settings, roots>>
      /\ worker[m].pc \in {"upload", "poll"}
  BY DEF Upload, UnchangedMain
<1>2. /\ settings[m] \in Roots /\ settings[m] # None /\ worker[m] \in Workers /\ c \in Codes
      /\ RootOf(m) = roots[settings[m]]
  BY <1>1, WorkerHas
<1>3. CASE Stop(m) /\ UNCHANGED mailbox
  BY <1>1, <1>3, StopStep
<1>4. CASE ~(Stop(m) /\ UNCHANGED mailbox)
  <2>1. /\ AcceptsRequest(c, settings[m])
        /\ mailbox' = [mailbox EXCEPT ![c].request = settings[m]]
        /\ worker' = [worker EXCEPT ![m].pc = p]
    BY <1>4 DEF Upload
  <2>2. p \in {"get", "idle"}
    OBVIOUS
  <2> HIDE DEF p, c
  <2>3. /\ worker' \in [Computers -> Workers] /\ worker'[m].pc = p
        /\ \A k \in Computers \ {m} : worker'[k] = worker[k]
    BY <2>1, <2>2, WorkerChanges
  <2>4. mailbox \in [Codes -> Mailboxes] /\ mailbox[c] \in Mailboxes
    BY <1>2 DEF PairingInv, Typed
  <2>5. mailbox' = [mailbox EXCEPT ![c] = [mailbox[c] EXCEPT !.request = settings[m]]]
    BY <1>2, <2>1, <2>4
  <2>6. [mailbox[c] EXCEPT !.request = settings[m]] \in Mailboxes
    BY <1>2, <2>4 DEF Mailboxes
  <2>7. mailbox'[c] = [mailbox[c] EXCEPT !.request = settings[m]]
    BY <1>2, <2>4, <2>5
  <2>8. /\ mailbox' \in [Codes -> Mailboxes] /\ \A k \in Codes : k # c => mailbox'[k] = mailbox[k]
        /\ mailbox'[c].there = mailbox[c].there /\ mailbox'[c].request = settings[m]
        /\ mailbox'[c].response = mailbox[c].response
    BY <2>4, <2>5, <2>6, <2>7 DEF Mailboxes
  <2>9. Open(c) /\ mailbox'[c].there /\ mailbox[c].request \in {None, settings[m]}
    BY <2>1, <2>8 DEF AcceptsRequest, Open
  <2>10. mailbox[c].response # 0 => mailbox[c].response = invites[c].bundle
    BY <1>2 DEF PairingInv, MailSound
  <2>11. RequestsKept /\ MailSound' /\ WithinLimits'
    BY <1>1, <2>8, <2>9, <2>10, MailboxMoves DEF PairingInv
  <2>12. InvitesSame /\ InvitesKept
    BY <1>1, UnchangedKept
  <2>13. Typed'
    BY <1>1, <2>3, <2>8 DEF PairingInv, Typed
  <2>14. JobSound'
    BY <1>1, <2>11, <2>12, JobFrame DEF PairingInv
  <2>15. WorkersSound'
    <3>1. ASSUME NEW k \in Computers, k # m
          PROVE  WorkerSound(k)'
      <4>1. WorkerSound(k) /\ worker'[k] = worker[k] /\ settings' = settings /\ roots' = roots /\ expired' = expired
        BY <1>1, <2>3, <3>1 DEF PairingInv, WorkersSound
      <4> QED BY <4>1, <2>11, <2>12, <1>1, NoneIsNothing DEF WorkerSound, RootOf, RequestsKept, PairingInv, Typed
    <3>2. WorkerSound(m)'
      <4>1. RootOf(m)' = RootOf(m) /\ settings'[m] = settings[m] /\ roots'[settings[m]] = roots[settings[m]]
        BY <1>1 DEF RootOf
      <4> QED BY <1>2, <2>2, <2>3, <2>8, <4>1 DEF WorkerSound, c
    <3> QED BY <3>1, <3>2 DEF WorkersSound
  <2> QED BY <1>1, <2>11, <2>12, <2>13, <2>14, <2>15, ScopeFrame, IdentifiedFrame, BundlesFrame,
             RootsFrame DEF PairingInv
<1> QED BY <1>3, <1>4

\* The answer that a device reads at the relay is the stored one, and it is
\* the device that asked first.
LEMMA GetStep ==
  ASSUME PairingInv, NEW m \in Computers, Get(m)
  PROVE  PairingInv'
<1> DEFINE c == RootOf(m).code
           v == mailbox[c].response
<1>1. /\ UNCHANGED <<published, planned, minted, invites, pairings, job, mailbox, expired, settings, roots>>
      /\ worker[m].pc = "get"
  BY DEF Get, UnchangedMain
<1>2. /\ settings[m] \in Roots /\ settings[m] # None /\ worker[m] \in Workers /\ c \in Codes
      /\ RootOf(m) = roots[settings[m]] /\ WorkerSound(m)
  BY <1>1, WorkerHas
<1>3. CASE Stop(m)
  BY <1>1, <1>3, StopStep
<1>4. CASE ~Stop(m)
  <2>1. /\ Open(c) /\ v # 0
        /\ worker' = [worker EXCEPT ![m] = [pc |-> "install", answer |-> v]]
    BY <1>4 DEF Get
  <2>2. c \notin expired /\ mailbox[c].request = settings[m]
    BY <1>1, <1>2, <2>1 DEF Open, WorkerSound
  <2>3. v = invites[c].bundle /\ invites[c].request # None
    BY <1>2, <2>1 DEF PairingInv, MailSound, Identified
  <2>4. invites[c].request = settings[m]
    BY <1>2, <2>2, <2>3 DEF PairingInv, MailSound
  <2>5. v \in 0..MaxVersion
    BY <1>2 DEF PairingInv, Typed, Mailboxes
  <2> HIDE DEF v
  <2>6. [pc |-> "install", answer |-> v] \in Workers
    BY <2>5 DEF Workers
  <2>7. worker'[m].pc = "install" /\ worker'[m].answer = v
    BY <2>1 DEF PairingInv, Typed
  <2>8. RootOf(m)' = RootOf(m) /\ settings'[m] = settings[m] /\ roots'[settings[m]] = RootOf(m)
    BY <1>1, <1>2 DEF RootOf
  <2>9. WorkerSound(m)'
    BY <1>1, <1>2, <2>1, <2>3, <2>4, <2>7, <2>8 DEF WorkerSound
  <2> QED BY <1>1, <2>1, <2>6, <2>9, WorkerMoves
<1> QED BY <1>3, <1>4

\* A root of a computer at work is written, but not its code.
LEMMA RootMoves ==
  ASSUME PairingInv, NEW m \in Computers, worker[m].pc # "idle", NEW q \in RootRecords,
         roots' = [roots EXCEPT ![settings[m]] = q], q.code = RootOf(m).code,
         q.generation = RootOf(m).generation \/ /\ invites[q.code].request = settings[m]
                                                /\ invites[q.code].bundle = q.generation,
         NEW w \in Workers, worker' = [worker EXCEPT ![m] = w],
         w.pc \in {"apply", "activate"} => /\ worker[m].pc \in {"install", "apply", "activate"}
                                           /\ w.answer = worker[m].answer,
         w.pc \in {"idle", "apply", "activate"},
         UNCHANGED <<published, planned, minted, invites, pairings, job, mailbox, expired, settings>>
  PROVE  PairingInv'
<1>1. /\ settings[m] \in Roots /\ settings[m] # None /\ RootOf(m).code \in Codes
      /\ RootOf(m) = roots[settings[m]] /\ WorkerSound(m)
  BY WorkerHas
<1>2. /\ roots' \in [Roots -> RootRecords] /\ roots'[settings[m]] = q
      /\ \A r \in Roots : r # settings[m] => roots'[r] = roots[r]
  BY <1>1 DEF PairingInv, Typed
<1>3. /\ worker' \in [Computers -> Workers] /\ worker'[m] = w
      /\ \A k \in Computers \ {m} : worker'[k] = worker[k]
  BY DEF PairingInv, Typed
<1>4. settings' \in [Computers -> Roots \union {None}] /\ settings'[m] = settings[m]
  BY DEF PairingInv, Typed
<1>5. \A r \in Roots : roots'[r].code = roots[r].code
  BY <1>1, <1>2
<1>6. RootsSound'
  <2> SUFFICES ASSUME NEW r \in Roots, roots'[r].generation # 0
               PROVE  /\ roots'[r].code \in Codes /\ invites[roots'[r].code].request = r
                      /\ invites[roots'[r].code].bundle = roots'[r].generation
    BY DEF RootsSound
  <2>1. CASE r = settings[m]
    BY <1>1, <1>2, <2>1 DEF PairingInv, RootsSound
  <2>2. CASE r # settings[m]
    BY <1>2, <2>2 DEF PairingInv, RootsSound
  <2> QED BY <2>1, <2>2
<1>7. RootOf(m)' = q
  BY <1>2, <1>4 DEF RootOf
<1>8. WorkerSound(m)'
  BY <1>1, <1>2, <1>3, <1>4, <1>7 DEF WorkerSound
<1> QED BY <1>2, <1>3, <1>4, <1>5, <1>6, <1>8, DeviceMoves

LEMMA InstallStep ==
  ASSUME PairingInv, NEW m \in Computers, Install(m)
  PROVE  PairingInv'
<1> DEFINE r == settings[m]
           v == worker[m].answer
<1>1. /\ UNCHANGED <<published, planned, minted, invites, pairings, job, mailbox, expired, settings>>
      /\ worker[m].pc = "install"
  BY DEF Install, UnchangedMain
<1>2. /\ r \in Roots /\ r # None /\ worker[m] \in Workers /\ roots[r] \in RootRecords
      /\ RootOf(m) = roots[r] /\ RootOf(m).code \in Codes /\ WorkerSound(m)
  BY <1>1, WorkerHas
<1>3. v # 0 /\ v = invites[RootOf(m).code].bundle /\ invites[RootOf(m).code].request = r /\ v \in 0..MaxVersion
  BY <1>1, <1>2 DEF WorkerSound, Workers
<1>4. CASE worker' = [worker EXCEPT ![m].pc = "activate"] /\ UNCHANGED roots
  <2>1. /\ [worker[m] EXCEPT !.pc = "activate"] \in Workers
        /\ worker' = [worker EXCEPT ![m] = [worker[m] EXCEPT !.pc = "activate"]]
        /\ worker'[m].pc = "activate" /\ worker'[m].answer = v
    BY <1>4, WorkerChanges
  <2>2. RootOf(m)' = RootOf(m) /\ settings'[m] = r
    BY <1>1, <1>4 DEF RootOf
  <2>3. WorkerSound(m)'
    BY <1>1, <1>2, <1>3, <1>4, <2>1, <2>2 DEF WorkerSound
  <2> QED BY <1>1, <1>4, <2>1, <2>3, WorkerMoves
<1>5. CASE /\ roots' = [roots EXCEPT ![r].generation = v]
           /\ worker' = [worker EXCEPT ![m].pc = "apply"]
  <2> DEFINE q == [roots[r] EXCEPT !.generation = v]
             w == [worker[m] EXCEPT !.pc = "apply"]
  <2>1. w \in Workers /\ worker' = [worker EXCEPT ![m] = w] /\ w.pc = "apply" /\ w.answer = v
    <3>1. w \in Workers /\ worker' = [worker EXCEPT ![m] = w]
      BY <1>5, WorkerChanges
    <3>2. w.pc = "apply" /\ w.answer = v
      BY <1>2 DEF Workers
    <3> QED BY <3>1, <3>2
  <2>2. roots' = [roots EXCEPT ![r] = q]
    BY <1>5, <1>2 DEF PairingInv, Typed
  <2>3. q \in RootRecords /\ q.code = RootOf(m).code /\ q.generation = v
    BY <1>2, <1>3 DEF RootRecords
  <2> HIDE DEF q, w
  <2> QED BY <1>1, <1>3, <2>1, <2>2, <2>3, RootMoves
<1>6. CASE Stop(m) /\ UNCHANGED roots
  BY <1>1, <1>6, StopStep
<1> QED BY <1>4, <1>5, <1>6 DEF Install

LEMMA ApplyStep ==
  ASSUME PairingInv, NEW m \in Computers, Apply(m)
  PROVE  PairingInv'
<1> DEFINE r == settings[m]
           v == worker[m].answer
           q == [roots[r] EXCEPT !.applied = v]
           w == [worker[m] EXCEPT !.pc = "activate"]
<1>1. /\ UNCHANGED <<published, planned, minted, invites, pairings, job, mailbox, expired, settings>>
      /\ worker[m].pc = "apply" /\ roots' = [roots EXCEPT ![r].applied = v]
      /\ worker' = [worker EXCEPT ![m].pc = "activate"]
  BY DEF Apply, UnchangedMain
<1>2. /\ r \in Roots /\ worker[m] \in Workers /\ roots[r] \in RootRecords /\ RootOf(m) = roots[r]
  BY <1>1, WorkerHas
<1>3. w \in Workers /\ worker' = [worker EXCEPT ![m] = w]
  BY <1>1, WorkerChanges
<1>4. w.pc = "activate" /\ w.answer = v
  BY <1>2 DEF Workers
<1>5. roots' = [roots EXCEPT ![r] = q]
  BY <1>1, <1>2 DEF PairingInv, Typed
<1>6. q \in RootRecords /\ q.code = RootOf(m).code /\ q.generation = RootOf(m).generation
  <2>1. v \in 0..MaxVersion
    BY <1>2 DEF Workers
  <2> QED BY <1>2, <2>1 DEF RootRecords
<1> HIDE DEF q, w
<1> QED BY <1>1, <1>3, <1>4, <1>5, <1>6, RootMoves

LEMMA ActivateStep ==
  ASSUME PairingInv, NEW m \in Computers, Activate(m)
  PROVE  PairingInv'
<1> DEFINE r == settings[m]
           q == [roots[r] EXCEPT !.status = "active"]
<1>1. /\ UNCHANGED <<published, planned, minted, invites, pairings, job, mailbox, expired, settings>>
      /\ worker[m].pc = "activate" /\ roots' = [roots EXCEPT ![r].status = "active"]
      /\ worker' = [worker EXCEPT ![m] = NoWork]
  BY DEF Activate, UnchangedMain, Stop
<1>2. /\ r \in Roots /\ worker[m] \in Workers /\ roots[r] \in RootRecords /\ RootOf(m) = roots[r]
  BY <1>1, WorkerHas
<1>3. NoWork \in Workers /\ NoWork.pc = "idle"
  BY EmptyRecords DEF NoWork
<1>4. roots' = [roots EXCEPT ![r] = q]
  BY <1>1, <1>2 DEF PairingInv, Typed
<1>5. q \in RootRecords /\ q.code = RootOf(m).code /\ q.generation = RootOf(m).generation
  BY <1>2 DEF RootRecords
<1> HIDE DEF q
<1> QED BY <1>1, <1>3, <1>4, <1>5, RootMoves

LEMMA CancelPendingStep ==
  ASSUME PairingInv, NEW m \in Computers, CancelPending(m)
  PROVE  PairingInv'
<1>1. /\ UNCHANGED <<published, planned, minted, invites, pairings, job, mailbox, expired, roots, worker>>
      /\ worker[m] = NoWork /\ settings' = [settings EXCEPT ![m] = None]
  BY DEF CancelPending, UnchangedMain
<1>2. /\ worker' \in [Computers -> Workers] /\ settings' \in [Computers -> Roots \union {None}]
      /\ roots' \in [Roots -> RootRecords] /\ settings'[m] = None
      /\ \A k \in Computers \ {m} : worker'[k] = worker[k] /\ settings'[k] = settings[k]
  BY <1>1 DEF PairingInv, Typed
<1>3. RootsSound'
  BY <1>1, UnchangedKept, RootsFrame DEF PairingInv
<1>4. WorkerSound(m)'
  BY <1>1, <1>2 DEF WorkerSound, NoWork
<1> QED BY <1>1, <1>2, <1>3, <1>4, DeviceMoves

LEMMA ExpireStep ==
  ASSUME PairingInv, NEW c \in Codes, Expire(c)
  PROVE  PairingInv'
<1>1. /\ UNCHANGED <<published, planned, minted, invites, pairings, job, mailbox, settings, roots, worker>>
      /\ expired' = expired \union {c}
  BY DEF Expire, UnchangedMain, UnchangedDevices
<1>2. InvitesSame /\ InvitesKept
  BY <1>1, UnchangedKept
<1>3. Typed'
  BY <1>1 DEF PairingInv, Typed
<1>4. RequestsKept
  BY <1>1 DEF RequestsKept
<1>5. WithinLimits'
  <2>1. OpenCodes' \subseteq OpenCodes /\ LiveCodes' \subseteq LiveCodes
    BY <1>1 DEF OpenCodes, LiveCodes, Open
  <2> HIDE DEF OpenCodes, LiveCodes
  <2>2. /\ Cardinality(OpenCodes') <= Cardinality(OpenCodes) /\ Cardinality(OpenCodes') \in Nat
        /\ Cardinality(LiveCodes') <= Cardinality(LiveCodes) /\ Cardinality(LiveCodes') \in Nat
    BY <2>1, FiniteCodes, FS_Subset, FS_CardinalityType
  <2> QED BY <2>2, FiniteCodes, Parameters DEF PairingInv, WithinLimits
<1>6. MailSound'
  BY <1>1, <1>2, MailFrame DEF PairingInv
<1>7. JobSound'
  BY <1>1, <1>2, <1>4, JobFrame DEF PairingInv
<1>8. ScopeTracked' /\ Identified' /\ BundlesHold' /\ RootsSound' /\ WorkersSound'
  BY <1>1, <1>2, <1>4, ScopeFrame, IdentifiedFrame, BundlesFrame, RootsFrame, WorkersFrame DEF PairingInv
<1> QED BY <1>3, <1>5, <1>6, <1>7, <1>8 DEF PairingInv

LEMMA WorkerFailsStep ==
  ASSUME PairingInv, NEW m \in Computers, WorkerFails(m)
  PROVE  PairingInv'
<1>1. /\ UNCHANGED <<published, planned, minted, invites, pairings, job, mailbox, expired, settings, roots>>
      /\ Stop(m)
  BY DEF WorkerFails, UnchangedMain
<1> QED BY <1>1, StopStep

-----------------------------------------------------------------------------
(* The specification *)

LEMMA InitSound ==
  ASSUME Init
  PROVE  PairingInv
<1>1. Typed
  <2>1. published \in Seq(SUBSET Grants) /\ Len(published) = 1
    <3>1. {} \in SUBSET Grants /\ published = <<{}>>
      BY DEF Init
    <3> HIDE DEF Grants
    <3> QED BY <3>1, Singletons
  <2>2. planned \in Seq(SUBSET Grants) /\ Len(planned) = 0
    BY DEF Init
  <2>3. 1 \in 1..MaxVersion /\ 0 \in 0..MaxMints
    BY Parameters
  <2> QED BY <2>1, <2>2, <2>3, EmptyRecords DEF Init, Typed
<1>2. WithinLimits
  <2>1. OpenCodes = {} /\ LiveCodes = {}
    BY DEF Init, OpenCodes, LiveCodes, Open, NoMailbox, NoPairing
  <2> QED BY <2>1, FS_EmptySet, Parameters DEF WithinLimits
<1>3. Identified /\ BundlesHold
  BY Parameters DEF Init, Identified, BundlesHold, NoInvite, None
<1>4. ScopeTracked
  BY DEF Init, ScopeTracked, Tracked
<1>5. MailSound /\ RootsSound
  BY DEF Init, MailSound, RootsSound, NoMailbox, NoInvite, NoPairing, NoRoot
<1>6. JobSound
  BY DEF Init, JobSound, Idle
<1>7. WorkersSound
  BY DEF Init, WorkersSound, WorkerSound, NoWork
<1> QED BY <1>1, <1>2, <1>3, <1>4, <1>5, <1>6, <1>7 DEF PairingInv

LEMMA NextSound ==
  ASSUME PairingInv, Next
  PROVE  PairingInv'
<1>1. CASE \E c \in Codes : Invite(c) \/ RecordPairing(c) \/ UploadInvite(c) \/ StartApprove(c) \/ Expire(c)
  BY <1>1, InviteStep, RecordPairingStep, UploadInviteStep, StartApproveStep, ExpireStep
<1>2. CASE Approving
  BY <1>2, CheckStep, AddStep, WrapStep, SaveStep, RespondStep DEF Approving
<1>3. CASE Publish \/ Prepare \/ StartFlush \/ Flushing \/ Revoke \/ JobFails
  BY <1>3, PublishStep, PrepareStep, StartFlushStep, FlushStep, PostStep, MarkStep, RevokeStep, JobFailsStep
     DEF Flushing
<1>4. CASE \E m \in Computers :
        \/ \E c \in Codes : Join(m, c)
        \/ Rejoin(m) \/ StartPoll(m) \/ Connecting(m) \/ CancelPending(m) \/ WorkerFails(m)
  BY <1>4, JoinStep, RejoinStep, UploadStep, GetStep, InstallStep, ApplyStep, ActivateStep, CancelPendingStep,
     WorkerFailsStep DEF Connecting
<1> QED BY <1>1, <1>2, <1>3, <1>4 DEF Next

LEMMA StutterSound ==
  ASSUME PairingInv, UNCHANGED vars
  PROVE  PairingInv'
<1>1. UNCHANGED <<published, planned, minted, invites, pairings, mailbox, expired, settings, roots, worker, job>>
  BY DEF vars
<1> QED BY <1>1, JobStays, JobOnly

\* Every reachable state of the ceremony satisfies the invariant.
THEOREM PairingInductive == Spec => []PairingInv
<1>1. PairingInv /\ [Next]_vars => PairingInv'
  BY NextSound, StutterSound
<1> QED BY <1>1, InitSound, PTL DEF Spec

LEMMA SoundFollows ==
  ASSUME PairingInv
  PROVE  PairingSound
<1>1. TypeOK
  BY DEF PairingInv, Typed, WithinLimits, OpenCodes, LiveCodes, TypeOK, Invites, Pairings, Mailboxes, RootRecords
<1>2. GrantsTracked
  <2>1. DOMAIN published = 1..Version
    BY LenProperties, Zenon DEF PairingInv, Typed, Version
  <2> QED BY <2>1 DEF PairingInv, ScopeTracked, Tracked, GrantsTracked
<1>3. AnswersMatch
  <2>1. ASSUME NEW c \in Codes, mailbox[c].response # 0
        PROVE  mailbox[c].response = invites[c].bundle /\ mailbox[c].request = invites[c].request
    <3>1. mailbox[c].response = invites[c].bundle /\ mailbox[c] # NoMailbox
      BY <2>1 DEF PairingInv, MailSound, NoMailbox
    <3>2. invites[c].request # None
      BY <2>1, <3>1 DEF PairingInv, Identified
    <3> QED BY <3>1, <3>2 DEF PairingInv, MailSound
  <2> QED BY <2>1 DEF PairingInv, BundlesHold, RootsSound, AnswersMatch
<1> QED BY <1>1, <1>2, <1>3 DEF PairingSound

\* A code is worth one grant and one connection: both sides and the relay
\* stay within their limits, every published grant is the recorded one of an
\* invitation and the only one of its device, and every answer that is
\* stored, sent or installed belongs to the publication that holds the grant
\* of the device that asked first (runtime.approve and finish,
\* pairing_server.put_request and put_response).
THEOREM PairingSoundHolds == Spec => []PairingSound
<1>1. PairingInv => PairingSound
  BY SoundFollows
<1> QED BY <1>1, PairingInductive, PTL

LEMMA KeptStep ==
  ASSUME PairingInv, ReceivedIsKept, [Next]_vars
  PROVE  ReceivedIsKept'
<1>1. CASE UNCHANGED <<settings, roots>>
  BY <1>1 DEF ReceivedIsKept
<1>2. ASSUME NEW m \in Computers, NEW c \in Codes, Join(m, c)
      PROVE  ReceivedIsKept'
  <2>1. PICK r \in Roots : /\ roots' = [roots EXCEPT ![r] = [NoRoot EXCEPT !.code = c, !.status = "pending"]]
                           /\ settings[m] = None /\ settings' = [settings EXCEPT ![m] = r]
    BY <1>2 DEF Join
  <2>2. roots'[r].applied = 0 /\ \A q \in Roots : q # r => roots'[q] = roots[q]
    BY <2>1 DEF PairingInv, Typed, NoRoot
  <2>3. \A k \in Computers : settings[k] # None => settings'[k] = settings[k]
    BY <2>1 DEF PairingInv, Typed
  <2> QED BY <2>2, <2>3, NoneIsNothing DEF ReceivedIsKept
<1>3. ASSUME NEW m \in Computers, Apply(m)
      PROVE  ReceivedIsKept'
  <2>1. /\ settings' = settings /\ settings[m] \in Roots /\ worker[m].pc = "apply"
        /\ roots' = [roots EXCEPT ![settings[m]].applied = worker[m].answer]
    BY <1>3, WorkerHas DEF Apply
  <2>2. \A q \in Roots : q # settings[m] => roots'[q] = roots[q]
    BY <2>1 DEF PairingInv, Typed
  <2> QED BY <2>1, <2>2 DEF ReceivedIsKept
<1>4. ASSUME NEW m \in Computers, CancelPending(m)
      PROVE  ReceivedIsKept'
  <2>1. roots' = roots /\ settings' = [settings EXCEPT ![m] = None] /\ roots[settings[m]].applied = 0
    BY <1>4 DEF CancelPending, Cancellable
  <2>2. \A k \in Computers : k # m => settings'[k] = settings[k]
    BY <2>1 DEF PairingInv, Typed
  <2> QED BY <2>1, <2>2 DEF ReceivedIsKept
<1>5. ASSUME NEW m \in Computers, Install(m) \/ Activate(m)
      PROVE  ReceivedIsKept'
  <2>1. /\ settings' = settings /\ settings[m] \in Roots
        /\ \/ roots' = roots
           \/ roots' = [roots EXCEPT ![settings[m]].generation = worker[m].answer]
           \/ roots' = [roots EXCEPT ![settings[m]].status = "active"]
    BY <1>5, WorkerHas DEF Install, Activate
  <2>2. \A q \in Roots : roots'[q].applied = roots[q].applied
    <3>1. roots \in [Roots -> RootRecords] /\ roots[settings[m]] \in RootRecords
      BY <2>1 DEF PairingInv, Typed
    <3>2. CASE roots' = [roots EXCEPT ![settings[m]].generation = worker[m].answer]
      BY <2>1, <3>1, <3>2 DEF RootRecords
    <3>3. CASE roots' = [roots EXCEPT ![settings[m]].status = "active"]
      BY <2>1, <3>1, <3>3 DEF RootRecords
    <3> QED BY <2>1, <3>2, <3>3
  <2> QED BY <2>1, <2>2 DEF ReceivedIsKept
<1> QED BY <1>1, <1>2, <1>3, <1>4, <1>5
        DEF Next, vars, Invite, RecordPairing, UploadInvite, StartApprove, Expire, Approving, Check, Add, Wrap,
            Save, Respond,
            Publish, Prepare, StartFlush, Flushing, Flush, Post, Mark, Revoke, JobFails, Rejoin, StartPoll,
            Connecting, Upload, Get, WorkerFails, JobStep, UnchangedDevices

\* A connection that has received entries stays the connection of its
\* computer: Apply is what makes it so and CancelPending, which would forget
\* it, looks at exactly that (personal_sync.cancel_pending).
THEOREM ReceivedIsKeptHolds == Spec => []ReceivedIsKept
<1>1. Init => ReceivedIsKept
  BY DEF Init, ReceivedIsKept, NoRoot
<1>2. PairingInv /\ ReceivedIsKept /\ [Next]_vars => ReceivedIsKept'
  BY KeptStep
<1> QED BY <1>1, <1>2, PairingInductive, PTL DEF Spec

-----------------------------------------------------------------------------
(* A revoked device stays out *)

\* An attempt has one code, so a device belongs to one invitation: the
\* mailbox, the invitation and a starting approval name a root of that code.
RequestsOfCode ==
  /\ \A c \in Codes : /\ mailbox[c].request # None => roots[mailbox[c].request].code = c
                      /\ invites[c].request # None => roots[invites[c].request].code = c
  /\ job.pc = "check" => roots[job.root].code = job.code

\* A connection with an answer is the one of the invitation's device.
AnswersOfDevice ==
  \A c \in Codes : pairings[c].response # 0 => pairings[c].device = invites[c].request

\* What a device holds of an answer has passed through the mailbox, which
\* keeps it until it expires.
Arrived(c) == mailbox[c].response # 0 \/ c \in expired
Holding(m) == worker[m].pc \in {"install", "apply", "activate"}
AnswersArrived ==
  /\ \A r \in Roots : roots[r].generation # 0 => Arrived(roots[r].code)
  /\ \A m \in Computers : Holding(m) => Arrived(RootOf(m).code)

LinkInv == 0 \notin revoked /\ RequestsOfCode /\ AnswersOfDevice /\ AnswersArrived

\* The code of a revoked grant, nothing of it being on its way: no step
\* opens it again.
Shut(c) ==
  /\ invites[c].grant # 0 /\ invites[c].grant \in revoked
  /\ mailbox[c].response = 0 /\ c \notin job.todo
  /\ \A m \in Computers : Holding(m) => RootOf(m).code # c
  /\ \A r \in Roots : roots[r].code = c => roots[r].generation = 0

\* What an invitation may take from a step: the main computer's check gives
\* it the device that it is checking.
InvitesSourced ==
  \A c \in Codes : \/ invites'[c].request = invites[c].request
                   \/ job.pc = "check" /\ job.code = c /\ invites'[c].request = job.root

LEMMA InvitesStep ==
  ASSUME PairingInv, [Next]_vars
  PROVE  InvitesKept /\ InvitesSourced
<1>1. CASE UNCHANGED invites
  BY <1>1 DEF InvitesKept, InvitesSourced
<1>2. ASSUME NEW c \in Codes, Invite(c)
      PROVE  InvitesKept /\ InvitesSourced
  <2>1. invites' = [invites EXCEPT ![c].known = TRUE] /\ invites \in [Codes -> Invites]
    BY <1>2 DEF Invite, PairingInv, Typed
  <2> QED BY <2>1 DEF InvitesKept, InvitesSourced, Invites
<1>3. CASE Check
  <2> DEFINE c == job.code
  <2>1. CASE UNCHANGED invites
    BY <1>1, <2>1
  <2>2. CASE invites' # invites
    <3>1. job.pc = "check" /\ invites[c].request \in {None, job.root} /\ invites[c].bundle = 0 /\ invites[c].grant = 0
      BY <1>3, <2>2 DEF Check
    <3>2. invites' = [invites EXCEPT ![c] = [invites[c] EXCEPT !.request = job.root, !.grant = minted + 1]]
      BY <1>3, <2>2, <3>1 DEF Check
    <3>3. c \in Codes /\ invites \in [Codes -> Invites] /\ invites[c] \in Invites
      BY <3>1 DEF PairingInv, JobSound, Typed
    <3>4. invites'[c].request = job.root /\ \A k \in Codes : k # c => invites'[k] = invites[k]
      BY <3>2, <3>3 DEF Invites
    <3>5. invites[c].request = None
      BY <3>1, <3>3 DEF PairingInv, Identified
    <3> HIDE DEF c
    <3> QED BY <3>1, <3>4, <3>5 DEF InvitesKept, InvitesSourced, c
  <2> QED BY <2>1, <2>2
<1>4. CASE Save
  <2> DEFINE c == job.code
  <2>1. CASE UNCHANGED invites
    BY <1>1, <2>1
  <2>2. CASE invites' # invites
    <3>1. job.pc = "save" /\ invites' = [invites EXCEPT ![c].bundle = job.answer]
      BY <1>4, <2>2 DEF Save
    <3>2. c \in Codes /\ invites[c].bundle = 0 /\ invites \in [Codes -> Invites] /\ invites[c] \in Invites
      BY <3>1 DEF PairingInv, JobSound, Typed
    <3> HIDE DEF c
    <3>3. /\ \A k \in Codes : k # c => invites'[k] = invites[k]
          /\ invites'[c].request = invites[c].request /\ invites'[c].grant = invites[c].grant
      BY <3>1, <3>2 DEF Invites
    <3> QED BY <3>2, <3>3 DEF InvitesKept, InvitesSourced
  <2> QED BY <2>1, <2>2
<1> QED BY <1>1, <1>2, <1>3, <1>4
        DEF Next, vars, RecordPairing, UploadInvite, StartApprove, Expire, Approving, Add, Wrap, Respond,
            Publish, Prepare,
            StartFlush, Flushing, Flush, Post, Mark, Revoke, JobFails, Join, Rejoin, StartPoll, Connecting, Upload,
            Get, Install, Apply, Activate, CancelPending, WorkerFails, UnchangedMain

\* An answer in the mailbox stays until it expires, and the main computer
\* brings no request.
AnswersStay == \A c \in Codes : mailbox[c].response # 0 => mailbox'[c].response # 0 \/ c \in expired
NoNewRequests == \A c \in Codes : mailbox'[c].request \in {None, mailbox[c].request}

LEMMA CreatedLinks ==
  ASSUME PairingInv, NEW c \in Codes, mailbox' = Created(c)
  PROVE  /\ AnswersStay /\ NoNewRequests
         /\ \A k \in Codes : mailbox[k].response = 0 => mailbox'[k].response = 0
<1>1. \A k \in Codes : ~mailbox[k].there => mailbox[k].response = 0 /\ mailbox[k].request = None
  BY DEF PairingInv, MailSound, NoMailbox
<1>2. \A k \in Codes : \/ mailbox'[k] = mailbox[k]
                       \/ /\ mailbox'[k].request = None /\ mailbox'[k].response = 0
                          /\ k \in expired \/ ~mailbox[k].there
  BY DEF Created, NoMailbox
<1> QED BY <1>1, <1>2 DEF AnswersStay, NoNewRequests

\* Only the answers chosen for it are posted.
LEMMA PostLinks ==
  ASSUME PairingInv, Post
  PROVE  /\ AnswersStay /\ NoNewRequests /\ job'.pc # "check" /\ job'.todo \subseteq job.todo
         /\ \A k \in Codes : k \notin job.todo => mailbox'[k] = mailbox[k]
<1>1. job \in Jobs /\ mailbox \in [Codes -> Mailboxes]
  BY DEF PairingInv, Typed
<1>2. CASE Fail /\ UNCHANGED mailbox
  BY <1>2 DEF Fail, Idle, AnswersStay, NoNewRequests
<1>3. ASSUME NEW c \in job.todo, AcceptsResponse(c, pairings[c].response),
             mailbox' = [mailbox EXCEPT ![c].response = pairings[c].response],
             job' = [job EXCEPT !.pc = "mark", !.code = c, !.todo = @ \ {c}]
      PROVE  /\ AnswersStay /\ NoNewRequests /\ job'.pc # "check" /\ job'.todo \subseteq job.todo
             /\ \A k \in Codes : k \notin job.todo => mailbox'[k] = mailbox[k]
  <2>1. c \in Codes /\ mailbox[c] \in Mailboxes
    BY <1>1 DEF Jobs
  <2>2. mailbox'[c].request = mailbox[c].request /\ mailbox'[c].response = pairings[c].response
    BY <1>1, <1>3, <2>1 DEF Mailboxes
  <2>3. \A k \in Codes : k # c => mailbox'[k] = mailbox[k]
    BY <1>1, <1>3
  <2>4. job'.pc = "mark" /\ job'.todo = job.todo \ {c}
    BY <1>1, <1>3 DEF Jobs
  <2>5. mailbox[c].response # 0 => mailbox'[c].response = mailbox[c].response
    BY <1>3, <2>2 DEF AcceptsResponse
  <2> QED BY <2>2, <2>3, <2>4, <2>5 DEF AnswersStay, NoNewRequests
<1> QED BY <1>2, <1>3 DEF Post

\* The links hold after a step of the main computer, the relay or the clock
\* that starts no check.
LEMMA MainLinks ==
  ASSUME PairingInv, LinkInv, [Next]_vars, UNCHANGED <<settings, roots, worker>>, expired \subseteq expired',
         0 \notin revoked', AnswersStay, NoNewRequests,
         job'.pc = "check" => job' = job \/ roots[job'.root].code = job'.code,
         \A c \in Codes : pairings'[c].response # 0 =>
           pairings'[c].device = IF pairings[c].response # 0 THEN pairings[c].device ELSE invites[c].request,
         \A c \in Codes : pairings'[c].response # 0 => invites[c].bundle # 0
  PROVE  LinkInv'
<1>1. InvitesKept /\ InvitesSourced
  BY InvitesStep
<1>2. RequestsOfCode'
  <2>1. \A c \in Codes : mailbox'[c].request # None => roots'[mailbox'[c].request].code = c
    BY DEF NoNewRequests, LinkInv, RequestsOfCode
  <2>2. \A c \in Codes : invites'[c].request # None => roots'[invites'[c].request].code = c
    BY <1>1 DEF InvitesSourced, LinkInv, RequestsOfCode
  <2>3. job'.pc = "check" => roots'[job'.root].code = job'.code
    BY DEF LinkInv, RequestsOfCode
  <2> QED BY <2>1, <2>2, <2>3 DEF RequestsOfCode
<1>3. AnswersOfDevice'
  <2> SUFFICES ASSUME NEW c \in Codes, pairings'[c].response # 0
               PROVE  pairings'[c].device = invites'[c].request
    BY DEF AnswersOfDevice
  <2>1. invites[c].bundle # 0 /\ invites[c].request # None
    BY DEF PairingInv, Identified
  <2>2. invites'[c].request = invites[c].request
    BY <1>1, <2>1 DEF InvitesKept
  <2> QED BY <2>2 DEF LinkInv, AnswersOfDevice
<1>4. AnswersArrived'
  <2>1. ASSUME NEW r \in Roots, roots'[r].generation # 0
        PROVE  Arrived(roots[r].code)'
    <3>1. roots[r].code \in Codes
      BY <2>1 DEF PairingInv, RootsSound
    <3> QED BY <2>1, <3>1 DEF LinkInv, AnswersArrived, Arrived, AnswersStay
  <2>2. ASSUME NEW m \in Computers, Holding(m)'
        PROVE  Arrived(RootOf(m).code)'
    <3>1. Holding(m) /\ RootOf(m).code \in Codes /\ UNCHANGED RootOf(m)
      BY <2>2, WorkerHas DEF Holding, RootOf
    <3> QED BY <3>1 DEF LinkInv, AnswersArrived, Arrived, AnswersStay
  <2> QED BY <2>1, <2>2 DEF AnswersArrived
<1> QED BY <1>2, <1>3, <1>4 DEF LinkInv

\* What the main computer's steps do to what the links are about.
LEMMA MainLinksStep ==
  ASSUME PairingInv, LinkInv, [Next]_vars, UNCHANGED <<settings, roots, worker>>, expired \subseteq expired',
         UNCHANGED mailbox, job' = job \/ job'.pc # "check", UNCHANGED pairings, 0 \notin revoked'
  PROVE  LinkInv'
<1>1. AnswersStay /\ NoNewRequests
  BY DEF AnswersStay, NoNewRequests
<1>2. \A c \in Codes : pairings[c].response # 0 => invites[c].bundle # 0
  BY DEF PairingInv, MailSound
<1> QED BY <1>1, <1>2, MainLinks

\* The steps of the main computer that leave the relay alone.
Quiet ==
  \/ \E c \in Codes : Invite(c) \/ RecordPairing(c) \/ Expire(c)
  \/ Approving \/ Publish \/ Prepare \/ StartFlush \/ Flush \/ Mark \/ Revoke \/ JobFails

LEMMA QuietStep ==
  ASSUME PairingInv, Quiet
  PROVE  /\ UNCHANGED <<settings, roots, worker, mailbox>> /\ expired \subseteq expired'
         /\ job' = job \/ (job'.pc # "check" /\ (Flush \/ job'.todo \subseteq job.todo))
<1>1. job \in Jobs
  BY DEF PairingInv, Typed
<1>2. ASSUME NEW c \in Codes, Invite(c) \/ RecordPairing(c) \/ Expire(c)
      PROVE  UNCHANGED <<settings, roots, worker, mailbox, job>> /\ expired \subseteq expired'
  BY <1>2 DEF Invite, RecordPairing, Expire, UnchangedScope, UnchangedDevices, UnchangedMain
<1>3. CASE Publish \/ Prepare \/ Revoke
  BY <1>3 DEF Publish, Prepare, Revoke, UnchangedDevices
<1>4. CASE Approving \/ StartFlush \/ Flush \/ Mark \/ JobFails
  <2>1. UNCHANGED <<settings, roots, worker, mailbox, expired>>
    BY <1>4 DEF Approving, Check, Add, Wrap, Save, Respond, StartFlush, Flush, Mark, JobFails, JobStep,
                UnchangedDevices
  <2> DEFINE Calm == job'.pc # "check" /\ (Flush \/ job'.todo \subseteq job.todo)
  <2> SUFFICES Calm
    BY <2>1
  <2>2. CASE Fail
    BY <2>2 DEF Fail, Idle
  <2>3. ASSUME NEW p \in {"add", "wrap", "save", "respond"}, NEW a,
               job' = [job EXCEPT !.pc = p, !.answer = a] \/ job' = [job EXCEPT !.pc = p]
        PROVE  Calm
    BY <1>1, <2>3 DEF Jobs
  <2>4. ASSUME job' = [Idle EXCEPT !.pc = "flush"]
        PROVE  Calm
    BY <2>4 DEF Idle
  <2>5. CASE Check
    <3>1. Fail \/ \E p \in {"respond", "add"} : \E a : job' = [job EXCEPT !.pc = p, !.answer = a]
      BY <2>5, Zenon DEF Check
    <3> QED BY <3>1, <2>2, <2>3
  <2>6. CASE Add \/ Wrap \/ Save
    <3>1. \/ Fail
          \/ \E p \in {"wrap", "save"} : \E a : job' = [job EXCEPT !.pc = p, !.answer = a]
          \/ job' = [job EXCEPT !.pc = "respond"]
      BY <2>6, Zenon DEF Add, Wrap, Save
    <3> QED BY <3>1, <2>2, <2>3
  <2>7. CASE Respond \/ StartFlush
    BY <2>2, <2>4, <2>7 DEF Respond, StartFlush
  <2>8. CASE Mark
    <3>1. Fail \/ job' = [job EXCEPT !.pc = "post", !.code = None]
      BY <2>8 DEF Mark
    <3> QED BY <1>1, <3>1, <2>2 DEF Jobs
  <2>9. CASE Flush
    BY <2>9 DEF Flush, Idle
  <2>10. CASE JobFails
    BY <2>2, <2>10 DEF JobFails
  <2> QED BY <1>4, <2>1, <2>5, <2>6, <2>7, <2>8, <2>9, <2>10 DEF Approving
<1> QED BY <1>2, <1>3, <1>4 DEF Quiet

LEMMA RelayLinks ==
  ASSUME PairingInv, LinkInv, [Next]_vars, Post \/ \E c \in Codes : UploadInvite(c) \/ StartApprove(c)
  PROVE  LinkInv'
<1>2. AnswersStay /\ NoNewRequests
  BY CreatedLinks, PostLinks DEF UploadInvite, StartApprove
<1>3. \A k \in Codes : pairings[k].response # 0 => invites[k].bundle # 0
  BY DEF PairingInv, MailSound
<1>4. ASSUME NEW c \in Codes, UploadInvite(c)
      PROVE  LinkInv'
  BY <1>2, <1>3, <1>4, MainLinks DEF UploadInvite, UnchangedScope, UnchangedDevices, LinkInv
<1>5. CASE Post
  <2>1. UNCHANGED <<settings, roots, worker, expired, pairings, invites, revoked>>
    BY <1>5 DEF Post, JobStep, UnchangedDevices
  <2> QED BY <1>2, <1>3, <1>5, <2>1, PostLinks, MainLinks DEF LinkInv
<1>6. ASSUME NEW c \in Codes, StartApprove(c)
      PROVE  LinkInv'
  <2>1. /\ UNCHANGED <<settings, roots, worker, expired, pairings, invites, revoked>>
        /\ job' = [Idle EXCEPT !.pc = "check", !.code = c, !.root = mailbox'[c].request]
        /\ mailbox'[c].request # None
    BY <1>6 DEF StartApprove, UnchangedScope, UnchangedDevices
  <2>2. job'.code = c /\ job'.root = mailbox'[c].request
    BY <2>1 DEF Idle
  <2>3. roots[job'.root].code = c
    BY <1>2, <2>1, <2>2 DEF NoNewRequests, LinkInv, RequestsOfCode
  <2> QED BY <1>2, <1>3, <2>1, <2>2, <2>3, MainLinks DEF LinkInv
<1> QED BY <1>4, <1>5, <1>6

LEMMA QuietLinks ==
  ASSUME PairingInv, LinkInv, [Next]_vars, Quiet
  PROVE  LinkInv'
<1>1. /\ UNCHANGED <<settings, roots, worker, mailbox>> /\ expired \subseteq expired'
      /\ job' = job \/ job'.pc # "check"
  BY QuietStep
<1>2. AnswersStay /\ NoNewRequests
  BY <1>1 DEF AnswersStay, NoNewRequests
<1>3. 0 \notin revoked'
  <2>1. CASE Revoke
    <3>1. DOMAIN published = 1..Len(published) /\ Len(published) \in DOMAIN published
      BY LenProperties, Parameters DEF PairingInv, Typed
    <3>2. Current \subseteq Grants
      BY <3>1, ScopeTypes DEF PairingInv, Current
    <3>3. \A g \in Current : g.id # 0
      BY <3>2 DEF Grants
    <3> QED BY <2>1, <3>3 DEF Revoke, LinkInv
  <2>2. CASE ~Revoke
    BY <2>2 DEF Quiet, Invite, RecordPairing, Expire, Approving, Check, Add, Wrap, Save, Respond, Publish,
                Prepare, StartFlush,
                Flush, Mark, JobFails, JobStep, UnchangedMain, UnchangedScope, LinkInv
  <2> QED BY <2>1, <2>2
<1>4. \A c \in Codes : pairings[c].response # 0 => invites[c].bundle # 0
  BY DEF PairingInv, MailSound
<1>5. pairings \in [Codes -> Pairings] /\ job \in Jobs
  BY DEF PairingInv, Typed
<1>6. ASSUME NEW k \in Codes, pairings'[k].response # 0
      PROVE  /\ invites[k].bundle # 0
             /\ pairings'[k].device = IF pairings[k].response # 0 THEN pairings[k].device ELSE invites[k].request
  <2>1. CASE UNCHANGED pairings
    BY <1>4, <1>6, <2>1
  <2>2. ASSUME NEW c \in Codes, RecordPairing(c)
        PROVE  pairings'[k] = pairings[k]
    BY <1>6, <2>2 DEF RecordPairing, NoPairing
  <2>3. CASE Mark
    <3> DEFINE c == job.code
    <3>1. CASE pairings' # pairings
      <4>1. pairings' = [pairings EXCEPT ![c].sent = TRUE]
        BY <2>3, <3>1 DEF Mark
      <4> HIDE DEF c
      <4>2. pairings'[k].response = pairings[k].response /\ pairings'[k].device = pairings[k].device
        BY <1>5, <4>1 DEF Pairings
      <4> QED BY <1>4, <1>6, <4>2
    <3> QED BY <2>1, <3>1
  <2>4. CASE Respond
    <3> DEFINE c == job.code
               answered == IF pairings[c].response = 0 THEN job.answer ELSE pairings[c].response
    <3>1. CASE pairings' # pairings
      <4>1. job.pc = "respond" /\ pairings' = [pairings EXCEPT ![c].response = answered, ![c].device = job.root]
        BY <2>4, <3>1 DEF Respond
      <4>2. c \in Codes /\ invites[c].request = job.root /\ invites[c].bundle = job.answer /\ job.answer # 0
        BY <4>1 DEF PairingInv, JobSound
      <4> HIDE DEF c, answered
      <4>3. pairings'[c].device = job.root /\ \A d \in Codes : d # c => pairings'[d] = pairings[d]
        BY <1>5, <4>1, <4>2 DEF Pairings
      <4>4. pairings[c].response # 0 => pairings[c].device = invites[c].request
        BY <4>2 DEF LinkInv, AnswersOfDevice
      <4> QED BY <1>4, <1>6, <4>2, <4>3, <4>4
    <3> QED BY <2>1, <3>1
  <2> QED BY <1>4, <1>6, <2>1, <2>2, <2>3, <2>4
          DEF Quiet, Invite, Expire, Approving, Check, Add, Wrap, Save, Publish, Prepare, StartFlush, Flush,
              Revoke, JobFails, UnchangedMain
<1>7. job'.pc = "check" => job' = job \/ roots[job'.root].code = job'.code
  BY <1>1
<1> QED BY <1>1, <1>2, <1>3, <1>6, <1>7, MainLinks

\* What a secondary computer may do: it brings its own request, it writes
\* down only an answer that it holds, and it holds only one that it has held
\* or found in the mailbox of its code.
DeviceMove(m) ==
  /\ UNCHANGED <<job, invites, pairings, revoked, expired>>
  /\ \A c \in Codes : /\ mailbox'[c].response = mailbox[c].response
                      /\ \/ mailbox'[c].request = mailbox[c].request
                         \/ roots[mailbox'[c].request].code = c /\ mailbox'[c].request \in Roots
  /\ \A r \in Roots : /\ roots[r].code # None => roots'[r].code = roots[r].code
                      /\ \/ roots'[r].generation \in {0, roots[r].generation}
                         \/ Holding(m) /\ r = settings[m]
  /\ \A k \in Computers : Holding(k)' =>
       /\ settings'[k] = settings[k] /\ settings[k] \in Roots /\ RootOf(k).code \in Codes
       /\ Holding(k) \/ mailbox[RootOf(k).code].response # 0

LEMMA HoldingHas ==
  ASSUME PairingInv, NEW m \in Computers, worker[m].pc # "idle"
  PROVE  settings[m] \in Roots /\ RootOf(m).code \in Codes
BY WorkerHas

LEMMA JoinMove ==
  ASSUME PairingInv, NEW m \in Computers, NEW c \in Codes, Join(m, c)
  PROVE  DeviceMove(m)
<1>1. /\ UNCHANGED <<job, invites, pairings, revoked, expired, mailbox>>
      /\ worker[m] = NoWork /\ worker' = [worker EXCEPT ![m].pc = "upload"]
  BY DEF Join, UnchangedMain
<1>2. PICK r \in Roots : /\ roots[r] = NoRoot /\ settings' = [settings EXCEPT ![m] = r]
                         /\ roots' = [roots EXCEPT ![r] = [NoRoot EXCEPT !.code = c, !.status = "pending"]]
  BY DEF Join
<1>3. /\ roots'[r].generation = 0 /\ roots[r].code = None
      /\ \A q \in Roots : q # r => roots'[q] = roots[q]
  BY <1>2 DEF PairingInv, Typed, NoRoot
<1>4. ~Holding(m)' /\ \A k \in Computers : k # m => worker'[k] = worker[k] /\ settings'[k] = settings[k]
  <2>1. worker \in [Computers -> Workers] /\ settings \in [Computers -> Roots \union {None}]
    BY DEF PairingInv, Typed
  <2>2. worker'[m].pc = "upload"
    BY <1>1, <2>1 DEF Workers
  <2> QED BY <1>1, <1>2, <2>1, <2>2 DEF Holding
<1>5. ASSUME NEW k \in Computers, Holding(k)'
      PROVE  /\ settings'[k] = settings[k] /\ settings[k] \in Roots /\ RootOf(k).code \in Codes
             /\ Holding(k)
  BY <1>4, <1>5, HoldingHas DEF Holding
<1> QED BY <1>1, <1>3, <1>5 DEF DeviceMove

\* A device that begins, ends or forgets an attempt.
LEMMA AttemptMove ==
  ASSUME PairingInv, NEW m \in Computers, UNCHANGED <<job, invites, pairings, revoked, expired, mailbox, roots>>,
         \/ worker' = [worker EXCEPT ![m] = NoWork] /\ UNCHANGED settings
         \/ \E p \in {"upload", "poll"} : worker' = [worker EXCEPT ![m].pc = p] /\ UNCHANGED settings
         \/ worker[m] = NoWork /\ UNCHANGED worker /\ settings' = [settings EXCEPT ![m] = None]
  PROVE  DeviceMove(m)
<1>1. worker \in [Computers -> Workers] /\ settings \in [Computers -> Roots \union {None}]
  BY DEF PairingInv, Typed
<1>2. ~Holding(m)' /\ \A k \in Computers : k # m => worker'[k] = worker[k] /\ settings'[k] = settings[k]
  <2>1. CASE worker' = [worker EXCEPT ![m] = NoWork] /\ UNCHANGED settings
    BY <1>1, <2>1 DEF Holding, NoWork
  <2>2. ASSUME NEW p \in {"upload", "poll"}, worker' = [worker EXCEPT ![m].pc = p], UNCHANGED settings
        PROVE  ~Holding(m)' /\ \A k \in Computers : k # m => worker'[k] = worker[k] /\ settings'[k] = settings[k]
    BY <1>1, <2>2 DEF Holding, Workers
  <2>3. CASE worker[m] = NoWork /\ UNCHANGED worker /\ settings' = [settings EXCEPT ![m] = None]
    BY <1>1, <2>3 DEF Holding, NoWork
  <2> QED BY <2>1, <2>2, <2>3
<1>3. ASSUME NEW k \in Computers, Holding(k)'
      PROVE  /\ settings'[k] = settings[k] /\ settings[k] \in Roots /\ RootOf(k).code \in Codes
             /\ Holding(k)
  BY <1>2, <1>3, HoldingHas DEF Holding
<1> QED BY <1>3 DEF DeviceMove

\* A device at work: the step of one worker, whose root keeps its code.
LEMMA WorkMove ==
  ASSUME PairingInv, NEW m \in Computers, Connecting(m)
  PROVE  DeviceMove(m)
<1>1. /\ UNCHANGED <<job, invites, pairings, revoked, expired, settings>> /\ worker[m].pc # "idle"
      /\ worker \in [Computers -> Workers] /\ roots \in [Roots -> RootRecords] /\ mailbox \in [Codes -> Mailboxes]
  BY DEF Connecting, Upload, Get, Install, Apply, Activate, UnchangedMain, PairingInv, Typed
<1>2. settings[m] \in Roots /\ RootOf(m).code \in Codes /\ roots[settings[m]] \in RootRecords
      /\ RootOf(m) = roots[settings[m]] /\ worker[m] \in Workers
  BY <1>1, WorkerHas
<1>3. \A k \in Computers : k # m => worker'[k] = worker[k]
  BY <1>1 DEF Connecting, Upload, Get, Install, Apply, Activate, Stop
<1>4. \A c \in Codes : /\ mailbox'[c].response = mailbox[c].response
                       /\ \/ mailbox'[c].request = mailbox[c].request
                          \/ roots[mailbox'[c].request].code = c /\ mailbox'[c].request \in Roots
  <2>1. CASE UNCHANGED mailbox
    BY <2>1
  <2>2. CASE mailbox' = [mailbox EXCEPT ![RootOf(m).code].request = settings[m]]
    BY <1>1, <1>2, <2>2 DEF Mailboxes
  <2> QED BY <2>1, <2>2 DEF Connecting, Upload, Get, Install, Apply, Activate
<1>5. \A r \in Roots : /\ roots'[r].code = roots[r].code
                       /\ \/ roots'[r].generation = roots[r].generation
                          \/ Holding(m) /\ r = settings[m]
  <2>1. CASE UNCHANGED roots
    BY <2>1
  <2>2. CASE Install(m) /\ roots' = [roots EXCEPT ![settings[m]].generation = worker[m].answer]
    BY <1>1, <1>2, <2>2 DEF RootRecords, Install, Holding
  <2>3. CASE roots' = [roots EXCEPT ![settings[m]].applied = worker[m].answer]
    BY <1>1, <1>2, <2>3 DEF RootRecords
  <2>4. CASE roots' = [roots EXCEPT ![settings[m]].status = "active"]
    BY <1>1, <1>2, <2>4 DEF RootRecords
  <2> QED BY <2>1, <2>2, <2>3, <2>4 DEF Connecting, Upload, Get, Install, Apply, Activate
<1>6. Holding(m)' => Holding(m) \/ mailbox[RootOf(m).code].response # 0
  <2>1. CASE Upload(m)
    <3>1. worker'[m].pc \in {"get", "idle"}
      BY <1>1, <2>1 DEF Upload, Stop, NoWork, Workers
    <3> QED BY <3>1 DEF Holding
  <2>2. CASE Get(m)
    <3>1. Stop(m) \/ mailbox[RootOf(m).code].response # 0
      BY <2>2 DEF Get
    <3> QED BY <1>1, <3>1 DEF Stop, Holding, NoWork
  <2>3. CASE Install(m) \/ Apply(m) \/ Activate(m)
    BY <2>3 DEF Install, Apply, Activate, Holding
  <2> QED BY <2>1, <2>2, <2>3 DEF Connecting
<1>7. ASSUME NEW k \in Computers, Holding(k)'
      PROVE  /\ settings'[k] = settings[k] /\ settings[k] \in Roots /\ RootOf(k).code \in Codes
             /\ Holding(k) \/ mailbox[RootOf(k).code].response # 0
  <2>1. CASE k = m
    BY <1>1, <1>2, <1>6, <1>7, <2>1
  <2>2. CASE k # m
    BY <1>1, <1>3, <1>7, <2>2, HoldingHas DEF Holding
  <2> QED BY <2>1, <2>2
<1> QED BY <1>1, <1>4, <1>5, <1>7 DEF DeviceMove

LEMMA DeviceMoved ==
  ASSUME PairingInv, NEW m \in Computers,
         \/ \E c \in Codes : Join(m, c)
         \/ Rejoin(m) \/ StartPoll(m) \/ Connecting(m) \/ CancelPending(m) \/ WorkerFails(m)
  PROVE  DeviceMove(m)
<1>1. CASE Rejoin(m) \/ StartPoll(m) \/ CancelPending(m) \/ WorkerFails(m)
  <2>1. UNCHANGED <<job, invites, pairings, revoked, expired, mailbox, roots>>
    BY <1>1 DEF Rejoin, StartPoll, CancelPending, WorkerFails, UnchangedMain
  <2>2. \/ worker' = [worker EXCEPT ![m] = NoWork] /\ UNCHANGED settings
        \/ \E p \in {"upload", "poll"} : worker' = [worker EXCEPT ![m].pc = p] /\ UNCHANGED settings
        \/ worker[m] = NoWork /\ UNCHANGED worker /\ settings' = [settings EXCEPT ![m] = None]
    BY <1>1 DEF Rejoin, StartPoll, CancelPending, WorkerFails, Stop
  <2> QED BY <2>1, <2>2, AttemptMove
<1> QED BY <1>1, JoinMove, WorkMove

LEMMA DeviceLinks ==
  ASSUME PairingInv, LinkInv, NEW m \in Computers, DeviceMove(m)
  PROVE  LinkInv'
<1>1. RequestsOfCode'
  <2>1. \A c \in Codes : mailbox[c].request \in Roots \union {None} /\ invites[c].request \in Roots \union {None}
    BY DEF PairingInv, Typed, Mailboxes, Invites
  <2>2. \A c \in Codes, r \in Roots : roots[r].code = c => roots'[r].code = c
    BY NoneIsNothing DEF DeviceMove
  <2>3. \A c \in Codes : mailbox'[c].request # None => roots'[mailbox'[c].request].code = c
    BY <2>1, <2>2 DEF DeviceMove, LinkInv, RequestsOfCode
  <2>4. \A c \in Codes : invites'[c].request # None => roots'[invites'[c].request].code = c
    BY <2>1, <2>2 DEF DeviceMove, LinkInv, RequestsOfCode
  <2>5. job'.pc = "check" => roots'[job'.root].code = job'.code
    <3>1. job.pc = "check" => job.root \in Roots /\ job.code \in Codes
      BY DEF PairingInv, JobSound
    <3> QED BY <3>1, <2>2 DEF DeviceMove, LinkInv, RequestsOfCode
  <2> QED BY <2>3, <2>4, <2>5 DEF RequestsOfCode
<1>2. \A r \in Roots : roots[r].code \in Codes /\ Arrived(roots[r].code) => Arrived(roots[r].code)'
  BY NoneIsNothing DEF DeviceMove, Arrived
<1>3. ASSUME NEW r \in Roots, roots'[r].generation # 0
      PROVE  Arrived(roots[r].code)'
  <2>1. roots[r].generation # 0 \/ (Holding(m) /\ r = settings[m])
    BY <1>3 DEF DeviceMove
  <2>2. CASE roots[r].generation # 0
    BY <1>2, <2>2 DEF PairingInv, RootsSound, LinkInv, AnswersArrived
  <2>3. CASE Holding(m) /\ r = settings[m]
    <3>1. RootOf(m) = roots[r] /\ RootOf(m).code \in Codes
      BY <2>3, WorkerHas DEF Holding
    <3> QED BY <1>2, <2>3, <3>1 DEF LinkInv, AnswersArrived
  <2> QED BY <2>1, <2>2, <2>3
<1>4. ASSUME NEW k \in Computers, Holding(k)'
      PROVE  Arrived(RootOf(k).code)'
  <2>1. /\ settings'[k] = settings[k] /\ settings[k] \in Roots /\ RootOf(k) = roots[settings[k]]
        /\ RootOf(k).code \in Codes /\ Arrived(RootOf(k).code)
    BY <1>4 DEF DeviceMove, RootOf, LinkInv, AnswersArrived, Arrived
  <2>2. RootOf(k)' = roots'[settings[k]]
    BY <2>1 DEF RootOf
  <2> QED BY <1>2, <2>1, <2>2
<1>5. AnswersArrived'
  BY <1>3, <1>4 DEF AnswersArrived
<1>6. 0 \notin revoked' /\ AnswersOfDevice'
  BY DEF DeviceMove, LinkInv, AnswersOfDevice
<1> QED BY <1>1, <1>5, <1>6 DEF LinkInv

LEMMA DeviceShut ==
  ASSUME PairingInv, NEW m \in Computers, DeviceMove(m), NEW c \in Codes, Shut(c)
  PROVE  Shut(c)'
<1>1. ASSUME NEW k \in Computers, Holding(k)'
      PROVE  RootOf(k)'.code # c
  <2>1. /\ settings'[k] = settings[k] /\ settings[k] \in Roots /\ RootOf(k) = roots[settings[k]]
        /\ RootOf(k).code \in Codes /\ RootOf(k).code # c
    BY <1>1 DEF DeviceMove, RootOf, Shut
  <2>2. RootOf(k)' = roots'[settings[k]]
    BY <2>1 DEF RootOf
  <2> QED BY <2>1, <2>2, NoneIsNothing DEF DeviceMove
<1>2. ASSUME NEW r \in Roots, roots'[r].code = c
      PROVE  roots'[r].generation = 0
  <2>1. roots[r].code = c \/ roots[r].code = None
    BY <1>2 DEF DeviceMove
  <2>2. roots[r].generation = 0
    BY <2>1, NoneIsNothing DEF PairingInv, RootsSound, Shut
  <2>3. ~(Holding(m) /\ r = settings[m])
    BY <2>1, HoldingHas, NoneIsNothing DEF Holding, Shut, RootOf
  <2> QED BY <2>2, <2>3 DEF DeviceMove
<1> QED BY <1>1, <1>2 DEF Shut, DeviceMove

LEMMA LinkNext ==
  ASSUME PairingInv, LinkInv, [Next]_vars
  PROVE  LinkInv'
<1>1. CASE UNCHANGED vars
  <2>1. UNCHANGED <<settings, roots, worker, expired, mailbox, job, pairings, revoked>>
    BY <1>1 DEF vars
  <2>2. AnswersStay /\ NoNewRequests
    BY <2>1 DEF AnswersStay, NoNewRequests
  <2>3. \A c \in Codes : pairings[c].response # 0 => invites[c].bundle # 0
    BY DEF PairingInv, MailSound
  <2> QED BY <2>1, <2>2, <2>3, MainLinks DEF LinkInv
<1>2. CASE Quiet
  BY <1>2, QuietLinks
<1>3. ASSUME NEW c \in Codes, UploadInvite(c) \/ StartApprove(c)
      PROVE  LinkInv'
  BY <1>3, RelayLinks
<1>4. CASE Post
  BY <1>4, RelayLinks
<1>5. ASSUME NEW m \in Computers,
             \/ \E c \in Codes : Join(m, c)
             \/ Rejoin(m) \/ StartPoll(m) \/ Connecting(m) \/ CancelPending(m) \/ WorkerFails(m)
      PROVE  LinkInv'
  BY <1>5, DeviceMoved, DeviceLinks
<1> QED BY <1>1, <1>2, <1>3, <1>4, <1>5 DEF Next, Quiet, Flushing

\* The answer of a shut code is not chosen again: the device's grants that
\* are still published are the recorded one, which is revoked.
LEMMA ShutNotDue ==
  ASSUME PairingInv, LinkInv, NEW c \in Codes, Shut(c)
  PROVE  ~Due(c)
<1> SUFFICES ASSUME Due(c) PROVE FALSE
  OBVIOUS
<1>1. PICK g \in Current : g.device = pairings[c].device /\ g.id \notin revoked /\ pairings[c].response # 0
  BY DEF Due, GrantOf
<1>2. pairings[c].device = invites[c].request /\ invites[c].request # None
  BY <1>1 DEF LinkInv, AnswersOfDevice, PairingInv, MailSound, Identified
<1>3. Tracked(Current, invites)
  <2>1. DOMAIN published = 1..Len(published) /\ Len(published) \in DOMAIN published
    BY LenProperties, Parameters DEF PairingInv, Typed
  <2> QED BY <2>1 DEF PairingInv, ScopeTracked, Current
<1>4. PICK k \in Codes : invites[k].request = g.device /\ invites[k].grant = g.id
  BY <1>3 DEF Tracked
<1>5. k = c
  BY <1>1, <1>2, <1>4 DEF LinkInv, RequestsOfCode
<1> QED BY <1>1, <1>4, <1>5 DEF Shut

LEMMA MainShut ==
  ASSUME PairingInv, [Next]_vars, UNCHANGED <<settings, roots, worker>>, revoked \subseteq revoked',
         NEW c \in Codes, Shut(c), mailbox'[c].response = 0, c \notin job'.todo
  PROVE  Shut(c)'
<1>1. invites'[c].grant = invites[c].grant
  BY InvitesStep DEF InvitesKept, Shut, PairingInv, Identified
<1>2. \A m \in Computers : Holding(m)' => Holding(m) /\ UNCHANGED RootOf(m)
  BY DEF Holding, RootOf
<1> QED BY <1>1, <1>2 DEF Shut

LEMMA ShutNext ==
  ASSUME PairingInv, LinkInv, [Next]_vars, NEW c \in Codes, Shut(c)
  PROVE  Shut(c)'
<1>1. CASE UNCHANGED vars
  <2>1. UNCHANGED <<settings, roots, worker, mailbox, job, revoked>>
    BY <1>1 DEF vars
  <2> QED BY <2>1, MainShut DEF Shut
<1>2. CASE Quiet
  <2>1. UNCHANGED <<settings, roots, worker, mailbox>>
    BY <1>2, QuietStep
  <2>2. revoked \subseteq revoked'
    BY <1>2 DEF Quiet, Invite, RecordPairing, Expire, Approving, Check, Add, Wrap, Save, Respond, Publish,
                Prepare, StartFlush,
                Flush, Mark, JobFails, JobStep, UnchangedMain, UnchangedScope, Revoke
  <2>3. c \notin job'.todo
    <3>1. CASE Flush
      <4>1. job'.todo = {k \in Codes : Due(k)}
        BY <3>1 DEF Flush, Idle
      <4> QED BY <4>1, ShutNotDue
    <3> QED BY <1>2, <3>1, QuietStep DEF Shut
  <2> QED BY <2>1, <2>2, <2>3, MainShut DEF Shut
<1>3. ASSUME NEW k \in Codes, UploadInvite(k) \/ StartApprove(k)
      PROVE  Shut(c)'
  <2>1. UNCHANGED <<settings, roots, worker, revoked>> /\ mailbox' = Created(k)
    BY <1>3 DEF UploadInvite, StartApprove, UnchangedScope, UnchangedDevices
  <2>2. c \notin job'.todo
    BY <1>3 DEF UploadInvite, StartApprove, Idle, Shut
  <2> QED BY <2>1, <2>2, CreatedLinks, MainShut DEF Shut
<1>4. CASE Post
  <2>1. UNCHANGED <<settings, roots, worker, revoked>>
    BY <1>4 DEF Post, JobStep, UnchangedDevices
  <2>2. mailbox'[c] = mailbox[c] /\ c \notin job'.todo
    BY <1>4, PostLinks DEF Shut
  <2> QED BY <2>1, <2>2, MainShut DEF Shut
<1>5. ASSUME NEW m \in Computers,
             \/ \E k \in Codes : Join(m, k)
             \/ Rejoin(m) \/ StartPoll(m) \/ Connecting(m) \/ CancelPending(m) \/ WorkerFails(m)
      PROVE  Shut(c)'
  BY <1>5, DeviceMoved, DeviceShut
<1> QED BY <1>1, <1>2, <1>3, <1>4, <1>5 DEF Next, Quiet, Flushing

\* The premise and the promise of RevokedStaysOut for one code.
Stopped(c) == invites[c].grant \in revoked /\ Open(c) /\ mailbox[c].response = 0 /\ c \notin job.todo
NothingReceived(c) == \A r \in Roots : roots[r].code = c => roots[r].generation = 0

LEMMA StoppedShut ==
  ASSUME LinkInv, NEW c \in Codes, Stopped(c)
  PROVE  Shut(c)
<1>1. ~Arrived(c)
  BY DEF Stopped, Open, Arrived
<1> QED BY <1>1 DEF Stopped, Shut, LinkInv, AnswersArrived

LEMMA LinksHold == Spec => []LinkInv
<1>1. Init => LinkInv
  BY DEF Init, LinkInv, RequestsOfCode, AnswersOfDevice, AnswersArrived, Holding, NoMailbox, NoInvite, NoPairing,
         NoRoot, NoWork, Idle, None
<1>2. PairingInv /\ LinkInv /\ [Next]_vars => LinkInv'
  BY LinkNext
<1> QED BY <1>1, <1>2, PairingInductive, PTL DEF Spec

\* A device whose grant is revoked before its answer is on its way never
\* receives anything: from then on its code stays shut, since the answers
\* that _flush_responses chooses are those of a device with a live grant, a
\* device has the one grant that its invitation records, and what a device
\* installs has passed through the mailbox of its code.
THEOREM RevokedStaysOutHolds == Spec => RevokedStaysOut
<1>1. ASSUME NEW c \in Codes
      PROVE  Spec => [](Stopped(c) => []NothingReceived(c))
  <2>1. PairingInv /\ LinkInv /\ Stopped(c) => Shut(c)
    BY StoppedShut
  <2>2. PairingInv /\ LinkInv /\ Shut(c) /\ [Next]_vars => Shut(c)'
    BY ShutNext
  <2>3. Shut(c) => NothingReceived(c)
    BY DEF Shut, NothingReceived
  <2> QED BY <2>1, <2>2, <2>3, LinksHold, PairingInductive, PTL DEF Spec
<1> QED BY <1>1 DEF RevokedStaysOut, Stopped, NothingReceived
=============================================================================
