-------------------------- MODULE VaultMergeProofs --------------------------
(***************************************************************************)
(* Proofs about the merge of two vaults, and the devices that exchange     *)
(* them, for any number of devices, entries, names and edits.              *)
(*                                                                         *)
(* First what the operators of a merge do: the newest version wins on      *)
(* either side, the names of the live entries are made unique and a free   *)
(* name is always found, a merge and a reference conflict are the same     *)
(* whichever side is the local one, and each version keeps its secret.     *)
(* Then the inductive invariant, which says that every vault is one that   *)
(* a merge may be given, and the properties.                               *)
(***************************************************************************)
EXTENDS VaultMerge, FiniteSetTheorems, WellFoundedInduction, TLAPS

-----------------------------------------------------------------------------
(* Minimal elements *)

\* A set of natural numbers that is not empty has a least element.
LEMMA LeastNumber ==
  ASSUME NEW T, T \subseteq Nat, T # {}
  PROVE  \E n \in T : n \in Nat /\ \A m \in T : m \in Nat /\ n <= m
<1> DEFINE R == {s \in Nat \X Nat : s[1] < s[2]}
<1>1. IsWellFoundedOn(R, Nat)
  BY NatLessThanWellFounded DEF OpToRel
<1>2. PICK n \in T : \A m \in T : ~(<<m, n>> \in R)
  <2> HIDE DEF R
  <2> QED BY <1>1, WFMin
<1>3. ASSUME NEW m \in T
      PROVE  n \in Nat /\ m \in Nat /\ n <= m
  <2>1. n \in Nat /\ m \in Nat
    OBVIOUS
  <2>2. ~(m < n)
    BY <1>2, <2>1
  <2> QED BY <2>1, <2>2
<1> QED BY <1>3

\* A strict order has a minimal element in every part of a finite set.
LEMMA MinimalElement ==
  ASSUME NEW S, IsFiniteSet(S), NEW R,
         \A x \in S : <<x, x>> \notin R,
         \A x, y, z \in S : <<x, y>> \in R /\ <<y, z>> \in R => <<x, z>> \in R,
         NEW T, T \subseteq S, T # {}
  PROVE  \E x \in T : \A y \in T : <<y, x>> \notin R
<1> DEFINE below(x) == {y \in S : <<y, x>> \in R}
<1>1. \A x \in S : below(x) \subseteq S /\ IsFiniteSet(below(x)) /\ Cardinality(below(x)) \in Nat
  BY FS_Subset, FS_CardinalityType
<1>2. PICK x \in T : \A y \in T : Cardinality(below(x)) <= Cardinality(below(y))
  <2> DEFINE sizes == {Cardinality(below(x)) : x \in T}
  <2>1. sizes \subseteq Nat /\ sizes # {}
    <3>1. \A x \in T : Cardinality(below(x)) \in Nat
      BY <1>1
    <3> HIDE DEF below
    <3> QED BY <3>1
  <2>2. \A x \in T : Cardinality(below(x)) \in sizes
    OBVIOUS
  <2>3. \A n \in sizes : \E x \in T : n = Cardinality(below(x))
    OBVIOUS
  <2> HIDE DEF sizes, below
  <2>4. PICK n \in sizes : \A m \in sizes : n <= m
    BY <2>1, LeastNumber
  <2> QED BY <2>2, <2>3, <2>4
<1>4. ASSUME NEW y \in T, <<y, x>> \in R
      PROVE  FALSE
  <2>1. below(y) \subseteq below(x) /\ y \in below(x) /\ y \notin below(y)
    BY <1>4
  <2>2. Cardinality(below(y)) < Cardinality(below(x))
    <3>1. below(y) # below(x)
      BY <2>1
    <3> HIDE DEF below
    <3> QED BY <1>1, <2>1, <3>1, FS_Subset
  <2> HIDE DEF below
  <2> QED BY <1>1, <1>2, <2>2
<1> QED BY <1>4

-----------------------------------------------------------------------------
(* The order of names *)

LEMMA PrecedesIrreflexive ==
  ASSUME NEW s \in Seq(Nat)
  PROVE  ~Precedes(s, s)
BY DEF Precedes

LEMMA PrecedesTransitive ==
  ASSUME NEW s \in Seq(Nat), NEW t \in Seq(Nat), NEW u \in Seq(Nat), Precedes(s, t), Precedes(t, u)
  PROVE  Precedes(s, u)
<1>1. PICK k \in 0..Len(s) : k < Len(t) /\ (\A j \in 1..k : s[j] = t[j]) /\ (k = Len(s) \/ s[k + 1] < t[k + 1])
  BY DEF Precedes
<1>2. PICK l \in 0..Len(t) : l < Len(u) /\ (\A j \in 1..l : t[j] = u[j]) /\ (l = Len(t) \/ t[l + 1] < u[l + 1])
  BY DEF Precedes
<1>3. CASE k <= l
  <2>1. k \in 0..Len(s) /\ k < Len(u) /\ \A j \in 1..k : s[j] = u[j]
    BY <1>1, <1>2, <1>3
  <2>2. k = Len(s) \/ s[k + 1] < u[k + 1]
    <3>1. CASE k < l
      <4>1. t[k + 1] = u[k + 1]
        BY <1>2, <3>1
      <4> QED BY <1>1, <4>1
    <3>2. CASE k = l /\ k # Len(s)
      <4>1. s[k + 1] \in Nat /\ t[k + 1] \in Nat /\ u[k + 1] \in Nat
        BY <1>1, <1>2, <3>2
      <4> QED BY <1>1, <1>2, <3>2, <4>1
    <3> QED BY <1>3, <3>1, <3>2
  <2> QED BY <2>1, <2>2 DEF Precedes
<1>4. CASE l < k
  <2>1. l \in 0..Len(s) /\ l < Len(u) /\ \A j \in 1..l : s[j] = u[j]
    BY <1>1, <1>2, <1>4
  <2>2. s[l + 1] < u[l + 1]
    <3>1. s[l + 1] = t[l + 1]
      BY <1>1, <1>4
    <3> QED BY <1>1, <1>2, <1>4, <3>1
  <2> QED BY <2>1, <2>2 DEF Precedes
<1> QED BY <1>3, <1>4

LEMMA PrecedesTotal ==
  ASSUME NEW s \in Seq(Nat), NEW t \in Seq(Nat), s # t
  PROVE  Precedes(s, t) \/ Precedes(t, s)
<1>1. CASE \A j \in 1..Len(s) : j <= Len(t) => s[j] = t[j]
  <2>1. CASE Len(s) < Len(t)
    <3>1. Len(s) \in 0..Len(s) /\ \A j \in 1..Len(s) : s[j] = t[j]
      BY <1>1, <2>1
    <3> QED BY <2>1, <3>1 DEF Precedes
  <2>2. CASE Len(t) < Len(s)
    <3>1. Len(t) \in 0..Len(t) /\ \A j \in 1..Len(t) : t[j] = s[j]
      BY <1>1, <2>2
    <3> QED BY <2>2, <3>1 DEF Precedes
  <2>3. CASE Len(s) = Len(t)
    BY <1>1, <2>3
  <2> QED BY <2>1, <2>2, <2>3
<1>2. CASE ~ \A j \in 1..Len(s) : j <= Len(t) => s[j] = t[j]
  <2> DEFINE D == {j \in 1..Len(s) : j <= Len(t) /\ s[j] # t[j]}
  <2>1. D \subseteq Nat /\ D # {}
    <3>1. PICK j \in 1..Len(s) : j <= Len(t) /\ s[j] # t[j]
      BY <1>2
    <3>2. j \in D
      BY <3>1
    <3>3. \A d \in D : d \in Nat
      OBVIOUS
    <3> HIDE DEF D
    <3> QED BY <3>2, <3>3
  <2>2. PICK n \in D : n \in Nat /\ \A m \in D : n <= m
    BY <2>1, LeastNumber
  <2>3. n \in 1..Len(s) /\ n <= Len(t) /\ s[n] # t[n]
    BY <2>2
  <2>4. \A j \in 1..(n - 1) : s[j] = t[j]
    <3> SUFFICES ASSUME NEW j \in 1..(n - 1) PROVE s[j] = t[j]
      OBVIOUS
    <3>1. j \in 1..Len(s) /\ j <= Len(t) /\ ~(n <= j)
      BY <2>3
    <3> QED BY <2>2, <3>1
  <2>5. n - 1 \in 0..Len(s) /\ n - 1 \in 0..Len(t) /\ n - 1 < Len(s) /\ n - 1 < Len(t) /\ n - 1 + 1 = n
    BY <2>3
  <2>6. s[n] \in Nat /\ t[n] \in Nat
    BY <2>3
  <2>7. CASE s[n] < t[n]
    BY <2>4, <2>5, <2>7 DEF Precedes
  <2>8. CASE t[n] < s[n]
    BY <2>4, <2>5, <2>8 DEF Precedes
  <2> QED BY <2>3, <2>6, <2>7, <2>8
<1> QED BY <1>1, <1>2

-----------------------------------------------------------------------------
(* The order of versions, and the winner of two *)

\* A version: an entry that is not there is NoCell, and a tombstone refers to nothing.
Version(x) ==
  /\ x \in Cell
  /\ x.kind = "none" => x = NoCell
  /\ x.kind = "tombstone" => x.ref = None

LEMMA CellFields ==
  ASSUME NEW x \in Cell
  PROVE  /\ x = [kind |-> x.kind, at |-> x.at, name |-> x.name, ref |-> x.ref]
         /\ x.kind \in {"none", "live", "tombstone"} /\ x.at \in Nat /\ x.at \in 0..MaxTime
         /\ x.name \in Seq(Nat) /\ x.ref \in RefNames \union {None} /\ x.ref \in Seq(Nat)
<1>1. None \in Seq(Nat)
  BY DEF None
<1>2. \A n \in RefNames : n \in Seq(Nat)
  BY MergeAssumption
<1>3. MaxTime \in Nat
  BY MergeAssumption
<1> QED BY <1>1, <1>2, <1>3 DEF Cell

LEMMA CellNamed ==
  ASSUME NEW x \in Cell, NEW n \in Seq(Nat)
  PROVE  /\ [x EXCEPT !.name = n] \in Cell
         /\ [x EXCEPT !.name = n] = [kind |-> x.kind, at |-> x.at, name |-> n, ref |-> x.ref]
         /\ [x EXCEPT !.name = n].kind = x.kind /\ [x EXCEPT !.name = n].at = x.at
         /\ [x EXCEPT !.name = n].name = n /\ [x EXCEPT !.name = n].ref = x.ref
<1>1. [x EXCEPT !.name = n] = [kind |-> x.kind, at |-> x.at, name |-> n, ref |-> x.ref]
  BY CellFields
<1>2. [kind |-> x.kind, at |-> x.at, name |-> n, ref |-> x.ref] \in Cell
  BY CellFields DEF Cell
<1> QED BY <1>1, <1>2

\* Of two different live versions exactly one is newer.
LEMMA NewerStrict ==
  ASSUME NEW a \in Cell, NEW b \in Cell, a.kind = "live", b.kind = "live"
  PROVE  /\ ~(Newer(a, b) /\ Newer(b, a))
         /\ a # b => Newer(a, b) \/ Newer(b, a)
         /\ ~Newer(a, a)
<1>1. /\ a.at \in Nat /\ a.name \in Seq(Nat) /\ a.ref \in Seq(Nat)
      /\ b.at \in Nat /\ b.name \in Seq(Nat) /\ b.ref \in Seq(Nat)
  BY CellFields
<1>2. ~(Precedes(a.name, b.name) /\ Precedes(b.name, a.name)) /\ ~(Precedes(a.ref, b.ref) /\ Precedes(b.ref, a.ref))
  BY <1>1, PrecedesTransitive, PrecedesIrreflexive
<1>3. /\ a.name # b.name => Precedes(a.name, b.name) \/ Precedes(b.name, a.name)
      /\ a.ref # b.ref => Precedes(a.ref, b.ref) \/ Precedes(b.ref, a.ref)
  BY <1>1, PrecedesTotal
<1>4. ~Precedes(a.name, a.name) /\ ~Precedes(b.name, b.name) /\ ~Precedes(a.ref, a.ref)
  BY <1>1, PrecedesIrreflexive
<1>5. a # b => a.at # b.at \/ a.name # b.name \/ a.ref # b.ref
  BY CellFields
<1> QED BY <1>1, <1>2, <1>3, <1>4, <1>5 DEF Newer

\* A version up to the name that a tombstone keeps.
Nameless(x) == IF x.kind = "tombstone" THEN [x EXCEPT !.name = None] ELSE x

LEMMA NamelessEqual ==
  ASSUME NEW x, NEW y, Version(x), Version(y), x.kind = y.kind, x.at = y.at, x.kind = "live" => x = y
  PROVE  Nameless(x) = Nameless(y)
<1>1. CASE x.kind = "none"
  BY <1>1 DEF Version, Nameless
<1>2. CASE x.kind = "live"
  BY <1>2
<1>3. CASE x.kind = "tombstone"
  <2>1. x.ref = y.ref /\ x \in Cell /\ y \in Cell
    BY <1>3 DEF Version
  <2>2. None \in Seq(Nat)
    BY DEF None
  <2>3. /\ Nameless(x) = [kind |-> x.kind, at |-> x.at, name |-> None, ref |-> x.ref]
        /\ Nameless(y) = [kind |-> y.kind, at |-> y.at, name |-> None, ref |-> y.ref]
    BY <1>3, <2>1, <2>2, CellNamed DEF Nameless
  <2> QED BY <2>1, <2>3
<1> QED BY <1>1, <1>2, <1>3, CellFields DEF Version

LEMMA WinnerIs ==
  ASSUME NEW l, NEW r, Version(l), Version(r)
  PROVE  /\ Version(Winner(l, r))
         /\ Winner(l, r).kind = "live" <=> l.kind = "live" \/ r.kind = "live"
         /\ l.kind = "live" /\ r.kind # "live" => Winner(l, r) = l
         /\ r.kind = "live" /\ l.kind # "live" => Winner(l, r) = r
         /\ l.kind = "live" /\ r.kind = "live" => Winner(l, r) = IF Newer(r, l) THEN r ELSE l
         /\ l.kind # "live" /\ r.kind # "live" => Winner(l, r) = NoCell
<1>1. Version(NoCell) /\ NoCell.kind = "none"
  BY MergeAssumption DEF Version, NoCell, Cell, None
<1> QED BY <1>1 DEF Winner, RemoteWins

LEMMA WinnerCommutes ==
  ASSUME NEW l, NEW r, Version(l), Version(r)
  PROVE  Winner(l, r) = Winner(r, l)
<1>1. CASE l.kind = "live" /\ r.kind = "live"
  <2>1. Newer(r, l) \/ Newer(l, r) \/ l = r
    BY <1>1, NewerStrict DEF Version
  <2>2. ~(Newer(r, l) /\ Newer(l, r))
    BY <1>1, NewerStrict DEF Version
  <2> QED BY <1>1, <2>1, <2>2, WinnerIs
<1> QED BY <1>1, WinnerIs

LEMMA TombstoneIs ==
  ASSUME NEW l, NEW r, Version(l), Version(r)
  PROVE  /\ Version(LatestTombstone(l, r))
         /\ LatestTombstone(l, r).kind = "tombstone" <=> l.kind = "tombstone" \/ r.kind = "tombstone"
         /\ LatestTombstone(l, r) # NoCell <=> l.kind = "tombstone" \/ r.kind = "tombstone"
         /\ l.kind = "tombstone" => LatestTombstone(l, r).at >= l.at
         /\ LatestTombstone(l, r).kind = LatestTombstone(r, l).kind
         /\ LatestTombstone(l, r).at = LatestTombstone(r, l).at
<1>1. Version(NoCell) /\ NoCell.kind = "none"
  BY MergeAssumption DEF Version, NoCell, Cell, None
<1>2. l.at \in Nat /\ r.at \in Nat
  BY CellFields DEF Version
<1> QED BY <1>1, <1>2 DEF LatestTombstone

\* What becomes of an entry: its winner, or its tombstone, or nothing.
LEMMA ResolveIs ==
  ASSUME NEW l, NEW r, Version(l), Version(r)
  PROVE  /\ Version(Resolve(l, r))
         /\ Resolve(l, r).kind = "live" =>
              Resolve(l, r) = Winner(l, r) /\ Resolve(l, r) = IF RemoteWins(l, r) THEN r ELSE l
         /\ RemoteWins(l, r) => r.kind = "live"
         /\ l.kind = "live" => Resolve(l, r).kind \in {"live", "tombstone"}
         /\ l.kind = "tombstone" /\ Resolve(l, r).kind = "live" => Resolve(l, r).at > l.at
<1> DEFINE w == Winner(l, r)
           t == LatestTombstone(l, r)
<1>1. /\ Version(w)
      /\ w.kind = "live" <=> l.kind = "live" \/ r.kind = "live"
      /\ w.kind = "live" => w = IF RemoteWins(l, r) THEN r ELSE l
  <2>1. RemoteWins(l, r) => r.kind = "live"
    BY DEF RemoteWins
  <2> QED BY <2>1, WinnerIs DEF Winner
<1>2. /\ Version(t) /\ (t # NoCell <=> l.kind = "tombstone" \/ r.kind = "tombstone")
      /\ l.kind = "tombstone" => t.at >= l.at
      /\ t # NoCell => t.kind = "tombstone"
  BY TombstoneIs
<1>3. Resolve(l, r) = IF w.kind = "live" /\ (t = NoCell \/ w.at > t.at) THEN w ELSE t
  BY DEF Resolve
<1>4. t.at \in Nat /\ w.at \in Nat /\ l.at \in Nat
  <2>1. t \in Cell /\ w \in Cell /\ l \in Cell
    BY <1>1, <1>2 DEF Version
  <2> HIDE DEF w, t
  <2> QED BY <2>1, CellFields
<1>5. RemoteWins(l, r) => r.kind = "live"
  BY DEF RemoteWins
<1> HIDE DEF w, t
<1>6. Version(Resolve(l, r))
  BY <1>1, <1>2, <1>3
<1>7. Resolve(l, r).kind = "live" => Resolve(l, r) = w
  BY <1>2, <1>3 DEF NoCell
<1>8. l.kind = "live" => Resolve(l, r).kind \in {"live", "tombstone"}
  BY <1>1, <1>2, <1>3
<1>9. l.kind = "tombstone" /\ Resolve(l, r).kind = "live" => Resolve(l, r).at > l.at
  BY <1>2, <1>3, <1>4
<1> QED BY <1>1, <1>5, <1>6, <1>7, <1>8, <1>9 DEF w

\* Both sides come to the same version of an entry, up to the name that is
\* kept in a tombstone: _latest_tombstone takes the local one of equal seconds.
LEMMA ResolveCommutes ==
  ASSUME NEW l, NEW r, Version(l), Version(r)
  PROVE  /\ Resolve(l, r).kind = Resolve(r, l).kind
         /\ Resolve(l, r).kind = "live" => Resolve(l, r) = Resolve(r, l)
         /\ Nameless(Resolve(l, r)) = Nameless(Resolve(r, l))
<1> DEFINE w == Winner(l, r)
           t == LatestTombstone(l, r)
           u == LatestTombstone(r, l)
<1>1. w = Winner(r, l)
  BY WinnerCommutes
<1>2. t.kind = u.kind /\ t.at = u.at /\ (t = NoCell <=> u = NoCell) /\ t.kind # "live"
  <2>1. t = NoCell \/ t.kind = "tombstone"
    BY TombstoneIs
  <2>2. t = NoCell <=> u = NoCell
    BY TombstoneIs
  <2> QED BY <2>1, <2>2, TombstoneIs DEF NoCell
<1>3. /\ Resolve(l, r) = IF w.kind = "live" /\ (t = NoCell \/ w.at > t.at) THEN w ELSE t
      /\ Resolve(r, l) = IF w.kind = "live" /\ (u = NoCell \/ w.at > u.at) THEN w ELSE u
  BY <1>1 DEF Resolve
<1>4. Version(Resolve(l, r)) /\ Version(Resolve(r, l))
  BY ResolveIs
<1> HIDE DEF w, t, u
<1>5. /\ Resolve(l, r).kind = Resolve(r, l).kind /\ Resolve(l, r).at = Resolve(r, l).at
      /\ Resolve(l, r).kind = "live" => Resolve(l, r) = Resolve(r, l)
  BY <1>2, <1>3
<1> QED BY <1>4, <1>5, NamelessEqual

-----------------------------------------------------------------------------
(* The new names of losers *)

\* The live entries of a vault, as _disambiguate_live_names gets them.
LiveEntries(live) ==
  /\ live = [i \in DOMAIN live |-> live[i]]
  /\ DOMAIN live \subseteq Ids
  /\ \A i \in DOMAIN live : live[i] \in Cell

Names(live) == {live[i].name : i \in DOMAIN live}
Earlier(live, i) == {j \in Losers(live) : RenamedBefore(live, j, i)}
Renamed(live, g, i) ==
  UniqueSuffixName(live[i].name, i, Names(live) \union {g[j] : j \in Earlier(live, i)},
                   Cardinality(DOMAIN live))

LEMMA NewNamesIs ==
  ASSUME NEW live
  PROVE  NewNames(live) = CHOOSE g : g = [i \in Losers(live) |-> Renamed(live, g, i)]
BY DEF NewNames, Renamed, Earlier, Names

LEMMA LiveFields ==
  ASSUME NEW live, LiveEntries(live), NEW i \in DOMAIN live
  PROVE  i \in Ids /\ i \in Nat /\ live[i].at \in Nat /\ live[i].name \in Seq(Nat)
BY MergeAssumption, CellFields DEF LiveEntries

\* The losers are renamed in a strict and total order.
LEMMA RenamedInOrder ==
  ASSUME NEW live, LiveEntries(live)
  PROVE  /\ \A i \in DOMAIN live : ~RenamedBefore(live, i, i)
         /\ \A i, j, k \in DOMAIN live :
              RenamedBefore(live, i, j) /\ RenamedBefore(live, j, k) => RenamedBefore(live, i, k)
         /\ \A i, j \in DOMAIN live : i # j => RenamedBefore(live, i, j) \/ RenamedBefore(live, j, i)
<1>1. ASSUME NEW i \in DOMAIN live
      PROVE  ~RenamedBefore(live, i, i)
  BY LiveFields, PrecedesIrreflexive DEF RenamedBefore, Outranks
<1>2. ASSUME NEW i \in DOMAIN live, NEW j \in DOMAIN live, NEW k \in DOMAIN live,
             RenamedBefore(live, i, j), RenamedBefore(live, j, k)
      PROVE  RenamedBefore(live, i, k)
  <2>1. /\ i \in Nat /\ j \in Nat /\ k \in Nat
        /\ live[i].at \in Nat /\ live[j].at \in Nat /\ live[k].at \in Nat
        /\ live[i].name \in Seq(Nat) /\ live[j].name \in Seq(Nat) /\ live[k].name \in Seq(Nat)
    BY LiveFields
  <2>2. CASE Precedes(live[i].name, live[j].name) /\ Precedes(live[j].name, live[k].name)
    BY <2>1, <2>2, PrecedesTransitive DEF RenamedBefore
  <2>3. CASE live[i].name = live[j].name \/ live[j].name = live[k].name
    BY <1>2, <2>1, <2>3 DEF RenamedBefore, Outranks
  <2> QED BY <1>2, <2>2, <2>3 DEF RenamedBefore
<1>3. ASSUME NEW i \in DOMAIN live, NEW j \in DOMAIN live, i # j
      PROVE  RenamedBefore(live, i, j) \/ RenamedBefore(live, j, i)
  <2>1. /\ i \in Nat /\ j \in Nat /\ live[i].at \in Nat /\ live[j].at \in Nat
        /\ live[i].name \in Seq(Nat) /\ live[j].name \in Seq(Nat)
    BY LiveFields
  <2>2. CASE live[i].name # live[j].name
    BY <2>1, <2>2, PrecedesTotal DEF RenamedBefore
  <2>3. CASE live[i].name = live[j].name
    BY <1>3, <2>1, <2>3 DEF RenamedBefore, Outranks
  <2> QED BY <2>2, <2>3
<1> QED BY <1>1, <1>2, <1>3

\* Each part of the losers has one that is renamed first.
LEMMA FirstRenamed ==
  ASSUME NEW live, LiveEntries(live), NEW T, T \subseteq Losers(live), T # {}
  PROVE  \E x \in T : \A y \in T : ~RenamedBefore(live, y, x)
<1> DEFINE S == DOMAIN live
           R == {s \in S \X S : RenamedBefore(live, s[1], s[2])}
<1>1. \A x, y \in S : <<x, y>> \in R <=> RenamedBefore(live, x, y)
  OBVIOUS
<1>2. IsFiniteSet(S)
  BY MergeAssumption, FS_Subset DEF LiveEntries
<1>3. T \subseteq S
  BY DEF Losers
<1> HIDE DEF R, S
<1>4. /\ \A x \in S : <<x, x>> \notin R
      /\ \A x, y, z \in S : <<x, y>> \in R /\ <<y, z>> \in R => <<x, z>> \in R
  BY <1>1, RenamedInOrder DEF S
<1>5. PICK x \in T : \A y \in T : <<y, x>> \notin R
  BY <1>2, <1>3, <1>4, MinimalElement
<1> QED BY <1>1, <1>3, <1>5

\* Two tables of new names agree wherever both follow the rule.
LEMMA NewNamesAgree ==
  ASSUME NEW live, LiveEntries(live), NEW D, D \subseteq Losers(live), NEW g, NEW h,
         \A i \in D : Earlier(live, i) \subseteq D,
         \A i \in D : g[i] = Renamed(live, g, i) /\ h[i] = Renamed(live, h, i)
  PROVE  \A i \in D : g[i] = h[i]
<1> DEFINE T == {i \in D : g[i] # h[i]}
<1>1. SUFFICES ASSUME T # {} PROVE FALSE
  OBVIOUS
<1>2. PICK x \in T : \A y \in T : ~RenamedBefore(live, y, x)
  BY <1>1, FirstRenamed
<1>3. \A y \in Earlier(live, x) : y \in D /\ g[y] = h[y]
  BY <1>2 DEF Earlier
<1>4. {g[j] : j \in Earlier(live, x)} = {h[j] : j \in Earlier(live, x)}
  BY <1>3
<1>5. Renamed(live, g, x) = Renamed(live, h, x)
  BY <1>4 DEF Renamed
<1> QED BY <1>5

\* The rule has a solution: the first loser's name needs no other, and each
\* following loser's needs only names that are there.
LEMMA NewNamesExist ==
  ASSUME NEW live, LiveEntries(live)
  PROVE  \E g : g = [i \in Losers(live) |-> Renamed(live, g, i)]
<1> DEFINE L == Losers(live)
           Upto(i) == Earlier(live, i) \union {i}
           Follows(g, i) == g = [j \in Upto(i) |-> Renamed(live, g, j)]
           Bad == {i \in L : ~ \E g : Follows(g, i)}
           table == [i \in L |-> CHOOSE g : Follows(g, i)]
<1>1. \A i \in L : i \in DOMAIN live
  BY DEF Losers
<1>2. \A i \in L : Earlier(live, i) \subseteq L /\ Upto(i) \subseteq L /\ i \in Upto(i)
  BY DEF Earlier
<1>3. \A i \in L : \A j \in Upto(i) : Upto(j) \subseteq Upto(i) /\ Earlier(live, j) \subseteq Earlier(live, i)
  BY <1>1, RenamedInOrder DEF Earlier
<1>4. ASSUME NEW i \in L, NEW g, Follows(g, i)
      PROVE  \A j \in Upto(i) : g[j] = Renamed(live, g, j)
  BY <1>4
\* Solutions for two losers agree on what both contain.
<1>5. ASSUME NEW i \in L, NEW j \in Upto(i), NEW g, NEW h, Follows(g, i), Follows(h, j)
      PROVE  \A k \in Upto(j) : g[k] = h[k]
  <2>1. /\ Upto(j) \subseteq L /\ Upto(j) \subseteq Upto(i) /\ j \in L
        /\ \A k \in Upto(j) : Earlier(live, k) \subseteq Upto(j)
    BY <1>2, <1>3
  <2>2. \A k \in Upto(j) : g[k] = Renamed(live, g, k) /\ h[k] = Renamed(live, h, k)
    BY <1>4, <1>5, <2>1
  <2> HIDE DEF L, Upto
  <2> QED BY <2>1, <2>2, NewNamesAgree DEF L
<1>6. Bad = {}
  <2>1. SUFFICES ASSUME Bad # {} PROVE FALSE
    OBVIOUS
  <2>2. PICK x \in Bad : \A y \in Bad : ~RenamedBefore(live, y, x)
    BY <2>1, FirstRenamed
  <2>3. \A y \in Earlier(live, x) : y \in L /\ \E g : Follows(g, y)
    BY <2>2 DEF Earlier
  <2>4. \A y \in Earlier(live, x) : Follows(table[y], y)
    BY <2>3
  <2> DEFINE t == [y \in Earlier(live, x) |-> table[y][y]]
             h == [y \in Upto(x) |-> IF y = x THEN Renamed(live, t, x) ELSE t[y]]
  <2>5. x \in L /\ x \notin Earlier(live, x)
    BY <1>1, <2>2, RenamedInOrder DEF Earlier
  <2>6. ASSUME NEW y \in Earlier(live, x)
        PROVE  h[y] = Renamed(live, h, y)
    <3>1. \A k \in Earlier(live, y) : table[y][k] = table[k][k]
      <4> TAKE k \in Earlier(live, y)
      <4>1. k \in Upto(y) /\ k \in Earlier(live, x) /\ y \in L /\ k \in Upto(k)
        BY <1>2, <1>3, <2>5
      <4> HIDE DEF L, Upto, Follows, table
      <4> QED BY <1>5, <2>4, <4>1
    <3>2. \A k \in Earlier(live, y) : h[k] = table[y][k]
      <4> TAKE k \in Earlier(live, y)
      <4>1. k \in Earlier(live, x) /\ k # x /\ k \in Upto(x)
        BY <1>2, <1>3, <2>5
      <4>2. h[k] = table[k][k]
        BY <4>1
      <4> HIDE DEF h, table, t
      <4> QED BY <3>1, <4>2
    <3>3. {h[k] : k \in Earlier(live, y)} = {table[y][k] : k \in Earlier(live, y)}
      <4> HIDE DEF h, table, t
      <4> QED BY <3>2
    <3>4. Renamed(live, h, y) = Renamed(live, table[y], y)
      <4> HIDE DEF h, table, t
      <4> QED BY <3>3 DEF Renamed
    <3>5. h[y] = table[y][y]
      BY <2>5
    <3>6. table[y][y] = Renamed(live, table[y], y)
      <4>1. y \in L /\ y \in Upto(y)
        BY <1>2, <2>5
      <4> HIDE DEF L, Upto, Follows, table
      <4> QED BY <1>4, <2>4, <4>1
    <3> HIDE DEF h, table, t
    <3> QED BY <3>4, <3>5, <3>6
  <2>7. h[x] = Renamed(live, h, x)
    <3>1. {h[k] : k \in Earlier(live, x)} = {t[k] : k \in Earlier(live, x)}
      BY <2>5
    <3>2. h[x] = Renamed(live, t, x)
      OBVIOUS
    <3> HIDE DEF h, t
    <3> QED BY <3>1, <3>2 DEF Renamed
  <2>8. Follows(h, x)
    <3>1. h = [j \in Upto(x) |-> h[j]]
      OBVIOUS
    <3> HIDE DEF h, t, table
    <3> QED BY <2>6, <2>7, <3>1
  <2> HIDE DEF h
  <2> QED BY <2>2, <2>8
<1>7. \A i \in L : Follows(table[i], i)
  BY <1>6
<1> DEFINE g == [i \in L |-> table[i][i]]
<1>8. ASSUME NEW i \in L
      PROVE  g[i] = Renamed(live, g, i)
  <2>1. \A k \in Earlier(live, i) : g[k] = table[i][k]
    <3> TAKE k \in Earlier(live, i)
    <3>1. k \in L /\ k \in Upto(i) /\ k \in Upto(k)
      BY <1>2
    <3>2. g[k] = table[k][k]
      BY <3>1
    <3> HIDE DEF L, Upto, Follows, table, g
    <3> QED BY <1>5, <1>7, <3>1, <3>2
  <2>2. g[i] = table[i][i]
    OBVIOUS
  <2>3. table[i][i] = Renamed(live, table[i], i)
    <3>1. i \in Upto(i)
      OBVIOUS
    <3> HIDE DEF L, Upto, Follows, table, g
    <3> QED BY <1>4, <1>7, <3>1
  <2> HIDE DEF g, table
  <2>4. {g[k] : k \in Earlier(live, i)} = {table[i][k] : k \in Earlier(live, i)}
    BY <2>1
  <2> QED BY <2>2, <2>3, <2>4 DEF Renamed
<1>9. g = [i \in L |-> g[i]]
  OBVIOUS
<1> HIDE DEF g, table
<1>10. g = [i \in L |-> Renamed(live, g, i)]
  BY <1>8, <1>9
<1> QED BY <1>10

LEMMA NewNamesRule ==
  ASSUME NEW live, LiveEntries(live)
  PROVE  /\ NewNames(live) = [i \in Losers(live) |-> NewNames(live)[i]]
         /\ \A i \in Losers(live) : NewNames(live)[i] = Renamed(live, NewNames(live), i)
<1> DEFINE g == NewNames(live)
<1>1. g = CHOOSE f : f = [i \in Losers(live) |-> Renamed(live, f, i)]
  BY NewNamesIs
<1> HIDE DEF g
<1>2. g = [i \in Losers(live) |-> Renamed(live, g, i)]
  BY <1>1, NewNamesExist
<1> QED BY <1>2 DEF g

-----------------------------------------------------------------------------
(* New names are free, and the names of a merge are unique *)

\* The candidates of one entry differ.
LEMMA SuffixesDiffer ==
  ASSUME NEW n \in Seq(Nat), NEW i \in Nat, NEW j \in Nat, NEW k \in Nat, j # k
  PROVE  SuffixName(n, i, j) # SuffixName(n, i, k)
<1>1. Len(Append(n, i)) = Len(n) + 1
  OBVIOUS
<1>2. ASSUME NEW m \in Nat
      PROVE  Len(n \o <<i, m>>) = Len(n) + 2 /\ (n \o <<i, m>>)[Len(n) + 2] = m
  OBVIOUS
<1>3. Len(n) + 1 # Len(n) + 2
  OBVIOUS
<1>4. CASE j # 0 /\ k # 0
  BY <1>2, <1>4 DEF SuffixName
<1>5. CASE j = 0 \/ k = 0
  BY <1>1, <1>2, <1>3, <1>5 DEF SuffixName
<1> QED BY <1>4, <1>5

LEMMA SuffixIsName ==
  ASSUME NEW n \in Seq(Nat), NEW i \in Nat, NEW k \in Nat
  PROVE  SuffixName(n, i, k) \in Seq(Nat)
BY DEF SuffixName

\* _unique_suffix_name finds a free name, if there are no more names taken than
\* it has numbers to try: its RuntimeError is never raised.
THEOREM SuffixFound ==
  ASSUME NEW n \in Seq(Nat), NEW i \in Nat, NEW taken, IsFiniteSet(taken), NEW total \in Nat,
         Cardinality(taken) <= total
  PROVE  /\ UniqueSuffixName(n, i, taken, total) \notin taken
         /\ UniqueSuffixName(n, i, taken, total) \in Seq(Nat)
<1> DEFINE Free == {k \in 0..total : SuffixName(n, i, k) \notin taken}
           First(k) == SuffixName(n, i, k) \notin taken /\ \A j \in 0..(k - 1) : SuffixName(n, i, j) \in taken
<1>1. Free # {}
  <2>1. SUFFICES ASSUME Free = {} PROVE FALSE
    OBVIOUS
  <2> DEFINE f == [k \in 0..total |-> SuffixName(n, i, k)]
  <2>2. f \in [0..total -> taken]
    BY <2>1
  <2>3. IsFiniteSet(0..total) /\ Cardinality(0..total) = total + 1
    BY FS_Interval
  <2>4. Cardinality(taken) < Cardinality(0..total)
    BY <2>3, FS_CardinalityType
  <2> HIDE DEF f
  <2>5. PICK j \in 0..total, k \in 0..total : j # k /\ f[j] = f[k]
    BY <2>2, <2>3, <2>4, FS_PigeonHole
  <2>6. SuffixName(n, i, j) = SuffixName(n, i, k)
    BY <2>5 DEF f
  <2> QED BY <2>5, <2>6, SuffixesDiffer
<1>2. \A k \in Free : k \in Nat
  OBVIOUS
<1>3. PICK k \in Free : \A j \in Free : k <= j
  <2> HIDE DEF Free
  <2> QED BY <1>1, <1>2, LeastNumber
<1>4. k \in 0..total /\ First(k)
  <2>1. k \in 0..total /\ SuffixName(n, i, k) \notin taken
    OBVIOUS
  <2>2. ASSUME NEW j \in 0..(k - 1)
        PROVE  SuffixName(n, i, j) \in taken
    <3>1. j \in 0..total /\ ~(k <= j)
      BY <2>1
    <3> QED BY <1>3, <3>1
  <2> QED BY <2>1, <2>2
<1> DEFINE c == CHOOSE k_1 \in 0..total : First(k_1)
<1>5. c \in 0..total /\ First(c)
  <2> HIDE DEF First
  <2> QED BY <1>4
<1>6. UniqueSuffixName(n, i, taken, total) = SuffixName(n, i, c)
  BY DEF UniqueSuffixName
<1> HIDE DEF c
<1> QED BY <1>5, <1>6, SuffixIsName

\* Each name has a holder that keeps it, and only one.
LEMMA NameKept ==
  ASSUME NEW live, LiveEntries(live), NEW i \in DOMAIN live
  PROVE  \E j \in DOMAIN live \ Losers(live) : live[j].name = live[i].name
<1> DEFINE S == DOMAIN live
           R == {s \in S \X S : Outranks(live, s[1], s[2])}
           T == {j \in S : live[j].name = live[i].name}
<1>1. \A x, y \in S : <<x, y>> \in R <=> Outranks(live, x, y)
  OBVIOUS
<1>2. IsFiniteSet(S)
  BY MergeAssumption, FS_Subset DEF LiveEntries
<1>3. T \subseteq S /\ i \in T
  OBVIOUS
<1>4. /\ \A x \in S : <<x, x>> \notin R
      /\ \A x, y, z \in S : <<x, y>> \in R /\ <<y, z>> \in R => <<x, z>> \in R
  <2>1. \A x \in S : x \in Nat /\ live[x].at \in Nat
    BY LiveFields
  <2> HIDE DEF R, S
  <2> QED BY <1>1, <2>1 DEF Outranks
<1>5. PICK j \in T : \A y \in T : <<y, j>> \notin R
  <2> HIDE DEF R, S, T
  <2> QED BY <1>2, <1>3, <1>4, MinimalElement
<1>6. j \notin Losers(live)
  BY <1>1, <1>5 DEF Losers
<1> QED BY <1>5, <1>6

LEMMA KeptDiffer ==
  ASSUME NEW live, LiveEntries(live), NEW i \in DOMAIN live \ Losers(live), NEW j \in DOMAIN live \ Losers(live),
         live[i].name = live[j].name
  PROVE  i = j
<1>1. i \in Nat /\ j \in Nat /\ live[i].at \in Nat /\ live[j].at \in Nat
  BY LiveFields
<1>2. ~(i # j /\ Outranks(live, i, j)) /\ ~(i # j /\ Outranks(live, j, i))
  BY DEF Losers
<1> QED BY <1>1, <1>2 DEF Outranks

\* "There are fewer occupied names than live entries while a loser remains
\* unassigned": one for each entry that keeps its name or is renamed already.
LEMMA FewerTaken ==
  ASSUME NEW live, LiveEntries(live), NEW g, NEW i \in Losers(live)
  PROVE  LET taken == Names(live) \union {g[j] : j \in Earlier(live, i)}
         IN  IsFiniteSet(taken) /\ Cardinality(taken) <= Cardinality(DOMAIN live)
<1> DEFINE S == DOMAIN live
           name == [k \in S |-> IF k \in Losers(live) THEN g[k] ELSE live[k].name]
           all == {name[k] : k \in S}
           taken == Names(live) \union {g[j] : j \in Earlier(live, i)}
<1>1. IsFiniteSet(S)
  BY MergeAssumption, FS_Subset DEF LiveEntries
<1>2. IsFiniteSet(all) /\ Cardinality(all) <= Cardinality(S)
  <2>1. name \in Surjection(S, all)
    <3>1. name \in [S -> all] /\ \A t \in all : \E s \in S : name[s] = t
      OBVIOUS
    <3> HIDE DEF name, all, S
    <3> QED BY <3>1 DEF Surjection
  <2> HIDE DEF name, all, S
  <2> QED BY <1>1, <2>1, FS_Surjection
<1>3. taken \subseteq all
  <2>1. ASSUME NEW k \in S
        PROVE  live[k].name \in all
    <3>1. PICK j \in S \ Losers(live) : live[j].name = live[k].name
      BY NameKept
    <3>2. name[j] = live[k].name
      BY <3>1
    <3> HIDE DEF name
    <3> QED BY <3>2
  <2>2. ASSUME NEW j \in Earlier(live, i)
        PROVE  g[j] \in all
    <3>1. j \in S /\ name[j] = g[j]
      BY DEF Earlier, Losers
    <3> HIDE DEF name
    <3> QED BY <3>1
  <2> HIDE DEF all, name, S
  <2> QED BY <2>1, <2>2 DEF Names, S
<1> HIDE DEF all, taken, name, S
<1>4. IsFiniteSet(taken) /\ Cardinality(taken) <= Cardinality(all)
  BY <1>2, <1>3, FS_Subset
<1>5. Cardinality(taken) \in Nat /\ Cardinality(all) \in Nat /\ Cardinality(S) \in Nat
  BY <1>1, <1>2, <1>4, FS_CardinalityType
<1> QED BY <1>2, <1>4, <1>5 DEF S, taken

\* A loser's new name is a name that nobody had or got before.
LEMMA NewNameFree ==
  ASSUME NEW live, LiveEntries(live), NEW i \in Losers(live)
  PROVE  /\ NewNames(live)[i] \in Seq(Nat)
         /\ NewNames(live)[i] \notin Names(live)
         /\ \A j \in Earlier(live, i) : NewNames(live)[i] # NewNames(live)[j]
<1> DEFINE g == NewNames(live)
           taken == Names(live) \union {g[j] : j \in Earlier(live, i)}
           total == Cardinality(DOMAIN live)
<1>1. g[i] = UniqueSuffixName(live[i].name, i, taken, total)
  BY NewNamesRule DEF Renamed
<1>2. IsFiniteSet(taken) /\ Cardinality(taken) <= total
  BY FewerTaken
<1>3. live[i].name \in Seq(Nat) /\ i \in Nat
  BY LiveFields DEF Losers
<1>4. total \in Nat
  BY MergeAssumption, FS_Subset, FS_CardinalityType DEF LiveEntries
<1>5. g[i] \in Seq(Nat) /\ g[i] \notin taken
  <2> HIDE DEF g, taken, total
  <2> QED BY <1>1, <1>2, <1>3, <1>4, SuffixFound
<1> QED BY <1>5

\* Making the names unique changes nothing but names, and makes them unique.
THEOREM Disambiguated ==
  ASSUME NEW live, LiveEntries(live)
  PROVE  LET u == DisambiguateLiveNames(live)
         IN  /\ u = [i \in DOMAIN live |-> u[i]]
             /\ \A i \in DOMAIN live : /\ u[i] \in Cell /\ u[i].kind = live[i].kind
                                       /\ u[i].at = live[i].at /\ u[i].ref = live[i].ref
             /\ \A i, j \in DOMAIN live : u[i].name = u[j].name => i = j
<1> DEFINE u == DisambiguateLiveNames(live)
           g == NewNames(live)
           L == Losers(live)
<1>1. /\ u = [i \in DOMAIN live |-> u[i]]
      /\ \A i \in DOMAIN live : u[i] = IF i \in DOMAIN g THEN [live[i] EXCEPT !.name = g[i]] ELSE live[i]
  BY DEF DisambiguateLiveNames
<1>2. DOMAIN g = L
  BY NewNamesRule
<1> HIDE DEF u
<1>3. ASSUME NEW i \in DOMAIN live
      PROVE  /\ u[i] \in Cell /\ u[i].kind = live[i].kind /\ u[i].at = live[i].at /\ u[i].ref = live[i].ref
             /\ u[i].name = IF i \in L THEN g[i] ELSE live[i].name
  <2>1. live[i] \in Cell
    BY DEF LiveEntries
  <2>2. CASE i \in L
    <3>1. g[i] \in Seq(Nat)
      BY <2>2, NewNameFree
    <3> DEFINE q == [live[i] EXCEPT !.name = g[i]]
    <3>2. u[i] = q
      BY <1>1, <1>2, <2>2
    <3>3. q \in Cell /\ q.kind = live[i].kind /\ q.at = live[i].at /\ q.ref = live[i].ref /\ q.name = g[i]
      BY <2>1, <3>1, CellNamed
    <3> HIDE DEF g, L, q
    <3> QED BY <2>2, <3>2, <3>3
  <2>3. CASE i \notin L
    BY <1>1, <1>2, <2>1, <2>3
  <2> QED BY <2>2, <2>3
<1>4. ASSUME NEW i \in DOMAIN live, NEW j \in DOMAIN live, u[i].name = u[j].name, i # j
      PROVE  FALSE
  <2>1. CASE i \notin L /\ j \notin L
    BY <1>3, <1>4, <2>1, KeptDiffer
  <2>2. \A k \in L, m \in DOMAIN live : g[k] # live[m].name
    BY NewNameFree DEF Names
  <2>3. CASE i \in L /\ j \notin L
    BY <1>3, <1>4, <2>2, <2>3
  <2>4. CASE i \notin L /\ j \in L
    BY <1>3, <1>4, <2>2, <2>4
  <2>5. CASE i \in L /\ j \in L
    <3>1. i \in Earlier(live, j) \/ j \in Earlier(live, i)
      BY <1>4, <2>5, RenamedInOrder DEF Earlier
    <3>2. g[i] # g[j]
      BY <2>5, <3>1, NewNameFree
    <3> QED BY <1>3, <1>4, <2>5, <3>2
  <2> QED BY <2>1, <2>3, <2>4, <2>5
<1> QED BY <1>1, <1>3, <1>4 DEF u

-----------------------------------------------------------------------------
(* What merge() returns, and that it returns the same on either side *)

UniqueNames(m) == \A i, j \in Live(m) : m[i].name = m[j].name => i = j

LEMMA LiveVersions ==
  ASSUME NEW m, \A i \in Ids : Version(m[i])
  PROVE  /\ LiveEntries([i \in Live(m) |-> m[i]])
         /\ DOMAIN [i \in Live(m) |-> m[i]] = Live(m)
         /\ \A i \in Live(m) : [i_1 \in Live(m) |-> m[i_1]][i] = m[i]
BY DEF LiveEntries, Live, Version

\* The versions of a merge are the resolved ones, under unique names.
LEMMA MergedIs ==
  ASSUME NEW l, NEW r, \A i \in Ids : Version(l[i]) /\ Version(r[i])
  PROVE  LET m == Merged(l, r)
         IN  /\ m = [i \in Ids |-> m[i]]
             /\ \A i \in Ids : /\ Version(m[i])
                               /\ m[i].kind = Resolve(l[i], r[i]).kind
                               /\ m[i].at = Resolve(l[i], r[i]).at
             /\ UniqueNames(m)
<1> DEFINE q == [i \in Ids |-> Resolve(l[i], r[i])]
           live == [i \in Live(q) |-> q[i]]
           u == DisambiguateLiveNames(live)
           m == Merged(l, r)
<1>1. m = [i \in Ids |-> IF i \in Live(q) THEN u[i] ELSE q[i]]
  BY DEF Merged
<1>2. \A i \in Ids : Version(q[i]) /\ q[i] = Resolve(l[i], r[i])
  BY ResolveIs
<1> HIDE DEF q, m
<1>3. LiveEntries(live) /\ DOMAIN live = Live(q) /\ \A i \in Live(q) : live[i] = q[i]
  BY <1>2, LiveVersions
<1> HIDE DEF live
<1>4. /\ \A i \in Live(q) : u[i] \in Cell /\ u[i].kind = q[i].kind /\ u[i].at = q[i].at /\ u[i].ref = q[i].ref
      /\ \A i, j \in Live(q) : u[i].name = u[j].name => i = j
  BY <1>3, Disambiguated
<1> HIDE DEF u
<1>5. m = [i \in Ids |-> m[i]] /\ \A i \in Ids : m[i] = IF i \in Live(q) THEN u[i] ELSE q[i]
  BY <1>1
<1>6. \A i \in Ids : i \in Live(q) <=> q[i].kind = "live"
  BY DEF Live
<1>7. \A i \in Ids : Version(m[i]) /\ m[i].kind = q[i].kind /\ m[i].at = q[i].at
  BY <1>2, <1>4, <1>5, <1>6 DEF Version
<1>8. Live(m) = Live(q)
  BY <1>7 DEF Live
<1>9. \A i \in Live(q) : m[i] = u[i]
  BY <1>5 DEF Live
<1>10. UniqueNames(m)
  BY <1>4, <1>8, <1>9 DEF UniqueNames
<1> QED BY <1>2, <1>5, <1>7, <1>10 DEF m

\* Two vaults with the same live entries, up to the names in tombstones.
SameEntries(m, n) ==
  /\ Live(m) = Live(n)
  /\ \A i \in Live(m) : m[i] = n[i]
  /\ \A i \in Ids : m[i].kind = n[i].kind /\ Nameless(m[i]) = Nameless(n[i])

LEMMA MergedCommutes ==
  ASSUME NEW l, NEW r, \A i \in Ids : Version(l[i]) /\ Version(r[i])
  PROVE  SameEntries(Merged(l, r), Merged(r, l))
<1> DEFINE q == [i \in Ids |-> Resolve(l[i], r[i])]
           p == [i \in Ids |-> Resolve(r[i], l[i])]
           liveq == [i \in Live(q) |-> q[i]]
           livep == [i \in Live(p) |-> p[i]]
           u == DisambiguateLiveNames(liveq)
           m == Merged(l, r)
           n == Merged(r, l)
<1>1. ASSUME NEW i \in Ids
      PROVE  /\ q[i].kind = p[i].kind /\ Nameless(q[i]) = Nameless(p[i])
             /\ q[i].kind = "live" => q[i] = p[i]
  BY ResolveCommutes
<1>2. \A i \in Ids : q[i] = Resolve(l[i], r[i]) /\ p[i] = Resolve(r[i], l[i])
  OBVIOUS
<1>3. /\ m = [i \in Ids |-> IF i \in Live(q) THEN DisambiguateLiveNames(liveq)[i] ELSE q[i]]
      /\ n = [i \in Ids |-> IF i \in Live(p) THEN DisambiguateLiveNames(livep)[i] ELSE p[i]]
  BY DEF Merged
<1> HIDE DEF q, p, m, n
<1>4. Live(q) = Live(p) /\ \A i \in Live(q) : q[i] = p[i]
  BY <1>1 DEF Live
<1>5. liveq = livep
  BY <1>4
<1> HIDE DEF liveq, livep
<1>6. \A i \in Ids : /\ m[i] = IF i \in Live(q) THEN u[i] ELSE q[i]
                     /\ n[i] = IF i \in Live(q) THEN u[i] ELSE p[i]
  BY <1>3, <1>4, <1>5
<1> HIDE DEF u
<1>7. \A i \in Ids : m[i].kind = q[i].kind /\ n[i].kind = p[i].kind
  BY <1>2, MergedIs DEF m, n
<1>8. Live(m) = Live(q) /\ Live(n) = Live(q)
  BY <1>4, <1>7 DEF Live
<1>9. \A i \in Live(m) : m[i] = n[i]
  BY <1>6, <1>8 DEF Live
<1>10. ASSUME NEW i \in Ids
       PROVE  m[i].kind = n[i].kind /\ Nameless(m[i]) = Nameless(n[i])
  <2>1. CASE i \in Live(q)
    BY <1>6, <2>1
  <2>2. CASE i \notin Live(q)
    BY <1>1, <1>6, <1>7, <2>2
  <2> QED BY <2>1, <2>2
<1>11. SameEntries(m, n)
  BY <1>8, <1>9, <1>10 DEF SameEntries
<1> QED BY <1>11 DEF m, n

\* Both sides see a reference conflict, or none does.
LEMMA ConflictCommutes ==
  ASSUME NEW l, NEW r, \A i \in Ids : Version(l[i]) /\ Version(r[i])
  PROVE  Conflict(l, r) <=> Conflict(r, l)
<1> DEFINE m == Merged(l, r)
           n == Merged(r, l)
<1>1. SameEntries(m, n)
  BY MergedCommutes
<1> HIDE DEF m, n
<1>2. ASSUME NEW x
      PROVE  Target(m, x) = Target(n, x)
  <2> DEFINE a == {i \in Live(m) : m[i].name = x}
             b == {i \in Live(n) : n[i].name = x}
  <2>1. a = b
    BY <1>1 DEF SameEntries
  <2>2. /\ Target(m, x) = IF a = {} THEN NoId ELSE CHOOSE i \in a : TRUE
        /\ Target(n, x) = IF b = {} THEN NoId ELSE CHOOSE i \in b : TRUE
    BY DEF Target
  <2> HIDE DEF a, b
  <2> QED BY <2>1, <2>2
<1>3. RebindsReference(m, l, r) <=> RebindsReference(n, r, l)
  <2>1. {l, r} = {r, l} /\ Live(m) = Live(n) /\ \A i \in Live(m) : m[i] = n[i]
    BY <1>1 DEF SameEntries
  <2> QED BY <1>2, <2>1 DEF RebindsReference
<1> QED BY <1>3 DEF Conflict, m, n

-----------------------------------------------------------------------------
(* The invariant *)

\* The secret of each live entry was given to it in the second of its version.
Recorded(s) == \A i \in Live(s.meta) : <<i, s.meta[i].at, s.secret[i]>> \in written

\* The secrets of a snapshot are those of its live entries.
SecretsMatch(s) == \A i \in Ids : s.secret[i] # 0 <=> i \in Live(s.meta)

WellFormed(s) ==
  /\ s \in Snapshot
  /\ \A i \in Ids : Version(s.meta[i])
  /\ UniqueNames(s.meta)
  /\ SecretsMatch(s)

Sound(s) == WellFormed(s) /\ Recorded(s)

MergeInv ==
  /\ now \in 1..MaxTime /\ edits \in 0..MaxEdits
  /\ vault \in [Devices -> Snapshot]
  /\ \A d \in Devices : Sound(vault[d])
  /\ head # NoSnapshot => Sound(head)

LEMMA SnapshotFields ==
  ASSUME NEW s \in Snapshot
  PROVE  /\ s = [meta |-> s.meta, secret |-> s.secret]
         /\ s.meta = [i \in Ids |-> s.meta[i]] /\ s.secret = [i \in Ids |-> s.secret[i]]
         /\ \A i \in Ids : s.meta[i] \in Cell /\ s.secret[i] \in Int
BY DEF Snapshot

LEMMA IsSnapshot ==
  ASSUME NEW m, m = [i \in Ids |-> m[i]], \A i \in Ids : m[i] \in Cell,
         NEW f, f = [i \in Ids |-> f[i]], \A i \in Ids : f[i] \in Int
  PROVE  [meta |-> m, secret |-> f] \in Snapshot
<1>1. m \in [Ids -> Cell] /\ f \in [Ids -> Int]
  <2>1. [i \in Ids |-> m[i]] \in [Ids -> Cell]
    OBVIOUS
  <2>2. [i \in Ids |-> f[i]] \in [Ids -> Int]
    OBVIOUS
  <2> QED BY <2>1, <2>2
<1> QED BY <1>1 DEF Snapshot

\* The secret that the merged vault gets for one entry.
MergedSecret(v, s, m, i) ==
  IF i \in SecretsFromRemote(v, s, m) THEN s.secret[i]
  ELSE IF i \in Live(v.meta) \cap Dead(m) THEN 0 ELSE v.secret[i]

LEMMA AppliedIs ==
  ASSUME NEW v, NEW s
  PROVE  /\ Applied(v, s).meta = Merged(v.meta, s.meta)
         /\ Applied(v, s) = [meta |-> Applied(v, s).meta, secret |-> Applied(v, s).secret]
         /\ Applied(v, s).secret = [i \in Ids |-> Applied(v, s).secret[i]]
         /\ \A i \in Ids : Applied(v, s).secret[i] = MergedSecret(v, s, Merged(v.meta, s.meta), i)
<1> DEFINE m == Merged(v.meta, s.meta)
           f == [i \in Ids |-> MergedSecret(v, s, m, i)]
           a == Applied(v, s)
<1>1. a = [meta |-> m, secret |-> f]
  BY DEF Applied, MergedSecret
<1>2. f = [i \in Ids |-> f[i]] /\ \A i \in Ids : f[i] = MergedSecret(v, s, m, i)
  OBVIOUS
<1> HIDE DEF f, a, m
<1>3. a.meta = m /\ a.secret = f
  BY <1>1
<1> QED BY <1>1, <1>2, <1>3 DEF a, m

\* The secret of a merged entry is that of the version that the merge keeps.
LEMMA SecretKept ==
  ASSUME NEW v, NEW s, WellFormed(v), WellFormed(s), NEW i \in Ids
  PROVE  LET l == v.meta[i]
             r == s.meta[i]
             c == Resolve(l, r)
             x == Applied(v, s).secret[i]
         IN  IF c.kind # "live" THEN x = 0
             ELSE IF RemoteWins(l, r) THEN x = s.secret[i] /\ c = r /\ r.kind = "live"
             ELSE /\ c = l /\ l.kind = "live"
                  /\ x = IF l = r /\ s.secret[i] > v.secret[i] THEN s.secret[i] ELSE v.secret[i]
<1> DEFINE l == v.meta[i]
           r == s.meta[i]
           c == Resolve(l, r)
           m == Merged(v.meta, s.meta)
           x == Applied(v, s).secret[i]
<1>1. \A j \in Ids : Version(v.meta[j]) /\ Version(s.meta[j])
  BY DEF WellFormed
<1>2. m[i].kind = c.kind
  BY <1>1, MergedIs
<1>3. /\ i \in Live(m) <=> c.kind = "live"
      /\ i \in Dead(m) <=> c.kind = "tombstone"
      /\ i \in Live(v.meta) <=> l.kind = "live"
      /\ i \in Live(s.meta) <=> r.kind = "live"
  BY <1>2 DEF Live, Dead
<1>4. x = MergedSecret(v, s, m, i)
  BY AppliedIs
<1>5. i \in SecretsFromRemote(v, s, m) <=>
        c.kind = "live" /\ (RemoteWins(l, r) \/ (l = r /\ s.secret[i] > v.secret[i]))
  BY <1>3 DEF SecretsFromRemote, Live
<1>6. /\ v.secret[i] # 0 <=> l.kind = "live"
      /\ s.secret[i] # 0 <=> r.kind = "live"
  BY <1>3 DEF WellFormed, SecretsMatch
<1>7. /\ c.kind = "live" => c = IF RemoteWins(l, r) THEN r ELSE l
      /\ RemoteWins(l, r) => r.kind = "live"
      /\ l.kind = "live" => c.kind \in {"live", "tombstone"}
  BY <1>1, ResolveIs
<1> HIDE DEF l, r, c, m, x
<1>8. c.kind # "live" => x = 0
  BY <1>3, <1>4, <1>5, <1>6, <1>7 DEF MergedSecret
<1>9. c.kind = "live" /\ RemoteWins(l, r) => x = s.secret[i] /\ c = r /\ r.kind = "live"
  BY <1>4, <1>5, <1>7 DEF MergedSecret
<1>10. c.kind = "live" /\ ~RemoteWins(l, r) =>
         /\ c = l /\ l.kind = "live"
         /\ x = IF l = r /\ s.secret[i] > v.secret[i] THEN s.secret[i] ELSE v.secret[i]
  <2>1. c.kind = "live" => i \notin Dead(m)
    BY <1>3
  <2> QED BY <1>4, <1>5, <1>7, <2>1 DEF MergedSecret
<1> QED BY <1>8, <1>9, <1>10 DEF l, r, c, x

\* What a merge makes of two sound vaults is sound.
LEMMA AppliedSound ==
  ASSUME NEW v, NEW s, Sound(v), Sound(s)
  PROVE  Sound(Applied(v, s))
<1> DEFINE m == Merged(v.meta, s.meta)
           a == Applied(v, s)
<1>1. /\ WellFormed(v) /\ WellFormed(s) /\ v \in Snapshot /\ s \in Snapshot
      /\ \A i \in Ids : Version(v.meta[i]) /\ Version(s.meta[i])
  BY DEF Sound, WellFormed
<1>2. /\ m = [i \in Ids |-> m[i]]
      /\ \A i \in Ids : /\ Version(m[i]) /\ m[i].kind = Resolve(v.meta[i], s.meta[i]).kind
                        /\ m[i].at = Resolve(v.meta[i], s.meta[i]).at
      /\ UniqueNames(m)
  BY <1>1, MergedIs
<1>3. a.meta = m /\ a = [meta |-> a.meta, secret |-> a.secret] /\ a.secret = [i \in Ids |-> a.secret[i]]
  BY AppliedIs
<1> HIDE DEF m, a
<1>4. ASSUME NEW i \in Ids
      PROVE  /\ a.secret[i] \in Int
             /\ i \in Live(m) => <<i, m[i].at, a.secret[i]>> \in written
             /\ a.secret[i] # 0 <=> i \in Live(m)
  <2> DEFINE l == v.meta[i]
             r == s.meta[i]
             c == Resolve(l, r)
             x == a.secret[i]
  <2>1. IF c.kind # "live" THEN x = 0
        ELSE IF RemoteWins(l, r) THEN x = s.secret[i] /\ c = r /\ r.kind = "live"
        ELSE /\ c = l /\ l.kind = "live"
             /\ x = IF l = r /\ s.secret[i] > v.secret[i] THEN s.secret[i] ELSE v.secret[i]
    BY <1>1, SecretKept DEF a
  <2>2. m[i].kind = c.kind /\ m[i].at = c.at /\ (i \in Live(m) <=> c.kind = "live")
    BY <1>2 DEF Live
  <2>3. /\ l.kind = "live" => <<i, l.at, v.secret[i]>> \in written /\ v.secret[i] # 0
        /\ r.kind = "live" => <<i, r.at, s.secret[i]>> \in written /\ s.secret[i] # 0
    BY <1>1 DEF Sound, WellFormed, Recorded, SecretsMatch, Live
  <2>4. v.secret[i] \in Int /\ s.secret[i] \in Int
    BY <1>1, SnapshotFields
  <2> HIDE DEF l, r, c, x
  <2>5. x \in Int /\ (c.kind = "live" => <<i, c.at, x>> \in written) /\ (x # 0 <=> c.kind = "live")
    BY <2>1, <2>3, <2>4
  <2> QED BY <2>2, <2>5 DEF x
<1>5. \A i \in Ids : m[i] \in Cell
  BY <1>2 DEF Version
<1>6. a \in Snapshot
  BY <1>2, <1>3, <1>4, <1>5, IsSnapshot
<1>7. Recorded(a)
  BY <1>3, <1>4 DEF Recorded, Live
<1>8. SecretsMatch(a)
  BY <1>3, <1>4 DEF SecretsMatch
<1>9. WellFormed(a)
  BY <1>2, <1>3, <1>6, <1>8 DEF WellFormed
<1> QED BY <1>7, <1>9 DEF Sound, a

\* Both sides of a merge get the same vault, but for names in tombstones: two
\* versions that only their secrets tell apart get the greater secret on both.
LEMMA AppliedCommutes ==
  ASSUME NEW v, NEW s, WellFormed(v), WellFormed(s)
  PROVE  Unnamed(Applied(v, s)) = Unnamed(Applied(s, v))
<1> DEFINE a == Applied(v, s)
           b == Applied(s, v)
           m == Merged(v.meta, s.meta)
           n == Merged(s.meta, v.meta)
<1>1. \A i \in Ids : Version(v.meta[i]) /\ Version(s.meta[i])
  BY DEF WellFormed
<1>2. SameEntries(m, n)
  BY <1>1, MergedCommutes
<1>3. /\ a.meta = m /\ a = [meta |-> a.meta, secret |-> a.secret] /\ a.secret = [i \in Ids |-> a.secret[i]]
      /\ b.meta = n /\ b = [meta |-> b.meta, secret |-> b.secret] /\ b.secret = [i \in Ids |-> b.secret[i]]
  BY AppliedIs
<1>4. ASSUME NEW i \in Ids
      PROVE  a.secret[i] = b.secret[i]
  <2> DEFINE l == v.meta[i]
             r == s.meta[i]
             p == v.secret[i]
             q == s.secret[i]
             x == a.secret[i]
             y == b.secret[i]
  <2>1. /\ IF Resolve(l, r).kind # "live" THEN x = 0
           ELSE IF RemoteWins(l, r) THEN x = q /\ Resolve(l, r) = r /\ r.kind = "live"
           ELSE Resolve(l, r) = l /\ l.kind = "live" /\ x = IF l = r /\ q > p THEN q ELSE p
        /\ IF Resolve(r, l).kind # "live" THEN y = 0
           ELSE IF RemoteWins(r, l) THEN y = p /\ Resolve(r, l) = l /\ l.kind = "live"
           ELSE Resolve(r, l) = r /\ r.kind = "live" /\ y = IF r = l /\ p > q THEN p ELSE q
    BY SecretKept
  <2>2. /\ Resolve(l, r).kind = Resolve(r, l).kind
        /\ Resolve(l, r).kind = "live" => Resolve(l, r) = Resolve(r, l)
    BY <1>1, ResolveCommutes
  <2>3. p \in Int /\ q \in Int
    BY SnapshotFields DEF WellFormed
  <2>4. l \in Cell /\ r \in Cell
    BY <1>1 DEF Version
  <2> HIDE DEF l, r, p, q, x, y
  <2>5. /\ l.kind = "live" /\ r.kind = "live" =>
             ~(RemoteWins(l, r) /\ RemoteWins(r, l)) /\ (l # r => RemoteWins(l, r) \/ RemoteWins(r, l))
        /\ l = r => ~RemoteWins(l, r)
        /\ l.kind = "live" /\ r.kind # "live" => ~RemoteWins(l, r) /\ RemoteWins(r, l)
        /\ r.kind = "live" /\ l.kind # "live" => ~RemoteWins(r, l) /\ RemoteWins(l, r)
    BY <2>4, NewerStrict DEF RemoteWins
  <2>6. x = y
    <3>1. CASE Resolve(l, r).kind # "live"
      BY <2>1, <2>2, <3>1
    <3>2. CASE Resolve(l, r).kind = "live" /\ l = r
      BY <2>1, <2>2, <2>3, <2>5, <3>2
    <3>3. CASE Resolve(l, r).kind = "live" /\ l # r
      BY <2>1, <2>2, <2>5, <3>3
    <3> QED BY <3>1, <3>2, <3>3
  <2> QED BY <2>6 DEF x, y
<1> HIDE DEF a, b, m, n
<1>5. a.secret = b.secret
  BY <1>3, <1>4
<1>6. \A i \in Ids : Nameless(m[i]) = Nameless(n[i])
  BY <1>2 DEF SameEntries
<1>7. /\ Unnamed(a) = [a EXCEPT !.meta = [i \in Ids |-> Nameless(m[i])]]
      /\ Unnamed(b) = [b EXCEPT !.meta = [i \in Ids |-> Nameless(n[i])]]
  BY <1>3 DEF Unnamed, Nameless
<1>8. [i \in Ids |-> Nameless(m[i])] = [i \in Ids |-> Nameless(n[i])]
  BY <1>6
<1>9. \A z : /\ [a EXCEPT !.meta = z] = [meta |-> z, secret |-> a.secret]
             /\ [b EXCEPT !.meta = z] = [meta |-> z, secret |-> b.secret]
  BY <1>3
<1>10. Unnamed(a) = Unnamed(b)
  BY <1>5, <1>7, <1>8, <1>9
<1> QED BY <1>10 DEF a, b

-----------------------------------------------------------------------------
(* The invariant holds initially, and every step keeps it *)

LEMMA StartSound ==
  ASSUME Init
  PROVE  Sound(Start)
<1> DEFINE s == Start
<1>1. /\ s = [meta |-> s.meta, secret |-> s.secret]
      /\ s.meta = [i \in Ids |-> s.meta[i]] /\ s.secret = [i \in Ids |-> s.secret[i]]
      /\ \A i \in Ids : /\ s.meta[i] = IF i \in DOMAIN Shared THEN LiveCell(0, Shared[i], None) ELSE NoCell
                        /\ s.secret[i] = IF i \in DOMAIN Shared THEN -i ELSE 0
  BY DEF Start
<1> HIDE DEF s
<1>2. \A i \in Ids : i \in Nat /\ i # 0
  BY MergeAssumption
<1>3. None \in Seq(Nat) /\ 0 \in 0..MaxTime
  BY MergeAssumption DEF None
<1>4. ASSUME NEW i \in Ids
      PROVE  /\ Version(s.meta[i])
             /\ i \in DOMAIN Shared <=> s.meta[i].kind = "live"
             /\ i \in DOMAIN Shared => s.meta[i].at = 0 /\ s.meta[i].name = Shared[i]
  <2>1. CASE i \in DOMAIN Shared
    <3>1. s.meta[i] = [kind |-> "live", at |-> 0, name |-> Shared[i], ref |-> None]
      BY <1>1, <2>1 DEF LiveCell
    <3>2. Shared[i] \in Seq(Nat)
      BY <2>1, MergeAssumption
    <3> QED BY <1>3, <2>1, <3>1, <3>2 DEF Version, Cell
  <2>2. CASE i \notin DOMAIN Shared
    <3>1. s.meta[i] = [kind |-> "none", at |-> 0, name |-> None, ref |-> None]
      BY <1>1, <2>2 DEF NoCell
    <3> QED BY <1>3, <2>2, <3>1 DEF Version, Cell, NoCell
  <2> QED BY <2>1, <2>2
<1>5. \A i \in Ids : i \in Live(s.meta) <=> i \in DOMAIN Shared
  BY <1>4 DEF Live
<1>6. s \in Snapshot
  <2>1. \A i \in Ids : s.meta[i] \in Cell /\ s.secret[i] \in Int
    BY <1>1, <1>2, <1>4 DEF Version
  <2> QED BY <1>1, <2>1, IsSnapshot
<1>7. UniqueNames(s.meta)
  BY <1>4, <1>5, MergeAssumption DEF UniqueNames, Live
<1>8. SecretsMatch(s)
  BY <1>1, <1>2, <1>5 DEF SecretsMatch
<1>9. Recorded(s)
  <2>1. written = {<<i, 0, -i>> : i \in DOMAIN Shared}
    BY DEF Init
  <2> QED BY <1>1, <1>4, <2>1 DEF Recorded, Live
<1> QED BY <1>4, <1>6, <1>7, <1>8, <1>9 DEF Sound, WellFormed, s

LEMMA MergeInit == Init => MergeInv
<1> SUFFICES ASSUME Init PROVE MergeInv
  OBVIOUS
<1>1. /\ vault = [d \in Devices |-> Start]
      /\ head # NoSnapshot => head = Start
      /\ edits = 0 /\ now = 1
  BY DEF Init
<1>2. Sound(Start)
  BY StartSound
<1>3. Start \in Snapshot
  BY <1>2 DEF Sound, WellFormed
<1>4. edits \in 0..MaxEdits /\ now \in 1..MaxTime
  BY <1>1, MergeAssumption
<1> HIDE DEF Start
<1> QED BY <1>1, <1>2, <1>3, <1>4 DEF MergeInv

\* Recorded writes stay recorded.
LEMMA SoundStays ==
  ASSUME NEW s, Sound(s), written \subseteq written'
  PROVE  /\ WellFormed(s)
         /\ \A i \in Live(s.meta) : <<i, s.meta[i].at, s.secret[i]>> \in written'
BY DEF Sound, Recorded

\* A step that changes the vault of one device.
LEMMA VaultMoves ==
  ASSUME MergeInv, written \subseteq written', NEW d \in Devices, NEW v, vault' = [vault EXCEPT ![d] = v],
         WellFormed(v), \A i \in Live(v.meta) : <<i, v.meta[i].at, v.secret[i]>> \in written',
         head' = head \/ head' = v, now' = now, edits' \in 0..MaxEdits
  PROVE  MergeInv'
<1>1. /\ vault' \in [Devices -> Snapshot]
      /\ \A e \in Devices : vault'[e] = IF e = d THEN v ELSE vault[e]
  BY DEF MergeInv, WellFormed
<1>2. ASSUME NEW s, Sound(s) \/ s = v
      PROVE  WellFormed(s) /\ \A i \in Live(s.meta) : <<i, s.meta[i].at, s.secret[i]>> \in written'
  BY <1>2, SoundStays
<1>3. \A e \in Devices : Sound(vault'[e]) \/ vault'[e] = v
  BY <1>1 DEF MergeInv
<1>4. \A e \in Devices : /\ WellFormed(vault'[e])
                         /\ \A i \in Live(vault'[e].meta) :
                              <<i, vault'[e].meta[i].at, vault'[e].secret[i]>> \in written'
  BY <1>2, <1>3
<1>5. head' # NoSnapshot =>
        WellFormed(head') /\ \A i \in Live(head'.meta) : <<i, head'.meta[i].at, head'.secret[i]>> \in written'
  BY <1>2 DEF MergeInv
<1> QED BY <1>1, <1>4, <1>5 DEF MergeInv, Sound, Recorded, WellFormed, UniqueNames, SecretsMatch, Live, NoSnapshot,
     Version, NoCell, Cell, Snapshot, None

LEMMA SyncStep ==
  ASSUME MergeInv, NEW d \in Devices, Sync(d)
  PROVE  MergeInv'
<1>1. UNCHANGED <<now, edits, written>>
  BY DEF Sync, Pull, Push
<1>2. CASE head # NoSnapshot /\ vault' = [vault EXCEPT ![d] = Applied(vault[d], head)]
  <2> DEFINE v == Applied(vault[d], head)
  <2>1. Sound(v)
    BY <1>2, AppliedSound DEF MergeInv
  <2>2. vault'[d] = v
    BY <1>2 DEF MergeInv
  <2>3. head' = head \/ head' = v
    BY <2>2 DEF Sync, Pull, Push
  <2>4. vault' = [vault EXCEPT ![d] = v]
    BY <1>2
  <2> HIDE DEF v
  <2> QED BY <1>1, <2>1, <2>3, <2>4, SoundStays, VaultMoves DEF MergeInv
<1>3. CASE UNCHANGED vault /\ head' = vault'[d]
  <2>1. vault' = [vault EXCEPT ![d] = vault[d]] /\ Sound(vault[d]) /\ head' = vault[d]
    BY <1>3 DEF MergeInv
  <2> QED BY <1>1, <2>1, SoundStays, VaultMoves DEF MergeInv
<1> QED BY <1>2, <1>3 DEF Sync, Pull, Push

\* What WriteEntry makes of one vault.
WithEntry(v, i, c, s) == [[v EXCEPT !.meta[i] = c] EXCEPT !.secret[i] = s]

LEMMA SnapshotWritten ==
  ASSUME NEW v, v = [meta |-> v.meta, secret |-> v.secret], NEW i, NEW c, NEW s
  PROVE  WithEntry(v, i, c, s) = [meta |-> [v.meta EXCEPT ![i] = c], secret |-> [v.secret EXCEPT ![i] = s]]
<1> DEFINE p == [v.meta EXCEPT ![i] = c]
           q == [v.secret EXCEPT ![i] = s]
           x == [meta |-> p, secret |-> v.secret]
<1>1. [v EXCEPT !.meta[i] = c] = [v EXCEPT !.meta = p]
  OBVIOUS
<1>2. [v EXCEPT !.meta = p] = x
  <2> HIDE DEF p
  <2> QED OBVIOUS
<1>3. [x EXCEPT !.secret[i] = s] = [x EXCEPT !.secret = q]
  <2> HIDE DEF p
  <2> QED OBVIOUS
<1>4. [x EXCEPT !.secret = q] = [meta |-> p, secret |-> q]
  <2> HIDE DEF p, q
  <2> QED OBVIOUS
<1> HIDE DEF x
<1> QED BY <1>1, <1>2, <1>3, <1>4 DEF WithEntry

\* What a user's write makes of one entry, under a name that no other has.
LEMMA EntryStep ==
  ASSUME MergeInv, NEW d \in Devices, NEW i \in Ids, NEW c, Version(c), c.kind = "live", NEW s \in Int, s # 0,
         \A j \in Live(vault[d].meta) \ {i} : vault[d].meta[j].name # c.name,
         WriteEntry(d, i, c, s), written' = written \union {<<i, c.at, s>>}, UNCHANGED <<head, now>>,
         edits' \in 0..MaxEdits
  PROVE  MergeInv'
<1>0. PICK v : v = vault[d]
  OBVIOUS
<1> DEFINE w == [meta |-> [v.meta EXCEPT ![i] = c], secret |-> [v.secret EXCEPT ![i] = s]]
<1>1. Sound(v) /\ v \in Snapshot /\ v = [meta |-> v.meta, secret |-> v.secret]
  BY <1>0, SnapshotFields DEF MergeInv, Sound, WellFormed
<1>2. vault' = [vault EXCEPT ![d] = w]
  <2>1. vault' = [vault EXCEPT ![d] = WithEntry(v, i, c, s)]
    BY <1>0 DEF WriteEntry, MergeInv, WithEntry
  <2>2. WithEntry(v, i, c, s) = w
    BY <1>1, SnapshotWritten
  <2> QED BY <2>1, <2>2
<1>3. /\ w.meta = [v.meta EXCEPT ![i] = c] /\ w.secret = [v.secret EXCEPT ![i] = s]
      /\ w = [meta |-> w.meta, secret |-> w.secret]
  OBVIOUS
<1>4. v.meta = [j \in Ids |-> v.meta[j]] /\ v.secret = [j \in Ids |-> v.secret[j]]
  BY <1>1, SnapshotFields
<1> HIDE DEF w
<1>5. /\ w.meta = [j \in Ids |-> w.meta[j]] /\ w.secret = [j \in Ids |-> w.secret[j]]
      /\ \A j \in Ids : /\ w.meta[j] = IF j = i THEN c ELSE v.meta[j]
                        /\ w.secret[j] = IF j = i THEN s ELSE v.secret[j]
  BY <1>3, <1>4
<1>6. \A j \in Ids : Version(w.meta[j]) /\ w.secret[j] \in Int
  BY <1>1, <1>5, SnapshotFields DEF Sound, WellFormed
<1>7. w \in Snapshot
  <2>1. \A j \in Ids : w.meta[j] \in Cell
    BY <1>6 DEF Version
  <2> QED BY <1>3, <1>5, <1>6, <2>1, IsSnapshot
<1>8. \A j \in Ids : j \in Live(w.meta) <=> j = i \/ j \in Live(v.meta)
  BY <1>5 DEF Live
<1>9. UniqueNames(w.meta)
  <2>1. UniqueNames(v.meta) /\ \A j \in Live(v.meta) \ {i} : v.meta[j].name # c.name
    BY <1>0, <1>1 DEF Sound, WellFormed
  <2>2. Live(w.meta) \subseteq Ids
    BY DEF Live
  <2> QED BY <1>5, <1>8, <2>1, <2>2 DEF UniqueNames
<1>10. SecretsMatch(w)
  BY <1>1, <1>5, <1>8 DEF Sound, WellFormed, SecretsMatch
<1>11. \A j \in Live(w.meta) : <<j, w.meta[j].at, w.secret[j]>> \in written'
  BY <1>1, <1>5, <1>8 DEF Sound, Recorded, Live
<1>12. WellFormed(w)
  BY <1>6, <1>7, <1>9, <1>10 DEF WellFormed
<1> QED BY <1>2, <1>11, <1>12, VaultMoves

LEMMA LiveCellIs ==
  ASSUME MergeInv, NEW n \in UserNames, NEW r \in RefNames \union {None}
  PROVE  /\ Version(LiveCell(now, n, r)) /\ LiveCell(now, n, r).kind = "live"
         /\ LiveCell(now, n, r).at = now /\ LiveCell(now, n, r).name = n
<1>1. n \in Seq(Nat) /\ now \in 0..MaxTime
  BY MergeAssumption DEF MergeInv
<1> QED BY <1>1 DEF LiveCell, Version, Cell

LEMMA EntryEdited ==
  ASSUME MergeInv, NEW d \in Devices, NEW i \in Ids,
         \/ \E n \in UserNames, r \in RefNames \union {None} : Create(d, i, n, r) \/ Update(d, i, n, r)
         \/ ReplaceSecret(d, i)
  PROVE  MergeInv'
<1> DEFINE m == vault[d].meta
<1>1. UNCHANGED <<head, now>> /\ edits' = edits + 1 /\ edits < MaxEdits
  BY DEF Create, Update, ReplaceSecret, EditedOn
<1>2. edits \in Nat /\ edits' \in 0..MaxEdits /\ edits' \in Int /\ edits' # 0
  BY <1>1, MergeAssumption DEF MergeInv
<1>3. Sound(vault[d]) /\ WellFormed(vault[d]) /\ vault[d] \in Snapshot /\ UniqueNames(m)
  BY DEF MergeInv, Sound, WellFormed
<1>4. /\ i \in Live(m) => vault[d].secret[i] # 0
      /\ vault[d].secret[i] \in Int /\ Version(m[i])
  BY <1>3, SnapshotFields DEF WellFormed, SecretsMatch
<1>5. ASSUME NEW n, NameFree(d, n)
      PROVE  \A j \in Live(m) : m[j].name # n
  BY <1>5 DEF NameFree, NamesOf
<1> HIDE DEF m
<1>6. ASSUME NEW n \in UserNames, NEW r \in RefNames \union {None}, Create(d, i, n, r)
      PROVE  MergeInv'
  <2> DEFINE c == LiveCell(now, n, r)
  <2>1. /\ WriteEntry(d, i, c, edits') /\ written' = written \union {<<i, now, edits'>>}
        /\ NameFree(d, n)
    BY <1>6 DEF Create
  <2>2. Version(c) /\ c.kind = "live" /\ c.at = now /\ c.name = n
    BY LiveCellIs
  <2> HIDE DEF c
  <2>3. \A j \in Live(vault[d].meta) \ {i} : vault[d].meta[j].name # c.name
    BY <1>5, <2>1, <2>2 DEF m
  <2> QED BY <1>1, <1>2, <2>1, <2>2, <2>3, EntryStep
<1>7. ASSUME NEW n \in UserNames, NEW r \in RefNames \union {None}, Update(d, i, n, r)
      PROVE  MergeInv'
  <2> DEFINE c == LiveCell(now, n, r)
             s == vault[d].secret[i]
  <2>1. /\ WriteEntry(d, i, c, s) /\ written' = written \union {<<i, now, s>>}
        /\ i \in Live(m) /\ (n # m[i].name => NameFree(d, n))
    BY <1>7 DEF Update, m
  <2>2. Version(c) /\ c.kind = "live" /\ c.at = now /\ c.name = n
    BY LiveCellIs
  <2>3. s # 0 /\ s \in Int
    BY <1>4, <2>1
  <2> HIDE DEF c, s
  <2>4. \A j \in Live(vault[d].meta) \ {i} : vault[d].meta[j].name # c.name
    BY <1>3, <1>5, <2>1, <2>2 DEF m, UniqueNames
  <2> QED BY <1>1, <1>2, <2>1, <2>2, <2>3, <2>4, EntryStep
<1>8. CASE ReplaceSecret(d, i)
  <2> DEFINE c == [m[i] EXCEPT !.at = now]
  <2>1. WriteEntry(d, i, c, edits') /\ written' = written \union {<<i, now, edits'>>} /\ i \in Live(m)
    BY <1>8 DEF ReplaceSecret, m
  <2>2. m[i] \in Cell /\ m[i].kind = "live"
    BY <1>4, <2>1 DEF Version, Live
  <2>3. c = [kind |-> "live", at |-> now, name |-> m[i].name, ref |-> m[i].ref]
    <3>1. m[i] = [kind |-> "live", at |-> m[i].at, name |-> m[i].name, ref |-> m[i].ref]
      BY <2>2, CellFields
    <3> QED BY <3>1
  <2>4. m[i].name \in Seq(Nat) /\ m[i].ref \in RefNames \union {None} /\ now \in 0..MaxTime
    BY <2>2, CellFields, MergeAssumption DEF MergeInv
  <2>5. Version(c) /\ c.kind = "live" /\ c.at = now /\ c.name = m[i].name
    BY <2>3, <2>4 DEF Version, Cell
  <2> HIDE DEF c
  <2>6. \A j \in Live(vault[d].meta) \ {i} : vault[d].meta[j].name # c.name
    BY <1>3, <2>1, <2>5 DEF m, UniqueNames
  <2> QED BY <1>1, <1>2, <2>1, <2>5, <2>6, EntryStep
<1> QED BY <1>6, <1>7, <1>8

LEMMA Unlinked ==
  ASSUME NEW x, Version(x), x.kind = "live"
  PROVE  /\ Version([x EXCEPT !.ref = None])
         /\ [x EXCEPT !.ref = None].kind = x.kind /\ [x EXCEPT !.ref = None].at = x.at
         /\ [x EXCEPT !.ref = None].name = x.name
<1>1. x \in Cell
  BY DEF Version
<1>2. [x EXCEPT !.ref = None] = [kind |-> x.kind, at |-> x.at, name |-> x.name, ref |-> None]
  BY <1>1, CellFields
<1>3. x.at \in 0..MaxTime /\ x.name \in Seq(Nat)
  BY <1>1, CellFields
<1> QED BY <1>2, <1>3 DEF Version, Cell

\* A deletion buries its entry, and keeps kind, time and name of the others.
Deletes(w, d, i) ==
  /\ vault' = [vault EXCEPT ![d] = w]
  /\ w \in Snapshot
  /\ w.secret = [vault[d].secret EXCEPT ![i] = 0]
  /\ \A j \in Ids : /\ Version(w.meta[j])
                    /\ w.meta[j].kind = IF j = i THEN "tombstone" ELSE vault[d].meta[j].kind
                    /\ j # i => w.meta[j].at = vault[d].meta[j].at /\ w.meta[j].name = vault[d].meta[j].name

LEMMA Deleted ==
  ASSUME MergeInv, NEW d \in Devices, NEW i \in Ids, Delete(d, i)
  PROVE  \E w : Deletes(w, d, i)
<1>0. PICK v : v = vault[d]
  OBVIOUS
<1> DEFINE unlinked == [j \in Ids |-> IF v.meta[j].kind = "live" /\ v.meta[j].ref = v.meta[i].name
                                      THEN [v.meta[j] EXCEPT !.ref = None] ELSE v.meta[j]]
           x == [unlinked EXCEPT ![i] = Tombstone(now, v.meta[i].name)]
           y == [v.secret EXCEPT ![i] = 0]
           w == [meta |-> x, secret |-> y]
<1>1. /\ Sound(v) /\ v \in Snapshot /\ v = [meta |-> v.meta, secret |-> v.secret]
      /\ vault \in [Devices -> Snapshot]
  BY <1>0, SnapshotFields DEF MergeInv, Sound, WellFormed
<1>2. vault' = [vault EXCEPT ![d].meta = x, ![d].secret[i] = 0]
  BY <1>0 DEF Delete
<1>3. /\ x = [j \in Ids |-> x[j]]
      /\ \A j \in Ids : x[j] = IF j = i THEN Tombstone(now, v.meta[i].name)
                               ELSE IF v.meta[j].kind = "live" /\ v.meta[j].ref = v.meta[i].name
                               THEN [v.meta[j] EXCEPT !.ref = None] ELSE v.meta[j]
  OBVIOUS
<1>4. /\ v.secret = [j \in Ids |-> v.secret[j]] /\ \A j \in Ids : v.secret[j] \in Int
      /\ \A j \in Ids : Version(v.meta[j])
  BY <1>1, SnapshotFields DEF Sound, WellFormed
<1>5. y = [j \in Ids |-> y[j]] /\ \A j \in Ids : y[j] = IF j = i THEN 0 ELSE v.secret[j]
  BY <1>4
<1> HIDE DEF x, unlinked
<1>6. vault' = [vault EXCEPT ![d] = w]
  <2>1. vault' = [vault EXCEPT ![d] = [[v EXCEPT !.meta = x] EXCEPT !.secret[i] = 0]]
    BY <1>0, <1>1, <1>2
  <2>2. [v EXCEPT !.meta = x] = [meta |-> x, secret |-> v.secret]
    BY <1>1
  <2>3. [[meta |-> x, secret |-> v.secret] EXCEPT !.secret[i] = 0] = w
    OBVIOUS
  <2> QED BY <2>1, <2>2, <2>3
<1>7. w.meta = x /\ w.secret = y
  OBVIOUS
<1>8. ASSUME NEW j \in Ids
      PROVE  /\ Version(x[j])
             /\ x[j].kind = IF j = i THEN "tombstone" ELSE v.meta[j].kind
             /\ j # i => x[j].at = v.meta[j].at /\ x[j].name = v.meta[j].name
  <2>1. CASE j = i
    <3>1. x[j] = [kind |-> "tombstone", at |-> now, name |-> v.meta[i].name, ref |-> None]
      BY <1>3, <2>1 DEF Tombstone
    <3>2. v.meta[i].name \in Seq(Nat) /\ now \in 0..MaxTime
      BY <1>4, CellFields, MergeAssumption DEF Version, MergeInv
    <3> QED BY <2>1, <3>1, <3>2 DEF Version, Cell
  <2>2. CASE j # i
    <3> DEFINE z == [v.meta[j] EXCEPT !.ref = None]
    <3>1. v.meta[j].kind = "live" =>
            Version(z) /\ z.kind = v.meta[j].kind /\ z.at = v.meta[j].at /\ z.name = v.meta[j].name
      BY <1>4, Unlinked
    <3>2. (x[j] = z /\ v.meta[j].kind = "live") \/ x[j] = v.meta[j]
      BY <1>3, <2>2
    <3> HIDE DEF z
    <3> QED BY <1>4, <2>2, <3>1, <3>2
  <2> QED BY <2>1, <2>2
<1>9. w \in Snapshot
  <2>1. \A j \in Ids : x[j] \in Cell /\ y[j] \in Int
    BY <1>4, <1>5, <1>8 DEF Version
  <2> QED BY <1>3, <1>5, <2>1, IsSnapshot
<1> HIDE DEF w, y
<1>10. w.secret = [vault[d].secret EXCEPT ![i] = 0]
  BY <1>0, <1>7 DEF y
<1>11. \A j \in Ids : /\ Version(w.meta[j])
                      /\ w.meta[j].kind = IF j = i THEN "tombstone" ELSE vault[d].meta[j].kind
                      /\ j # i => /\ w.meta[j].at = vault[d].meta[j].at
                                  /\ w.meta[j].name = vault[d].meta[j].name
  BY <1>0, <1>7, <1>8
<1> QED BY <1>6, <1>9, <1>10, <1>11 DEF Deletes

LEMMA DeleteStep ==
  ASSUME MergeInv, NEW d \in Devices, NEW i \in Ids, Delete(d, i)
  PROVE  MergeInv'
<1>0. PICK w : Deletes(w, d, i)
  BY Deleted
<1>1. /\ vault' = [vault EXCEPT ![d] = w]
      /\ w \in Snapshot
      /\ w.secret = [vault[d].secret EXCEPT ![i] = 0]
      /\ \A j \in Ids : /\ Version(w.meta[j])
                        /\ w.meta[j].kind = IF j = i THEN "tombstone" ELSE vault[d].meta[j].kind
                        /\ j # i => w.meta[j].at = vault[d].meta[j].at /\ w.meta[j].name = vault[d].meta[j].name
  BY <1>0 DEF Deletes
<1>2. PICK v : v = vault[d]
  OBVIOUS
<1>3. Sound(v) /\ v \in Snapshot
  BY <1>2 DEF MergeInv, Sound, WellFormed
<1>4. \A j \in Ids : w.secret[j] = IF j = i THEN 0 ELSE v.secret[j]
  <2>1. v.secret = [j \in Ids |-> v.secret[j]] /\ w.secret = [v.secret EXCEPT ![i] = 0]
    BY <1>1, <1>2, <1>3, SnapshotFields
  <2> QED BY <2>1
<1>5. \A j \in Ids : j \in Live(w.meta) <=> j # i /\ j \in Live(v.meta)
  BY <1>1, <1>2 DEF Live
<1>6. UniqueNames(w.meta)
  BY <1>1, <1>2, <1>3, <1>5 DEF Sound, WellFormed, UniqueNames, Live
<1>7. SecretsMatch(w)
  BY <1>3, <1>4, <1>5 DEF Sound, WellFormed, SecretsMatch
<1>8. UNCHANGED <<head, now, written>> /\ edits' = edits + 1 /\ edits < MaxEdits
  BY DEF Delete, EditedOn
<1>9. \A j \in Live(w.meta) : <<j, w.meta[j].at, w.secret[j]>> \in written'
  BY <1>1, <1>2, <1>3, <1>4, <1>5, <1>8 DEF Sound, Recorded, Live
<1>10. edits' \in 0..MaxEdits
  BY <1>8, MergeAssumption DEF MergeInv
<1>11. WellFormed(w)
  BY <1>1, <1>6, <1>7 DEF WellFormed
<1> QED BY <1>1, <1>8, <1>9, <1>10, <1>11, VaultMoves

\* Every reachable vault and snapshot is sound: its versions and names are what
\* the store accepts, a secret is there for exactly the live entries, and it is
\* the one that was written with the version.
THEOREM MergeInductive == Spec => []MergeInv
<1>1. MergeInv /\ [Next]_vars => MergeInv'
  <2>1. CASE UNCHANGED vars
    BY <2>1 DEF vars, MergeInv, Sound, WellFormed, Recorded, SecretsMatch, UniqueNames, Live, NoSnapshot,
                Version, Snapshot, Cell, NoCell, None
  <2>2. ASSUME MergeInv, Tick
        PROVE  MergeInv'
    <3>1. now' \in 1..MaxTime
      BY <2>2, MergeAssumption DEF Tick, MergeInv
    <3>2. UNCHANGED <<vault, head, edits, written>>
      BY <2>2 DEF Tick
    <3> QED BY <2>2, <3>1, <3>2 DEF MergeInv, Sound, WellFormed, Recorded, SecretsMatch, UniqueNames, Live,
                                    NoSnapshot, Version, Snapshot, Cell, NoCell, None
  <2> QED BY <2>1, <2>2, SyncStep, EntryEdited, DeleteStep DEF Next, UserStep
<1> QED BY <1>1, MergeInit, PTL DEF Spec

-----------------------------------------------------------------------------
(* The properties *)

\* Whichever of two devices merges the other's vault, both see a reference
\* conflict or both get the same vault: merge() decides by time, content and
\* secret, and never by which side is the local one.
THEOREM MergeCommutesHolds == Spec => []MergeCommutes
<1>1. MergeInv => MergeCommutes
  <2> SUFFICES ASSUME MergeInv, NEW d \in Devices, NEW e \in Devices
               PROVE  /\ Conflict(vault[d].meta, vault[e].meta) <=> Conflict(vault[e].meta, vault[d].meta)
                      /\ Unnamed(Applied(vault[d], vault[e])) = Unnamed(Applied(vault[e], vault[d]))
    BY DEF MergeCommutes
  <2>1. WellFormed(vault[d]) /\ WellFormed(vault[e])
    BY DEF MergeInv, Sound
  <2>2. \A i \in Ids : Version(vault[d].meta[i]) /\ Version(vault[e].meta[i])
    BY <2>1 DEF WellFormed
  <2> QED BY <2>1, <2>2, ConflictCommutes, AppliedCommutes
<1> QED BY <1>1, MergeInductive, PTL

\* What merge() and _apply_payload make of two vaults is well formed, with
\* unique names, the same on either side, and no version ever gets the secret
\* of another.
THEOREM MergeSoundHolds == Spec => []MergeSound
<1>1. MergeInv => TypeOK
  BY DEF MergeInv, TypeOK, Sound, WellFormed, SecretsMatch, UniqueNames
<1>2. MergeInv => SecretOfTheVersion
  BY DEF MergeInv, Sound, Recorded, SecretOfTheVersion
<1> QED BY <1>1, <1>2, MergeInductive, MergeCommutesHolds, PTL DEF MergeSound

\* A write changes one entry of one vault.
LEMMA WriteIsLocal ==
  ASSUME MergeInv, NEW d \in Devices, NEW i \in Ids, NEW c, NEW s, WriteEntry(d, i, c, s),
         NEW e \in Devices, NEW j \in Ids
  PROVE  vault'[e].meta[j] = IF e = d /\ j = i THEN c ELSE vault[e].meta[j]
<1>0. PICK v : v = vault[d]
  OBVIOUS
<1>1. v = [meta |-> v.meta, secret |-> v.secret] /\ v.meta = [k \in Ids |-> v.meta[k]]
  <2>1. v \in Snapshot
    BY <1>0 DEF MergeInv
  <2> QED BY <2>1, SnapshotFields
<1>2. vault' = [vault EXCEPT ![d] = WithEntry(v, i, c, s)]
  BY <1>0 DEF WriteEntry, MergeInv, WithEntry
<1>3. WithEntry(v, i, c, s).meta = [v.meta EXCEPT ![i] = c]
  BY <1>1, SnapshotWritten
<1>4. vault'[e] = IF e = d THEN WithEntry(v, i, c, s) ELSE vault[e]
  BY <1>2 DEF MergeInv
<1> QED BY <1>0, <1>1, <1>3, <1>4

LEMMA SyncedMeta ==
  ASSUME MergeInv, NEW d \in Devices, Sync(d), NEW e \in Devices
  PROVE  \/ vault'[e] = vault[e]
         \/ /\ e = d /\ head # NoSnapshot
            /\ ~Conflict(vault[d].meta, head.meta)
            /\ vault'[e].meta = Merged(vault[d].meta, head.meta)
<1>1. CASE UNCHANGED vault
  BY <1>1
<1>2. CASE /\ head # NoSnapshot /\ ~Conflict(vault[d].meta, head.meta)
           /\ vault' = [vault EXCEPT ![d] = Applied(vault[d], head)]
  <2>1. Applied(vault[d], head).meta = Merged(vault[d].meta, head.meta)
    BY AppliedIs
  <2> QED BY <1>2, <2>1 DEF MergeInv
<1> QED BY <1>1, <1>2 DEF Sync, Pull, Push

\* A deleted entry lives on only where it was written in a later second than
\* the device knows it to be deleted in: merge() compares each live version
\* with the latest tombstone, and a new entry has a new id.
THEOREM NoResurrectionHolds == Spec => NoResurrection
<1> DEFINE A == \A d \in Devices, i \in Ids :
                  /\ vault[d].meta[i].kind = "tombstone"
                  /\ vault'[d].meta[i].kind = "live"
                  => vault'[d].meta[i].at > vault[d].meta[i].at
<1>1. MergeInv /\ Next => A
  <2> SUFFICES ASSUME MergeInv, Next, NEW e \in Devices, NEW j \in Ids,
                      vault[e].meta[j].kind = "tombstone", vault'[e].meta[j].kind = "live"
               PROVE  vault'[e].meta[j].at > vault[e].meta[j].at
    OBVIOUS
  <2>1. CASE Tick
    BY <2>1 DEF Tick
  <2>2. ASSUME NEW d \in Devices, Sync(d)
        PROVE  vault'[e].meta[j].at > vault[e].meta[j].at
    <3>1. e = d /\ head # NoSnapshot /\ vault'[e].meta = Merged(vault[d].meta, head.meta)
      BY <2>2, SyncedMeta
    <3>2. \A i \in Ids : Version(vault[d].meta[i]) /\ Version(head.meta[i])
      BY <3>1 DEF MergeInv, Sound, WellFormed
    <3>3. /\ vault'[e].meta[j].kind = Resolve(vault[d].meta[j], head.meta[j]).kind
          /\ vault'[e].meta[j].at = Resolve(vault[d].meta[j], head.meta[j]).at
      BY <3>1, <3>2, MergedIs
    <3> QED BY <3>1, <3>2, <3>3, ResolveIs
  <2>3. ASSUME NEW d \in Devices, NEW i \in Ids, NEW c, NEW s, WriteEntry(d, i, c, s),
               vault[d].meta[i].kind # "tombstone"
        PROVE  FALSE
    BY <2>3, WriteIsLocal
  <2>4. ASSUME NEW d \in Devices, NEW i \in Ids, NEW n, NEW r, Create(d, i, n, r)
        PROVE  FALSE
    BY <2>3, <2>4 DEF Create, NoCell
  <2>5. ASSUME NEW d \in Devices, NEW i \in Ids, NEW n, NEW r, Update(d, i, n, r)
        PROVE  FALSE
    BY <2>3, <2>5 DEF Update, Live
  <2>6. ASSUME NEW d \in Devices, NEW i \in Ids, ReplaceSecret(d, i)
        PROVE  FALSE
    BY <2>3, <2>6 DEF ReplaceSecret, Live
  <2>7. ASSUME NEW d \in Devices, NEW i \in Ids, Delete(d, i)
        PROVE  FALSE
    <3>1. PICK w : Deletes(w, d, i)
      BY <2>7, Deleted
    <3>2. vault'[e] = IF e = d THEN w ELSE vault[e]
      BY <3>1 DEF MergeInv, Deletes
    <3>3. w.meta[j].kind = IF j = i THEN "tombstone" ELSE vault[d].meta[j].kind
      BY <3>1 DEF Deletes
    <3> QED BY <3>2, <3>3
  <2> QED BY <2>1, <2>2, <2>4, <2>5, <2>6, <2>7 DEF Next, UserStep
<1>2. MergeInv /\ [Next]_vars => [A]_vars
  BY <1>1
<1>3. Spec => [][A]_vars
  BY <1>2, MergeInductive, PTL DEF Spec
<1> QED BY <1>3 DEF NoResurrection

\* A merge never turns a reference that stays on a device to another entry,
\* nor a dangling one to any entry: _require_reference_bindings looks at every
\* reference that either side already had.
THEOREM ReferencesKeepTargetHolds == Spec => ReferencesKeepTarget
<1> DEFINE A == edits' = edits =>
                  \A d \in Devices : \A i \in Live(vault[d].meta) \cap Live(vault'[d].meta) :
                    LET r == vault[d].meta[i].ref
                    IN  r # None /\ vault'[d].meta[i].ref = r
                        => Target(vault'[d].meta, r) = Target(vault[d].meta, r)
<1>1. MergeInv /\ Next => A
  <2> SUFFICES ASSUME MergeInv, Next, edits' = edits, NEW e \in Devices,
                      NEW i \in Live(vault[e].meta) \cap Live(vault'[e].meta),
                      vault[e].meta[i].ref # None, vault'[e].meta[i].ref = vault[e].meta[i].ref
               PROVE  Target(vault'[e].meta, vault[e].meta[i].ref) = Target(vault[e].meta, vault[e].meta[i].ref)
    OBVIOUS
  <2>1. ~UserStep
    <3>1. edits + 1 # edits
      BY MergeAssumption DEF MergeInv
    <3>2. \A d : ~EditedOn(d)
      BY <3>1 DEF EditedOn
    <3>3. ASSUME NEW d, NEW j, NEW n, NEW r
          PROVE  ~Create(d, j, n, r) /\ ~Update(d, j, n, r)
      BY <3>2 DEF Create, Update
    <3>4. ASSUME NEW d, NEW j
          PROVE  ~ReplaceSecret(d, j) /\ ~Delete(d, j)
      BY <3>2 DEF ReplaceSecret, Delete
    <3> QED BY <3>3, <3>4 DEF UserStep
  <2>2. CASE UNCHANGED vault
    BY <2>2
  <2>3. ASSUME NEW d \in Devices, Sync(d), vault'[e] # vault[e]
        PROVE  Target(vault'[e].meta, vault[e].meta[i].ref) = Target(vault[e].meta, vault[e].meta[i].ref)
    <3>1. /\ e = d /\ ~Conflict(vault[d].meta, head.meta)
          /\ vault'[e].meta = Merged(vault[d].meta, head.meta)
      BY <2>3, SyncedMeta
    <3>2. ~RebindsReference(vault'[e].meta, vault[e].meta, head.meta)
      BY <3>1 DEF Conflict
    <3>3. vault[e].meta[i].kind = "live"
      BY DEF Live
    <3> QED BY <3>2, <3>3 DEF RebindsReference
  <2> QED BY <2>1, <2>2, <2>3 DEF Next, Tick
<1>2. MergeInv /\ [Next]_vars => [A]_vars
  BY <1>1
<1>3. Spec => [][A]_vars
  BY <1>2, MergeInductive, PTL DEF Spec
<1> QED BY <1>3 DEF ReferencesKeepTarget
=============================================================================
