--------------------------- MODULE KeyedLayoutProofs ---------------------------
EXTENDS KeyedLayout, FiniteSetTheorems, TLAPS

-----------------------------------------------------------------------------
(* Least and greatest numbers, and places in a set of keys.                *)

LEMMA MinOf ==
  ASSUME NEW S, S \subseteq Nat, S # {}
  PROVE  \E n \in S : \A k \in S : n <= k
<1>1. PICK n \in S : \A m \in S : ~(<<m, n>> \in OpToRel(<, Nat))
  BY NatLessThanWellFounded, WFMin
<1>2. \A m \in S : ~(m < n)
  BY <1>1 DEF OpToRel
<1> QED
  BY <1>2

LEMMA MaxOf ==
  ASSUME NEW S, S \subseteq Nat, S # {}, NEW n \in Nat, \A k \in S : k <= n
  PROVE  Max(S) \in S /\ \A k \in S : k <= Max(S)
<1> DEFINE D == {d \in Nat : \E k \in S : d = n - k}
<1>1. D \subseteq Nat /\ D # {}
  <2>1. PICK k \in S : TRUE
    OBVIOUS
  <2>2. n - k \in Nat
    OBVIOUS
  <2> QED
    BY <2>1, <2>2
<1>2. PICK d \in D : \A e \in D : d <= e
  <2> HIDE DEF D
  <2> QED
    BY <1>1, MinOf
<1>3. PICK m \in S : d = n - m
  BY <1>2
<1>4. \A k \in S : k <= m
  <2> SUFFICES ASSUME NEW k \in S PROVE k <= m
    OBVIOUS
  <2>1. n - k \in D
    OBVIOUS
  <2>2. n - m <= n - k
    BY <1>2, <1>3, <2>1
  <2> QED
    BY <2>2
<1> QED
  BY <1>4 DEF Max

\* The place of a key in a set of keys.
Rank(ks, k) == Cardinality({j \in ks : j <= k})

LEMMA RankBound ==
  ASSUME NEW ks, IsFiniteSet(ks), ks \subseteq Nat, NEW k \in ks
  PROVE  Rank(ks, k) \in Nat /\ Rank(ks, k) >= 1 /\ Rank(ks, k) <= Cardinality(ks)
         /\ Cardinality(ks) \in Nat
<1> DEFINE T == {j \in ks : j <= k}
<1>1. T \in SUBSET ks /\ k \in T
  OBVIOUS
<1>2. IsFiniteSet(T) /\ Cardinality(T) <= Cardinality(ks) /\ Cardinality(T) \in Nat /\ Cardinality(ks) \in Nat
  BY <1>1, FS_Subset, FS_CardinalityType
<1>3. Cardinality(T) # 0
  BY <1>1, <1>2, FS_EmptySet
<1> QED
  BY <1>2, <1>3 DEF Rank

LEMMA RankLess ==
  ASSUME NEW ks, IsFiniteSet(ks), ks \subseteq Nat, NEW j \in ks, NEW k \in ks, j < k
  PROVE  Rank(ks, j) < Rank(ks, k)
<1> DEFINE S == {i \in ks : i <= j}
           T == {i \in ks : i <= k}
<1>a. \A i \in ks : i <= j => i <= k
  OBVIOUS
<1>b. j \in Nat /\ k \in Nat
  OBVIOUS
<1>c. k \in T /\ k \notin S
  BY <1>b
<1>1. S \in SUBSET T /\ T \in SUBSET ks /\ k \in T /\ k \notin S
  BY <1>a, <1>c
<1>2. IsFiniteSet(T)
  BY <1>1, FS_Subset
<1>3. Cardinality(S) <= Cardinality(T) /\ Cardinality(S) # Cardinality(T)
  BY <1>1, <1>2, FS_Subset
<1>4. Cardinality(S) \in Nat /\ Cardinality(T) \in Nat
  BY <1>1, <1>2, FS_Subset, FS_CardinalityType
<1> QED
  BY <1>3, <1>4 DEF Rank

\* Keys that come first keep their places, the others come after them all.
LEMMA RankPrefix ==
  ASSUME NEW ks, IsFiniteSet(ks), ks \subseteq Nat, NEW A, NEW B, ks = A \cup B,
         \A a \in A, b \in B : a < b
  PROVE  /\ \A a \in A : Rank(ks, a) = Rank(A, a)
         /\ \A b \in B : Rank(ks, b) = Cardinality(A) + Rank(B, b)
         /\ IsFiniteSet(A) /\ IsFiniteSet(B) /\ Cardinality(A) \in Nat
<1>1. IsFiniteSet(A) /\ IsFiniteSet(B) /\ Cardinality(A) \in Nat
  BY FS_Subset, FS_CardinalityType
<1>2. ASSUME NEW a \in A PROVE Rank(ks, a) = Rank(A, a)
  <2>1. {j \in ks : j <= a} = {j \in A : j <= a}
    OBVIOUS
  <2> QED
    BY <2>1 DEF Rank
<1>3. ASSUME NEW b \in B PROVE Rank(ks, b) = Cardinality(A) + Rank(B, b)
  <2> DEFINE T == {j \in B : j <= b}
  <2>1. {j \in ks : j <= b} = A \cup T
    OBVIOUS
  <2>2. A \cap T = {} /\ IsFiniteSet(T)
    BY <1>1, FS_Subset
  <2>3. Cardinality(A \cup T) = Cardinality(A) + Cardinality(T) - Cardinality(A \cap T)
    BY <1>1, <2>2, FS_Union
  <2>4. Cardinality(A \cap T) = 0 /\ Cardinality(T) \in Nat
    BY <2>2, FS_EmptySet, FS_CardinalityType
  <2>5. Rank(ks, b) = Cardinality(A \cup T) /\ Rank(B, b) = Cardinality(T)
    BY <2>1 DEF Rank
  <2> HIDE DEF T
  <2> QED
    BY <1>1, <2>3, <2>4, <2>5
<1> QED
  BY <1>1, <1>2, <1>3

-----------------------------------------------------------------------------
(* Views.                                                                  *)

\* A layer list the operators on it are defined for.
Bounded(ls) == \E n \in Nat : \A l \in ls : l.seq \in 0 .. n /\ l.nth \in 0 .. n

LEMMA TopOf ==
  ASSUME NEW m, m.seq \in Nat, Bounded(m.layers)
  PROVE  /\ TopSeq(m) \in Nat /\ TopSeq(m) >= m.seq
         /\ \A l \in m.layers : l.seq <= TopSeq(m)
         /\ TopSeq(m) = m.seq \/ \E l \in m.layers : l.seq = TopSeq(m)
<1>1. PICK n \in Nat : \A l \in m.layers : l.seq \in 0 .. n
  BY DEF Bounded
<1> DEFINE S == {m.seq} \cup {l.seq : l \in m.layers}
<1>2. S \subseteq Nat /\ S # {}
  BY <1>1
<1>3. n + m.seq \in Nat /\ \A k \in S : k <= n + m.seq
  BY <1>1
<1>4. Max(S) \in S /\ \A k \in S : k <= Max(S)
  <2> HIDE DEF S
  <2> QED
    BY <1>2, <1>3, MaxOf
<1> QED
  BY <1>2, <1>4 DEF TopSeq

\* Pending objects on top of a view that ends at a sequence.
Stacked(top, pd, ks) ==
    {[CommitLayer(pd[k]) EXCEPT !.seq = top + Rank(ks, k)] : k \in ks}

NewPacks(pd, ks) == {CommitPack(c) : c \in {pd[k] : k \in ks} \ Placed}

Viewed(m, pd, ks) ==
    [m EXCEPT !.layers = @ \cup Stacked(TopSeq(m), pd, ks),
              !.packs = @ \cup NewPacks(pd, ks)]

LEMMA PendingView ==
  ASSUME NEW m, NEW keys
  PROVE  /\ WithPending(m, keys) = Viewed(m, pending, Unfolded(m, keys))
         /\ Unfolded(m, keys) \subseteq keys \ m.folded
  BY DEF WithPending, Viewed, Stacked, NewPacks, Rank, Unfolded

\* No pending object of a set is one the view has, or twice.
Apart(m, pd, ks) ==
    /\ \A k \in ks : pd[k] \notin LayerIds(m)
    /\ \A j, k \in ks : pd[j] = pd[k] => j = k

LEMMA AllUnfolded ==
  ASSUME NEW m, NEW keys \in SUBSET Nat, Apart(m, pending, keys \ m.folded)
  PROVE  Unfolded(m, keys) = keys \ m.folded
<1>1. ASSUME NEW k \in keys \ m.folded PROVE k \in Unfolded(m, keys)
  <2>1. \A j \in keys \ m.folded : pending[j] = pending[k] => k <= j
    <3> SUFFICES ASSUME NEW j \in keys \ m.folded, pending[j] = pending[k] PROVE k <= j
      OBVIOUS
    <3>1. k = j /\ j \in Nat
      BY DEF Apart
    <3> QED
      BY <3>1
  <2>2. pending[k] \notin LayerIds(m)
    BY DEF Apart
  <2> QED
    BY <2>1, <2>2 DEF Unfolded
<1> QED
  BY <1>1 DEF Unfolded

\* Two layers in one place have no key in common.
Sorted(ls) ==
    \A l, j \in ls : l # j /\ l.seq = j.seq /\ l.nth = j.nth => DOMAIN l.at \cap DOMAIN j.at = {}

LEMMA NewestIs ==
  ASSUME NEW ls, Sorted(ls), Bounded(ls), NEW k, \E l \in ls : k \in DOMAIN l.at
  PROVE  LET l == NewestWith(ls, k) IN
         l \in ls /\ k \in DOMAIN l.at /\ \A j \in ls : k \in DOMAIN j.at => j = l \/ Newer(l, j)
<1> DEFINE has == {l \in ls : k \in DOMAIN l.at}
           S == {l.seq : l \in has}
<1>1. PICK n \in Nat : \A l \in ls : l.seq \in 0 .. n /\ l.nth \in 0 .. n
  BY DEF Bounded
<1>2. Max(S) \in S /\ \A s \in S : s <= Max(S)
  <2>1. S \subseteq Nat /\ S # {} /\ \A s \in S : s <= n
    BY <1>1
  <2> HIDE DEF S
  <2> QED
    BY <2>1, MaxOf
<1> DEFINE T == {l.nth : l \in {j \in has : j.seq = Max(S)}}
<1>3. PICK t \in T : \A u \in T : t <= u
  <2>1. PICK l \in has : l.seq = Max(S)
    BY <1>2
  <2>2. ASSUME NEW t \in T PROVE t \in Nat
    <3>1. PICK j \in has : t = j.nth
      OBVIOUS
    <3> QED
      BY <1>1, <3>1
  <2>3. l.nth \in T
    BY <2>1
  <2> HIDE DEF T
  <2> QED
    BY <2>2, <2>3, MinOf
<1>4. PICK l \in has : l.seq = Max(S) /\ l.nth = t
  BY <1>3
<1>5. ASSUME NEW j \in ls, k \in DOMAIN j.at PROVE j = l \/ Newer(l, j)
  <2>1. j \in has /\ j.seq <= l.seq /\ j.seq \in Nat /\ l.seq \in Nat /\ j.nth \in Nat /\ l.nth \in Nat
    BY <1>1, <1>2, <1>4, <1>5
  <2>2. CASE j.seq < l.seq
    BY <2>1, <2>2 DEF Newer
  <2>3. CASE j.seq = l.seq
    <3>1. l.nth <= j.nth
      BY <1>3, <1>4, <2>1, <2>3
    <3>2. CASE l.nth < j.nth
      BY <2>1, <2>3, <3>2 DEF Newer
    <3>3. CASE l.nth = j.nth
      BY <1>4, <1>5, <2>3, <3>3 DEF Sorted
    <3> QED
      BY <2>1, <3>1, <3>2, <3>3
  <2> QED
    BY <2>1, <2>2, <2>3
<1> HIDE DEF has
<1>6. l \in ls /\ k \in DOMAIN l.at
  BY <1>4 DEF has
<1> QED
  BY <1>5, <1>6 DEF NewestWith

\* The end of a list.
LEMMA EndIs ==
  ASSUME NEW ls, Bounded(ls), NEW s
  PROVE  EndOf(ls, s) \in Nat /\ \A j \in ls : j.seq = s => j.nth < EndOf(ls, s)
<1> DEFINE S == {0} \cup {j.nth + 1 : j \in {i \in ls : i.seq = s}}
<1>1. PICK n \in Nat : \A j \in ls : j.seq \in 0 .. n /\ j.nth \in 0 .. n
  BY DEF Bounded
<1>2. Max(S) \in S /\ \A k \in S : k <= Max(S)
  <2>1. S \subseteq Nat /\ S # {}
    BY <1>1
  <2>2. n + 1 \in Nat /\ \A k \in S : k <= n + 1
    BY <1>1
  <2> HIDE DEF S
  <2> QED
    BY <2>1, <2>2, MaxOf
<1>3. Max(S) \in Nat
  BY <1>1, <1>2
<1>4. \A j \in ls : j.seq = s => j.nth < Max(S)
  <2> SUFFICES ASSUME NEW j \in ls, j.seq = s PROVE j.nth < Max(S)
    OBVIOUS
  <2>1. j.nth \in Nat /\ j.nth + 1 \in S
    BY <1>1
  <2>2. j.nth + 1 <= Max(S)
    BY <1>2, <2>1
  <2> HIDE DEF S
  <2> QED
    BY <1>3, <2>1, <2>2
<1> QED
  BY <1>3, <1>4 DEF EndOf

-----------------------------------------------------------------------------
(* Types.                                                                  *)

Things == {Layer(id) : id \in Ids} \cup {Pack(id) : id \in Ids}
Ats == UNION {[S -> Ids] : S \in SUBSET Keys}
LayerRec == [id : Ids, run : Ids, seq : Nat, nth : Nat, at : Ats]
PackRec == [id : Ids, tier : Nat, keys : SUBSET Keys]
ManifestRec ==
    [seq : Nat, layers : SUBSET LayerRec, packs : SUBSET PackRec, retired : SUBSET Things,
     folded : SUBSET Nat, adopted : SUBSET Placed]
ChangeRec ==
    [oldLayers : SUBSET Ids, oldPacks : SUBSET Ids, newLayers : SUBSET LayerRec,
     newPacks : SUBSET PackRec, keepSeq : BOOLEAN, forget : SUBSET Things, adopts : SUBSET Placed]
JobRec == [plan : Nat, range : Nat \cup DOMAIN Ranges]
Steps ==
    {"append", "list", "put", "save", "done", "update", "claim", "clear", "idle", "break", "layers", "packs",
     "pass", "sweep", "release", "dropAll", "dropping", "range", "write", "count", "swap", "results"}
ProcRec ==
    [pc : Steps, change : ChangeRec, then : Steps, base : ManifestRec, listed : SUBSET (Nat \cup Things),
     job : JobRec, more : BOOLEAN]
PlanRec ==
    [layers : SUBSET LayerRec, seq : Nat, there : BOOLEAN, old : BOOLEAN, claimed : BOOLEAN,
     result : [DOMAIN Ranges -> SUBSET LayerRec], done : SUBSET DOMAIN Ranges]

N == Len(KeysOf)
Workers == Maintainers \cup Mergers
Changing(r) == r.pc \in {"update", "claim"}

\* What a process is changing: a commit lists its packs; a maintain job swaps a run in, or a
\* pack, or forgets what it deleted; a merge's job swaps the parts of its run in.
Adopting(ch, c) == ch = [NoChange EXCEPT !.adopts = {c}]

LayersMerged(ch) ==
    /\ ch.keepSeq /\ ch.oldLayers # {} /\ ch.oldPacks = {} /\ ch.newPacks = {} /\ ch.forget = {} /\ ch.adopts = {}
    /\ \E l \in LayerRec : ch.newLayers = {l} /\ l.run = l.id /\ l.id \in Plans /\ l.nth = 0 /\ l.seq > 0

PacksMerged(ch) ==
    /\ ~ch.keepSeq /\ ch.oldLayers = {} /\ ch.forget = {} /\ ch.adopts = {}
    /\ \E l \in LayerRec, pk \in PackRec :
          /\ ch.newLayers = {l} /\ l.run = l.id /\ l.id \in Plans /\ l.nth = 0 /\ l.seq = 0
          /\ ch.newPacks = {pk} /\ pk.id = l.id /\ pk.keys = DOMAIN l.at
          /\ \A k \in DOMAIN l.at : l.at[k] = l.id

Forgetting(ch) ==
    /\ ch.keepSeq /\ ch.oldLayers = {} /\ ch.oldPacks = {} /\ ch.newLayers = {} /\ ch.newPacks = {} /\ ch.adopts = {}

RunSwapped(ch, p) ==
    /\ ch.keepSeq /\ ch.oldPacks = {} /\ ch.newPacks = {} /\ ch.forget = {} /\ ch.adopts = {}
    /\ \E s \in Nat \ {0} : \A l \in ch.newLayers : l.seq = s /\ l.nth = 0 /\ l.run = p /\ l.id \in Plans
    /\ \A l, j \in ch.newLayers : l # j => DOMAIN l.at \cap DOMAIN j.at = {}

CommitShape(c, r) ==
    /\ r.pc \in {"append", "list", "put", "save", "update", "claim", "clear", "done"}
    /\ r.pc \in {"update", "claim", "clear"} => Adopting(r.change, c) /\ r.then = "done" /\ c \in Placed

MaintainShape(r) ==
    /\ r.pc \in {"idle", "break", "layers", "update", "claim", "clear", "packs", "pass", "sweep", "release",
                 "dropAll", "dropping"}
    /\ r.pc \in {"update", "claim", "clear"} => r.then \in {"packs", "pass", "release"}
    /\ Changing(r) => LayersMerged(r.change) \/ PacksMerged(r.change) \/ Forgetting(r.change)
    /\ r.pc \in {"dropAll", "dropping"} => r.job.plan \in Plans

MergeShape(r) ==
    /\ r.pc \in {"idle", "range", "write", "count", "swap", "results", "update", "claim", "clear",
                 "dropAll", "dropping"}
    /\ r.pc # "idle" => r.job.plan \in Plans /\ r.job.range \in DOMAIN Ranges
    /\ r.pc = "idle" => r.job = Message(0, 0)
    /\ r.pc \in {"update", "claim", "clear"} => r.then = "dropping"
    /\ Changing(r) => RunSwapped(r.change, r.job.plan)

\* A plan's inputs are layers of a view, and each range has one layer at most.
PlanShape(p, r) ==
    /\ Sorted(r.layers) /\ Bounded(r.layers)
    /\ r.there => r.layers # {} /\ r.seq > 0
    /\ ~r.there => r.layers = {} /\ \A i \in DOMAIN Ranges : r.result[i] = {}
    /\ \A i \in DOMAIN Ranges :
          /\ \A l \in r.result[i] : l.run = p /\ l.seq = r.seq /\ l.nth = 0 /\ l.id \in Plans /\ DOMAIN l.at \subseteq Ranges[i]
          /\ \A l, j \in r.result[i] : l = j

Numbered(ls) == \A l \in ls : l.seq > 0

ManifestOK(m) == m \in ManifestRec /\ Bounded(m.layers) /\ Sorted(m.layers) /\ Numbered(m.layers)

Putting(c) == process[Committer(c)].pc = "put"
KeyOf(c) == process[Committer(c)].job.range
Matching(x) == process[x].pc = "claim" /\ process[x].base.seq = manifest.seq
Listing(x) == process[x].pc \in {"claim", "clear"}

\* Keys are handed out once; what a change lists stays there until it is folded in.
KeyFacts ==
    /\ \A k \in DOMAIN pending \cup manifest.folded : k \in Nat /\ k < next.key
    /\ \A x \in Processes : Listing(x) => \A k \in process[x].listed : k \in Nat /\ k < next.key
    /\ \A c \in Commits : Putting(c) =>
          /\ KeyOf(c) \in Nat /\ KeyOf(c) < next.key
          /\ KeyOf(c) \notin DOMAIN pending /\ KeyOf(c) \notin manifest.folded
          /\ \A x \in Processes : Listing(x) => KeyOf(c) \notin process[x].listed
          /\ \A d \in Commits : Putting(d) /\ KeyOf(d) = KeyOf(c) => d = c
    /\ \A x \in Processes : process[x].base.seq <= manifest.seq
    /\ \A x \in Processes : Matching(x) =>
          /\ manifest.folded \cap DOMAIN pending \subseteq process[x].listed
          /\ process[x].listed \ manifest.folded \subseteq DOMAIN pending
    /\ \A x \in Processes : process[x].pc = "clear" => process[x].listed \cap DOMAIN pending \subseteq manifest.folded
    /\ \A x \in Processes : process[x].pc = "list" /\ process[x].base.seq = manifest.seq => process[x].base = manifest

Types ==
    /\ ManifestOK(manifest)
    /\ pending \in [DOMAIN pending -> Commits]
    /\ files \subseteq Things
    /\ plans \in [Plans -> PlanRec]
    /\ queue \subseteq [plan : Plans, range : DOMAIN Ranges]
    /\ lease \in {"free", "dead"} \cup Maintainers
    /\ process \in [Processes -> ProcRec]
    /\ named \subseteq Commits
    /\ next \in [id : Nat, key : Nat] /\ next.id > N

ProcShape(x, r) ==
    /\ \A c \in Commits : x = Committer(c) => CommitShape(c, r)
    /\ x \in Maintainers => MaintainShape(r)
    /\ x \in Mergers => MergeShape(r)

Shapes ==
    /\ \A p \in Plans : PlanShape(p, plans[p])
    /\ \A x \in Processes : ProcShape(x, process[x])

TypeInv == Types /\ Shapes /\ KeyFacts

LEMMA Constants ==
  /\ N \in Nat /\ MaxIds \in Nat /\ Commits = 1 .. N /\ Ids = 1 .. N + MaxIds /\ Plans = N + 1 .. N + MaxIds
  /\ Commits \subseteq Ids /\ Plans \subseteq Ids /\ Commits \cap Plans = {} /\ Ids \subseteq Nat
  /\ \A c \in Commits : KeysOf[c] \subseteq Keys
  /\ \A i \in DOMAIN Ranges : Ranges[i] \subseteq Keys
  /\ \A i, j \in DOMAIN Ranges : i # j => Ranges[i] \cap Ranges[j] = {}
  /\ Placed \subseteq Commits /\ MaxTier \in Nat
<1>1. KeysOf \in Seq((SUBSET Keys) \ {{}}) /\ MaxIds \in Nat /\ MaxTier \in Nat
  BY KeyedLayoutConstants
<1>2. N \in Nat /\ DOMAIN KeysOf = 1 .. N /\ \A c \in 1 .. N : KeysOf[c] \in (SUBSET Keys) \ {{}}
  BY <1>1 DEF N
<1>3. Commits = 1 .. N /\ Ids = 1 .. N + MaxIds /\ Plans = N + 1 .. N + MaxIds
  BY <1>2 DEF Commits, Ids, Plans, N
<1>4. \A c \in Commits : KeysOf[c] \subseteq Keys
  BY <1>2, <1>3
<1>5. \A i \in DOMAIN Ranges : Ranges[i] \subseteq Keys
  BY DEF Keys
<1>6. Commits \subseteq Ids /\ Plans \subseteq Ids /\ Commits \cap Plans = {} /\ Ids \subseteq Nat
  BY <1>1, <1>2, <1>3
<1> QED
  BY <1>1, <1>2, <1>3, <1>4, <1>5, <1>6, KeyedLayoutConstants

LEMMA CommitFiles ==
  ASSUME NEW c \in Commits
  PROVE  /\ CommitLayer(c) \in LayerRec /\ CommitPack(c) \in PackRec
         /\ CommitLayer(c).id = c /\ CommitLayer(c).run = c /\ CommitLayer(c).nth = 0
         /\ CommitLayer(c).seq = 0 /\ DOMAIN CommitLayer(c).at = KeysOf[c]
         /\ \A k \in KeysOf[c] : CommitLayer(c).at[k] = c
         /\ CommitPack(c).id = c /\ CommitPack(c).tier = 0 /\ CommitPack(c).keys = KeysOf[c]
<1>1. c \in Ids /\ KeysOf[c] \in SUBSET Keys
  BY Constants
<1>2. [k \in KeysOf[c] |-> c] \in Ats
  BY <1>1 DEF Ats
<1> QED
  BY <1>1, <1>2 DEF CommitLayer, CommitPack, LayerRec, PackRec

\* What the pending objects add.
LEMMA StackedIs ==
  ASSUME NEW top \in Nat, NEW ks, IsFiniteSet(ks), ks \subseteq Nat, NEW pd, \A k \in ks : pd[k] \in Commits,
         NEW l \in Stacked(top, pd, ks)
  PROVE  \E k \in ks : /\ l = [CommitLayer(pd[k]) EXCEPT !.seq = top + Rank(ks, k)]
                       /\ l \in LayerRec /\ l.id = pd[k] /\ l.run = pd[k] /\ l.seq = top + Rank(ks, k) /\ l.nth = 0
                       /\ l.at = CommitLayer(pd[k]).at /\ DOMAIN l.at = KeysOf[pd[k]] /\ l.seq > top
                       /\ l.seq <= top + Cardinality(ks)
                       /\ \A j \in DOMAIN l.at : l.at[j] = pd[k]
<1>1. PICK k \in ks : l = [CommitLayer(pd[k]) EXCEPT !.seq = top + Rank(ks, k)]
  BY DEF Stacked
<1>2. Rank(ks, k) \in Nat /\ Rank(ks, k) >= 1 /\ Rank(ks, k) <= Cardinality(ks) /\ Cardinality(ks) \in Nat
  BY RankBound
<1>3. pd[k] \in Commits
  OBVIOUS
<1>4. top + Rank(ks, k) \in Nat /\ top + Rank(ks, k) > top /\ top + Rank(ks, k) <= top + Cardinality(ks)
  BY <1>2
<1> DEFINE L == CommitLayer(pd[k])
<1>5. L \in LayerRec /\ L.id = pd[k] /\ L.run = pd[k] /\ L.nth = 0 /\ DOMAIN L.at = KeysOf[pd[k]]
      /\ \A j \in KeysOf[pd[k]] : L.at[j] = pd[k]
  BY <1>3, CommitFiles
<1> HIDE DEF L
<1>6. l = [L EXCEPT !.seq = top + Rank(ks, k)]
  BY <1>1 DEF L
<1>7. l \in LayerRec /\ l.id = L.id /\ l.run = L.run /\ l.nth = L.nth /\ l.at = L.at /\ l.seq = top + Rank(ks, k)
  BY <1>4, <1>5, <1>6 DEF LayerRec
<1>8. l.at = CommitLayer(pd[k]).at
  BY <1>7 DEF L
<1> QED
  BY <1>1, <1>4, <1>5, <1>7, <1>8

\* Two pending objects have sequences of their own.
LEMMA StackedApart ==
  ASSUME NEW top \in Nat, NEW ks, IsFiniteSet(ks), ks \subseteq Nat, NEW pd, \A k \in ks : pd[k] \in Commits,
         NEW l \in Stacked(top, pd, ks), NEW j \in Stacked(top, pd, ks), l.seq = j.seq
  PROVE  l = j
<1>1. PICK k \in ks : l = [CommitLayer(pd[k]) EXCEPT !.seq = top + Rank(ks, k)] /\ l.seq = top + Rank(ks, k)
  BY StackedIs
<1>2. PICK i \in ks : j = [CommitLayer(pd[i]) EXCEPT !.seq = top + Rank(ks, i)] /\ j.seq = top + Rank(ks, i)
  BY StackedIs
<1>3. Rank(ks, k) \in Nat /\ Rank(ks, i) \in Nat
  BY RankBound
<1>4. Rank(ks, k) = Rank(ks, i)
  BY <1>1, <1>2, <1>3
<1>5. ~(k < i)
  <2> SUFFICES ASSUME k < i PROVE FALSE
    OBVIOUS
  <2>1. Rank(ks, k) < Rank(ks, i)
    BY RankLess
  <2> QED
    BY <1>3, <1>4, <2>1
<1>6. ~(i < k)
  <2> SUFFICES ASSUME i < k PROVE FALSE
    OBVIOUS
  <2>1. Rank(ks, i) < Rank(ks, k)
    BY RankLess
  <2> QED
    BY <1>3, <1>4, <2>1
<1>7. k = i
  <2>1. k \in Nat /\ i \in Nat
    OBVIOUS
  <2> QED
    BY <1>5, <1>6, <2>1
<1> QED
  BY <1>1, <1>2, <1>7

LEMMA ViewedOK ==
  ASSUME NEW m, ManifestOK(m), NEW ks, IsFiniteSet(ks), ks \subseteq Nat, NEW pd, \A k \in ks : pd[k] \in Commits
  PROVE  /\ ManifestOK(Viewed(m, pd, ks))
         /\ Viewed(m, pd, ks).layers = m.layers \cup Stacked(TopSeq(m), pd, ks)
         /\ Viewed(m, pd, ks).packs = m.packs \cup NewPacks(pd, ks)
         /\ Viewed(m, pd, ks).seq = m.seq /\ Viewed(m, pd, ks).retired = m.retired
         /\ Viewed(m, pd, ks).folded = m.folded /\ Viewed(m, pd, ks).adopted = m.adopted
         /\ TopSeq(m) \in Nat
<1> DEFINE v == Viewed(m, pd, ks)
           st == Stacked(TopSeq(m), pd, ks)
           np == NewPacks(pd, ks)
<1>1. m \in ManifestRec /\ Bounded(m.layers) /\ Sorted(m.layers) /\ Numbered(m.layers)
  BY DEF ManifestOK
<1>2. /\ m.seq \in Nat /\ m.layers \subseteq LayerRec /\ m.packs \subseteq PackRec
  BY <1>1 DEF ManifestRec
<1>3. TopSeq(m) \in Nat /\ \A l \in m.layers : l.seq <= TopSeq(m)
  BY <1>1, <1>2, TopOf
<1>4. \A l \in st : l \in LayerRec /\ l.nth = 0 /\ l.seq > TopSeq(m) /\ l.seq <= TopSeq(m) + Cardinality(ks)
  BY <1>3, StackedIs
<1>5. np \subseteq PackRec
  BY CommitFiles DEF NewPacks
<1>6. v = [m EXCEPT !.layers = m.layers \cup st, !.packs = m.packs \cup np]
  BY DEF Viewed
<1> HIDE DEF v, st, np
<1>7. v \in ManifestRec /\ v.layers = m.layers \cup st /\ v.packs = m.packs \cup np /\ v.seq = m.seq /\ v.retired = m.retired
      /\ v.folded = m.folded /\ v.adopted = m.adopted
  BY <1>1, <1>2, <1>4, <1>5, <1>6 DEF ManifestRec
<1>8. Bounded(v.layers)
  <2>1. PICK n \in Nat : \A l \in m.layers : l.seq \in 0 .. n /\ l.nth \in 0 .. n
    BY <1>1 DEF Bounded
  <2>2. Cardinality(ks) \in Nat
    BY FS_CardinalityType
  <2> DEFINE b == n + TopSeq(m) + Cardinality(ks)
  <2>3. b \in Nat
    BY <1>3, <2>2
  <2>4. ASSUME NEW l \in v.layers PROVE l.seq \in 0 .. b /\ l.nth \in 0 .. b
    <3>1. CASE l \in m.layers
      BY <1>3, <2>1, <2>2, <3>1
    <3>2. CASE l \in st
      <4>1. l \in LayerRec /\ l.nth = 0 /\ l.seq <= TopSeq(m) + Cardinality(ks)
        BY <1>4, <3>2
      <4>2. l.seq \in Nat
        BY <4>1 DEF LayerRec
      <4> QED
        BY <1>3, <2>2, <4>1, <4>2
    <3> QED
      BY <1>7, <3>1, <3>2
  <2> HIDE DEF b
  <2> QED
    BY <2>3, <2>4 DEF Bounded
<1>9. Sorted(v.layers)
  <2> SUFFICES ASSUME NEW l \in v.layers, NEW j \in v.layers, l # j, l.seq = j.seq, l.nth = j.nth
               PROVE  DOMAIN l.at \cap DOMAIN j.at = {}
    BY DEF Sorted
  <2>1. l \in LayerRec /\ j \in LayerRec
    BY <1>7 DEF ManifestRec
  <2>2. l.seq \in Nat /\ j.seq \in Nat
    BY <2>1 DEF LayerRec
  <2>3. CASE l \in m.layers /\ j \in m.layers
    BY <1>1, <2>3 DEF Sorted
  <2>4. CASE l \in st /\ j \in st
    BY <1>3, <2>4, StackedApart DEF st
  <2>5. CASE l \in m.layers /\ j \in st
    <3>1. l.seq <= TopSeq(m) /\ j.seq > TopSeq(m)
      BY <1>3, <1>4, <2>5
    <3> QED
      BY <1>3, <2>2, <3>1
  <2>6. CASE l \in st /\ j \in m.layers
    <3>1. j.seq <= TopSeq(m) /\ l.seq > TopSeq(m)
      BY <1>3, <1>4, <2>6
    <3> QED
      BY <1>3, <2>2, <3>1
  <2> QED
    BY <1>7, <2>3, <2>4, <2>5, <2>6
<1>10. Numbered(v.layers)
  <2> SUFFICES ASSUME NEW l \in v.layers PROVE l.seq > 0
    BY DEF Numbered
  <2>1. CASE l \in m.layers
    BY <1>1, <2>1 DEF Numbered
  <2>2. CASE l \in st
    <3>1. l.seq \in Nat /\ l.seq > TopSeq(m)
      BY <1>4, <2>2 DEF LayerRec
    <3> QED
      BY <1>3, <3>1
  <2> QED
    BY <1>7, <2>1, <2>2
<1> QED
  BY <1>3, <1>7, <1>8, <1>9, <1>10 DEF ManifestOK, v, st, np

\* What a change swaps in: one list of layers, of one sequence, with no key in two of them.
OneList(ch) ==
    /\ \E s \in Nat : (ch.keepSeq /\ ch.newLayers # {} => s > 0) /\ \A l \in ch.newLayers : l.seq = s
    /\ \A l, j \in ch.newLayers : l # j => DOMAIN l.at \cap DOMAIN j.at = {}

LEMMA ShapesOneList ==
  ASSUME NEW r \in ProcRec, NEW x \in Processes, ProcShape(x, r), Changing(r)
  PROVE  OneList(r.change) /\ r.change.newLayers \subseteq LayerRec
<1>0. r.change.newLayers \subseteq LayerRec
  BY DEF ProcRec, ChangeRec
<1>1. CASE \E c \in Commits : x = Committer(c)
  <2>1. PICK c \in Commits : x = Committer(c)
    BY <1>1
  <2>2. Adopting(r.change, c)
    BY <2>1 DEF ProcShape, CommitShape, Changing
  <2>3. r.change.newLayers = {}
    BY <2>2 DEF Adopting, NoChange
  <2> QED
    BY <2>3 DEF OneList
<1>2. CASE x \in Maintainers
  <2>1. LayersMerged(r.change) \/ PacksMerged(r.change) \/ Forgetting(r.change)
    BY <1>2 DEF ProcShape, MaintainShape
  <2>2. r.change.newLayers = {} \/ \E l \in LayerRec : r.change.newLayers = {l} /\ (r.change.keepSeq => l.seq > 0)
    BY <2>1 DEF LayersMerged, PacksMerged, Forgetting
  <2>3. CASE r.change.newLayers = {}
    BY <2>3 DEF OneList
  <2>4. CASE \E l \in LayerRec : r.change.newLayers = {l} /\ (r.change.keepSeq => l.seq > 0)
    BY <2>4 DEF OneList, LayerRec
  <2> QED
    BY <2>2, <2>3, <2>4
<1>3. CASE x \in Mergers
  <2>1. RunSwapped(r.change, r.job.plan)
    BY <1>3 DEF ProcShape, MergeShape
  <2> QED
    BY <1>0, <2>1 DEF RunSwapped, OneList
<1> QED
  BY <1>0, <1>1, <1>2, <1>3 DEF Processes, Committers

LEMMA AppendedIs ==
  ASSUME NEW ls, NEW l \in LayerRec, NEW s \in Nat, EndOf(ls, s) \in Nat
  PROVE  /\ Appended(ls, l, s) \in LayerRec
         /\ Appended(ls, l, s).id = l.id /\ Appended(ls, l, s).run = l.run /\ Appended(ls, l, s).at = l.at
         /\ Appended(ls, l, s).seq = s /\ Appended(ls, l, s).nth = EndOf(ls, s)
BY DEF Appended, LayerRec

\* The sequence the new layers of a change get.
NewSeq(v, ch, l) == IF ch.keepSeq THEN l.seq ELSE TopSeq([v EXCEPT !.layers = Kept(v, ch)]) + 1

LEMMA KeptIs ==
  ASSUME NEW v, ManifestOK(v), NEW ch
  PROVE  /\ Kept(v, ch) \subseteq v.layers /\ Kept(v, ch) \subseteq LayerRec /\ Bounded(Kept(v, ch)) /\ Sorted(Kept(v, ch))
         /\ TopSeq([v EXCEPT !.layers = Kept(v, ch)]) \in Nat
         /\ \A l \in Kept(v, ch) : l.seq <= TopSeq([v EXCEPT !.layers = Kept(v, ch)])
<1>1. v \in ManifestRec /\ Bounded(v.layers) /\ Sorted(v.layers)
  BY DEF ManifestOK
<1>2. Kept(v, ch) \subseteq v.layers
  BY DEF Kept
<1>3. v.layers \subseteq LayerRec /\ v.seq \in Nat
  BY <1>1 DEF ManifestRec
<1>4. Bounded(Kept(v, ch)) /\ Sorted(Kept(v, ch))
  BY <1>1, <1>2 DEF Bounded, Sorted
<1> DEFINE m == [v EXCEPT !.layers = Kept(v, ch)]
<1>5. m.seq = v.seq /\ m.layers = Kept(v, ch)
  BY <1>1 DEF ManifestRec
<1> HIDE DEF m
<1>6. TopSeq(m) \in Nat /\ \A l \in m.layers : l.seq <= TopSeq(m)
  BY <1>3, <1>4, <1>5, TopOf
<1> QED
  BY <1>2, <1>3, <1>4, <1>5, <1>6 DEF m

LEMMA ChangedOK ==
  ASSUME NEW v, ManifestOK(v), NEW ch \in ChangeRec, OneList(ch)
  PROVE  LET w == Changed(v, ch)
             new(l) == Appended(Kept(v, ch), l, NewSeq(v, ch, l)) IN
         /\ ManifestOK(w)
         /\ w.layers = Kept(v, ch) \cup {new(l) : l \in ch.newLayers}
         /\ \A l \in ch.newLayers :
               /\ new(l) \in LayerRec /\ new(l).id = l.id /\ new(l).run = l.run /\ new(l).at = l.at
               /\ new(l).seq = NewSeq(v, ch, l) /\ new(l).nth = EndOf(Kept(v, ch), NewSeq(v, ch, l))
               /\ NewSeq(v, ch, l) \in Nat /\ NewSeq(v, ch, l) > 0
         /\ w.packs = {p \in v.packs : p.id \notin ch.oldPacks} \cup {p \in ch.newPacks : ~Final(p)}
                      \cup {CommitPack(c) : c \in ch.adopts}
         /\ w.retired = (v.retired \ ch.forget) \cup {Layer(id) : id \in ch.oldLayers} \cup {Pack(id) : id \in ch.oldPacks}
         /\ w.seq = v.seq /\ w.folded = v.folded /\ w.adopted = v.adopted \cup ch.adopts
<1> DEFINE w == Changed(v, ch)
           kept == Kept(v, ch)
           new(l) == Appended(kept, l, NewSeq(v, ch, l))
           fresh == {new(l) : l \in ch.newLayers}
<1>1. v \in ManifestRec /\ Bounded(v.layers) /\ Sorted(v.layers) /\ Numbered(v.layers)
  BY DEF ManifestOK
<1>2. /\ kept \subseteq v.layers /\ kept \subseteq LayerRec /\ Bounded(kept) /\ Sorted(kept)
      /\ TopSeq([v EXCEPT !.layers = Kept(v, ch)]) \in Nat
  BY KeptIs
<1>3. ch.newLayers \subseteq LayerRec /\ ch.newPacks \subseteq PackRec /\ ch.adopts \subseteq Placed
      /\ ch.oldLayers \subseteq Ids /\ ch.oldPacks \subseteq Ids
  BY DEF ChangeRec
<1>4. ASSUME NEW l \in ch.newLayers
      PROVE  /\ new(l) \in LayerRec /\ new(l).id = l.id /\ new(l).run = l.run /\ new(l).at = l.at
             /\ new(l).seq = NewSeq(v, ch, l) /\ new(l).nth = EndOf(kept, NewSeq(v, ch, l))
             /\ NewSeq(v, ch, l) \in Nat /\ NewSeq(v, ch, l) > 0 /\ EndOf(kept, NewSeq(v, ch, l)) \in Nat
  <2>1. NewSeq(v, ch, l) \in Nat /\ NewSeq(v, ch, l) > 0
    <3>1. CASE ch.keepSeq
      <4>1. NewSeq(v, ch, l) = l.seq /\ l.seq > 0
        BY <3>1 DEF NewSeq, OneList
      <4> QED
        BY <1>3, <4>1 DEF LayerRec
    <3>2. CASE ~ch.keepSeq
      BY <1>2, <3>2 DEF NewSeq
    <3> QED
      BY <3>1, <3>2
  <2>2. EndOf(kept, NewSeq(v, ch, l)) \in Nat
    BY <1>2, <2>1, EndIs
  <2> QED
    BY <1>3, <2>1, <2>2, AppendedIs
<1>5. w = ChangedAt(v, ch, TopSeq([v EXCEPT !.layers = kept]) + 1)
  BY DEF Changed
<1>6. w = [v EXCEPT !.layers = kept \cup fresh,
                    !.packs = {p \in v.packs : p.id \notin ch.oldPacks} \cup {p \in ch.newPacks : ~Final(p)}
                                  \cup {CommitPack(c) : c \in ch.adopts},
                    !.retired = (v.retired \ ch.forget) \cup {Layer(id) : id \in ch.oldLayers} \cup {Pack(id) : id \in ch.oldPacks},
                    !.adopted = v.adopted \cup ch.adopts]
  BY <1>1, <1>5 DEF ChangedAt, NewSeq, ManifestRec
<1>7. fresh \subseteq LayerRec
  <2>1. \A l \in ch.newLayers : new(l) \in LayerRec
    BY <1>4
  <2> HIDE DEF new
  <2> QED
    BY <2>1
<1>8. {CommitPack(c) : c \in ch.adopts} \subseteq PackRec
  <2>1. \A c \in ch.adopts : CommitPack(c) \in PackRec
    BY <1>3, CommitFiles, Constants
  <2> QED
    BY <2>1
<1>9. {Layer(id) : id \in ch.oldLayers} \cup {Pack(id) : id \in ch.oldPacks} \subseteq Things
  BY <1>3 DEF Things
<1>11. \E s \in Nat : \A l \in ch.newLayers : NewSeq(v, ch, l) = s
  BY <1>2 DEF NewSeq, OneList
<1> DEFINE packs == {p \in v.packs : p.id \notin ch.oldPacks} \cup {p \in ch.newPacks : ~Final(p)}
                        \cup {CommitPack(c) : c \in ch.adopts}
           retired == (v.retired \ ch.forget) \cup {Layer(id) : id \in ch.oldLayers} \cup {Pack(id) : id \in ch.oldPacks}
<1>12. packs \subseteq PackRec /\ retired \subseteq Things /\ v.adopted \cup ch.adopts \subseteq Placed
  BY <1>1, <1>3, <1>8, <1>9 DEF ManifestRec
<1>13. kept \cup fresh \subseteq LayerRec
  BY <1>2, <1>7
<1>14. w.layers = kept \cup fresh /\ w.packs = packs /\ w.retired = retired /\ w.seq = v.seq /\ w.folded = v.folded
       /\ w.adopted = v.adopted \cup ch.adopts /\ w \in ManifestRec
  <2> HIDE DEF w, kept, fresh, packs, retired
  <2>1. w = [v EXCEPT !.layers = kept \cup fresh, !.packs = packs, !.retired = retired, !.adopted = v.adopted \cup ch.adopts]
    BY <1>6 DEF packs, retired
  <2> QED
    BY <1>1, <1>12, <1>13, <2>1 DEF ManifestRec
<1>15. Bounded(w.layers)
  <2>1. PICK n \in Nat : \A l \in kept : l.seq \in 0 .. n /\ l.nth \in 0 .. n
    BY <1>2 DEF Bounded
  <2>2. PICK s \in Nat : \A l \in ch.newLayers : NewSeq(v, ch, l) = s
    BY <1>11
  <2>3. EndOf(kept, s) \in Nat
    BY <1>2, <2>2, EndIs
  <2> DEFINE b == n + s + EndOf(kept, s)
  <2>4. b \in Nat
    BY <2>3
  <2>5. ASSUME NEW l \in kept PROVE l.seq \in 0 .. b /\ l.nth \in 0 .. b
    <3>1. l.seq \in 0 .. n /\ l.nth \in 0 .. n
      BY <2>1
    <3> QED
      BY <2>3, <3>1
  <2>6. ASSUME NEW l \in ch.newLayers PROVE new(l).seq \in 0 .. b /\ new(l).nth \in 0 .. b
    <3>1. new(l).seq = s /\ new(l).nth = EndOf(kept, s)
      BY <1>4, <2>2
    <3> HIDE DEF new
    <3> QED
      BY <2>3, <3>1
  <2>7. \A l \in fresh : l.seq \in 0 .. b /\ l.nth \in 0 .. b
    BY <2>6
  <2> HIDE DEF b, fresh, kept, w
  <2> QED
    BY <1>14, <2>4, <2>5, <2>7 DEF Bounded
<1>16. Sorted(w.layers)
  <2> SUFFICES ASSUME NEW l \in w.layers, NEW j \in w.layers, l # j, l.seq = j.seq, l.nth = j.nth
               PROVE  DOMAIN l.at \cap DOMAIN j.at = {}
    BY DEF Sorted
  <2> HIDE DEF w
  <2>1. CASE l \in kept /\ j \in kept
    BY <1>2, <2>1 DEF Sorted
  <2>2. CASE l \in fresh /\ j \in fresh
    <3>1. PICK a \in ch.newLayers : l = new(a)
      BY <2>2
    <3>2. PICK b \in ch.newLayers : j = new(b)
      BY <2>2
    <3>3. a # b /\ l.at = a.at /\ j.at = b.at
      BY <1>4, <3>1, <3>2
    <3> QED
      BY <3>3 DEF OneList
  <2>3. ASSUME NEW a \in kept, NEW b \in fresh, a.seq = b.seq, a.nth = b.nth PROVE FALSE
    <3>1. PICK c \in ch.newLayers : b = new(c)
      BY <2>3
    <3> DEFINE s == NewSeq(v, ch, c)
    <3>2. b.seq = s /\ b.nth = EndOf(kept, s) /\ s \in Nat /\ EndOf(kept, s) \in Nat
      BY <1>4, <3>1
    <3>3. a.nth < EndOf(kept, s)
      BY <1>2, <2>3, <3>2, EndIs
    <3> QED
      BY <2>3, <3>2, <3>3
  <2> HIDE DEF kept, fresh
  <2> QED
    BY <1>14, <2>1, <2>2, <2>3
<1>17. ManifestOK(w)
  <2>1. \A l \in kept : l.seq > 0
    BY <1>1, <1>2 DEF Numbered
  <2>2. \A l \in ch.newLayers : new(l).seq > 0
    BY <1>4
  <2> HIDE DEF kept, new, w
  <2>3. Numbered(w.layers)
    BY <1>14, <2>1, <2>2 DEF Numbered
  <2> QED
    BY <1>14, <1>15, <1>16, <2>3 DEF ManifestOK
<1> HIDE DEF w, new
<1>18. \A l \in ch.newLayers : new(l) = Appended(Kept(v, ch), l, NewSeq(v, ch, l))
  BY DEF new
<1> QED
  BY <1>4, <1>14, <1>17, <1>18 DEF w, new

-----------------------------------------------------------------------------
(* The views of a state that is typed.                                     *)

LEMMA KeysFinite ==
  ASSUME NEW ks, NEW n \in Nat, \A k \in ks : k \in Nat /\ k < n
  PROVE  IsFiniteSet(ks) /\ ks \subseteq Nat
<1>1. ks \subseteq 0 .. n
  OBVIOUS
<1>2. IsFiniteSet(0 .. n)
  BY FS_Interval
<1> QED
  BY <1>1, <1>2, FS_Subset

\* The keys unfolded in the newest view, and in the view of a change about to be made.
LEMMA UnfoldedKeys ==
  ASSUME TypeInv, NEW m, NEW keys \in SUBSET DOMAIN pending
  PROVE  LET ks == Unfolded(m, keys) IN
         IsFiniteSet(ks) /\ ks \subseteq Nat /\ ks \subseteq keys /\ \A k \in ks : pending[k] \in Commits
<1>1. Unfolded(m, keys) \subseteq keys
  BY PendingView
<1>2. \A k \in DOMAIN pending : k \in Nat /\ k < next.key
  BY DEF TypeInv, KeyFacts
<1>3. next.key \in Nat
  BY DEF TypeInv, Types
<1>4. IsFiniteSet(Unfolded(m, keys)) /\ Unfolded(m, keys) \subseteq Nat
  BY <1>1, <1>2, <1>3, KeysFinite
<1>5. \A k \in DOMAIN pending : pending[k] \in Commits
  BY DEF TypeInv, Types
<1> QED
  BY <1>1, <1>4, <1>5

LEMMA LatestOK ==
  ASSUME TypeInv
  PROVE  /\ ManifestOK(Latest)
         /\ Latest.layers = manifest.layers \cup Stacked(TopSeq(manifest), pending, Unfolded(manifest, DOMAIN pending))
         /\ Latest.packs = manifest.packs \cup NewPacks(pending, Unfolded(manifest, DOMAIN pending))
         /\ Latest.seq = manifest.seq /\ Latest.retired = manifest.retired
         /\ Latest.folded = manifest.folded /\ Latest.adopted = manifest.adopted
         /\ TopSeq(manifest) \in Nat
<1> DEFINE ks == Unfolded(manifest, DOMAIN pending)
<1>1. IsFiniteSet(ks) /\ ks \subseteq Nat /\ \A k \in ks : pending[k] \in Commits
  BY UnfoldedKeys
<1>2. ManifestOK(manifest)
  BY DEF TypeInv, Types
<1>3. Latest = Viewed(manifest, pending, ks)
  BY PendingView DEF Latest
<1> HIDE DEF ks
<1>4. QED
  BY <1>1, <1>2, <1>3, ViewedOK DEF ks

\* A matching claim's view: of what it listed, the keys that are not folded are there.
LEMMA ListedKeys ==
  ASSUME TypeInv, NEW x \in Processes, Matching(x)
  PROVE  LET ks == Unfolded(manifest, process[x].listed) IN
         IsFiniteSet(ks) /\ ks \subseteq Nat /\ ks \subseteq process[x].listed \cap DOMAIN pending /\ \A k \in ks : pending[k] \in Commits
<1> DEFINE ks == Unfolded(manifest, process[x].listed)
<1>1. ks \subseteq process[x].listed \ manifest.folded
  BY PendingView
<1>2. ks \subseteq process[x].listed \cap DOMAIN pending
  BY <1>1 DEF TypeInv, KeyFacts
<1>3. \A k \in DOMAIN pending : k \in Nat /\ k < next.key
  BY DEF TypeInv, KeyFacts
<1>4. next.key \in Nat
  BY DEF TypeInv, Types
<1> HIDE DEF ks
<1>5. IsFiniteSet(ks) /\ ks \subseteq Nat
  BY <1>2, <1>3, <1>4, KeysFinite
<1>6. \A k \in DOMAIN pending : pending[k] \in Commits
  BY DEF TypeInv, Types
<1> QED
  BY <1>2, <1>5, <1>6 DEF ks

LEMMA ClaimView ==
  ASSUME TypeInv, NEW x \in Processes, Matching(x)
  PROVE  LET ks == Unfolded(manifest, process[x].listed)
             v == WithPending(manifest, process[x].listed) IN
         /\ ManifestOK(v)
         /\ v.layers = manifest.layers \cup Stacked(TopSeq(manifest), pending, ks)
         /\ v.packs = manifest.packs \cup NewPacks(pending, ks)
         /\ v.seq = manifest.seq /\ v.retired = manifest.retired
         /\ v.folded = manifest.folded /\ v.adopted = manifest.adopted
<1> DEFINE ks == Unfolded(manifest, process[x].listed)
<1>1. IsFiniteSet(ks) /\ ks \subseteq Nat /\ \A k \in ks : pending[k] \in Commits
  BY ListedKeys
<1>2. ManifestOK(manifest)
  BY DEF TypeInv, Types
<1>3. WithPending(manifest, process[x].listed) = Viewed(manifest, pending, ks)
  BY PendingView
<1> HIDE DEF ks
<1>4. QED
  BY <1>1, <1>2, <1>3, ViewedOK DEF ks

\* The manifest that a claim writes.
Claimed(x) ==
    [Changed(WithPending(manifest, process[x].listed), process[x].change) EXCEPT
        !.seq = @ + 1, !.folded = process[x].listed]

LEMMA ProcessTyped ==
  ASSUME TypeInv, NEW x \in Processes
  PROVE  process[x] \in ProcRec /\ ProcShape(x, process[x])
BY DEF TypeInv, Types, Shapes

LEMMA ClaimedIs ==
  ASSUME TypeInv, NEW x \in Processes, Matching(x)
  PROVE  LET v == WithPending(manifest, process[x].listed)
             ch == process[x].change
             w == Claimed(x)
             new(l) == Appended(Kept(v, ch), l, NewSeq(v, ch, l)) IN
         /\ ManifestOK(w)
         /\ w.layers = Kept(v, ch) \cup {new(l) : l \in ch.newLayers}
         /\ \A l \in ch.newLayers :
               /\ new(l) \in LayerRec /\ new(l).id = l.id /\ new(l).run = l.run /\ new(l).at = l.at
               /\ new(l).seq = NewSeq(v, ch, l) /\ new(l).nth = EndOf(Kept(v, ch), NewSeq(v, ch, l))
               /\ NewSeq(v, ch, l) \in Nat /\ NewSeq(v, ch, l) > 0
         /\ w.packs = {p \in v.packs : p.id \notin ch.oldPacks} \cup {p \in ch.newPacks : ~Final(p)}
                      \cup {CommitPack(c) : c \in ch.adopts}
         /\ w.retired = (v.retired \ ch.forget) \cup {Layer(id) : id \in ch.oldLayers} \cup {Pack(id) : id \in ch.oldPacks}
         /\ w.seq = manifest.seq + 1 /\ w.folded = process[x].listed /\ w.adopted = v.adopted \cup ch.adopts
         /\ OneList(ch) /\ ch \in ChangeRec
<1> DEFINE v == WithPending(manifest, process[x].listed)
           ch == process[x].change
           new(l) == Appended(Kept(v, ch), l, NewSeq(v, ch, l))
           u == Changed(v, ch)
<1>1. process[x] \in ProcRec /\ ProcShape(x, process[x]) /\ Changing(process[x])
  BY ProcessTyped DEF Matching, Changing
<1>2. ch \in ChangeRec /\ OneList(ch)
  BY <1>1, ShapesOneList DEF ProcRec
<1>3. ManifestOK(v) /\ v.seq = manifest.seq /\ v.folded = manifest.folded
  BY ClaimView
<1>4. /\ ManifestOK(u)
      /\ u.layers = Kept(v, ch) \cup {new(l) : l \in ch.newLayers}
      /\ \A l \in ch.newLayers :
               /\ new(l) \in LayerRec /\ new(l).id = l.id /\ new(l).run = l.run /\ new(l).at = l.at
               /\ new(l).seq = NewSeq(v, ch, l) /\ new(l).nth = EndOf(Kept(v, ch), NewSeq(v, ch, l))
               /\ NewSeq(v, ch, l) \in Nat /\ NewSeq(v, ch, l) > 0
      /\ u.packs = {p \in v.packs : p.id \notin ch.oldPacks} \cup {p \in ch.newPacks : ~Final(p)}
                      \cup {CommitPack(c) : c \in ch.adopts}
      /\ u.retired = (v.retired \ ch.forget) \cup {Layer(id) : id \in ch.oldLayers} \cup {Pack(id) : id \in ch.oldPacks}
      /\ u.seq = v.seq /\ u.folded = v.folded /\ u.adopted = v.adopted \cup ch.adopts
  <2> HIDE DEF v, ch
  <2> QED
    BY <1>2, <1>3, ChangedOK
<1>5. process[x].listed \subseteq Nat
  BY DEF TypeInv, KeyFacts, Matching, Listing
<1>6. Claimed(x) = [u EXCEPT !.seq = u.seq + 1, !.folded = process[x].listed]
  BY DEF Claimed
<1> HIDE DEF u
<1>7. u \in ManifestRec /\ u.seq + 1 \in Nat
  BY <1>4 DEF ManifestOK, ManifestRec
<1>8. LET w == Claimed(x) IN
      /\ w \in ManifestRec /\ w.layers = u.layers /\ w.packs = u.packs /\ w.retired = u.retired /\ w.adopted = u.adopted
      /\ w.seq = u.seq + 1 /\ w.folded = process[x].listed
  <2> DEFINE f == process[x].listed
             s == u.seq + 1
  <2>1. s \in Nat /\ f \in SUBSET Nat
    BY <1>5, <1>7
  <2>2. Claimed(x) = [u EXCEPT !.seq = s, !.folded = f]
    BY <1>6
  <2> HIDE DEF f, s
  <2>3. /\ Claimed(x) \in ManifestRec /\ Claimed(x).layers = u.layers /\ Claimed(x).packs = u.packs
        /\ Claimed(x).retired = u.retired /\ Claimed(x).adopted = u.adopted
        /\ Claimed(x).seq = s /\ Claimed(x).folded = f
    BY <1>7, <2>1, <2>2 DEF ManifestRec
  <2> QED
    BY <2>3 DEF f, s
<1>9. ManifestOK(Claimed(x))
  BY <1>4, <1>8 DEF ManifestOK
<1> HIDE DEF new
<1>10. \A l \in ch.newLayers : new(l) = Appended(Kept(v, ch), l, NewSeq(v, ch, l))
  BY DEF new
<1> QED
  BY <1>2, <1>3, <1>4, <1>8, <1>9 DEF v, ch, new

-----------------------------------------------------------------------------
(* Types are kept.                                                         *)

LEMMA NoChangeIs ==
  NoChange \in ChangeRec /\ Forgetting(NoChange) /\ EmptyManifest \in ManifestRec /\ EmptyManifest.seq = 0
BY DEF NoChange, ChangeRec, Forgetting, EmptyManifest, ManifestRec

LEMMA AtIs ==
  ASSUME NEW pc \in Steps
  PROVE  /\ At(pc) \in ProcRec /\ At(pc).pc = pc /\ At(pc).change = NoChange /\ At(pc).then = "idle"
         /\ At(pc).base = EmptyManifest /\ At(pc).listed = {} /\ At(pc).job = Message(0, 0) /\ At(pc).more = FALSE
<1>1. Message(0, 0) \in JobRec
  BY DEF JobRec, Message
<1> DEFINE job == Message(0, 0)
<1>2. At(pc) = [pc |-> pc, change |-> NoChange, then |-> "idle", base |-> EmptyManifest, listed |-> {},
                job |-> job, more |-> FALSE]
  BY DEF At
<1> HIDE DEF job
<1>3. job \in JobRec
  BY <1>1 DEF job
<1>4. At(pc) \in ProcRec
  BY <1>2, <1>3, NoChangeIs DEF ProcRec, Steps
<1>5. At(pc).job = job
  BY <1>2
<1> QED
  BY <1>2, <1>4, <1>5 DEF job

\* A process that is changing nothing, puts nothing and looks for nothing.
Quiet(r) == r.pc \notin {"claim", "clear", "put", "list"} /\ r.base.seq <= manifest.seq

\* A step of one process that ends there, and changes no keys.
LEMMA QuietStep ==
  ASSUME TypeInv, NEW x \in Processes, NEW r \in ProcRec, ProcShape(x, r), Quiet(r),
         process' = [process EXCEPT ![x] = r], manifest' = manifest, pending' = pending, next'.key = next.key
  PROVE  process' \in [Processes -> ProcRec] /\ (\A y \in Processes : ProcShape(y, process'[y])) /\ KeyFacts'
<1>1. process \in [Processes -> ProcRec] /\ (\A y \in Processes : ProcShape(y, process[y])) /\ KeyFacts
  BY DEF TypeInv, Types, Shapes
<1>2. process' \in [Processes -> ProcRec] /\ process'[x] = r /\ \A y \in Processes : y # x => process'[y] = process[y]
  BY <1>1
<1>3. \A y \in Processes : ProcShape(y, process'[y])
  BY <1>1, <1>2
<1>c. \A c \in Commits : Committer(c) \in Processes
  BY DEF Processes, Committers
<1>4. KeyFacts'
  <2>1. \A y \in Processes : Listing(y)' => y # x /\ Listing(y)
    BY <1>2 DEF Listing, Quiet
  <2>2. \A y \in Processes : Matching(y)' => y # x /\ Matching(y)
    BY <1>2 DEF Matching, Quiet
  <2>3. \A c \in Commits : Putting(c)' => Committer(c) # x /\ Putting(c) /\ KeyOf(c)' = KeyOf(c)
    BY <1>2, <1>c DEF Putting, KeyOf, Quiet
  <2>4. \A y \in Processes : process'[y].base.seq <= manifest.seq
    BY <1>1, <1>2 DEF Quiet, KeyFacts
  <2>5. \A y \in Processes : process'[y].pc \in {"clear", "list"} => y # x /\ process'[y] = process[y]
    BY <1>2 DEF Quiet
  <2>6. \A y \in Processes : y # x => process'[y] = process[y]
    BY <1>2
  <2> QED
    BY <1>1, <2>1, <2>2, <2>3, <2>4, <2>5, <2>6 DEF KeyFacts
<1> QED
  BY <1>2, <1>3, <1>4

\* The same of a whole step, which may also change the lease, and delete files.
LEMMA QuietType ==
  ASSUME TypeInv, NEW x \in Processes, NEW r \in ProcRec, ProcShape(x, r), Quiet(r),
         process' = [process EXCEPT ![x] = r], UNCHANGED <<manifest, pending, plans, named, next>>,
         files' \subseteq Things, lease' \in {"free", "dead"} \cup Maintainers,
         queue' \subseteq [plan : Plans, range : DOMAIN Ranges]
  PROVE  TypeInv'
<1>1. process' \in [Processes -> ProcRec] /\ (\A y \in Processes : ProcShape(y, process'[y])) /\ KeyFacts'
  BY QuietStep
<1> QED
  BY <1>1 DEF TypeInv, Types, Shapes

LEMMA GotoIs ==
  ASSUME TypeInv, NEW x \in Processes, NEW pc \in Steps, Goto(x, pc)
  PROVE  LET r == [process[x] EXCEPT !.pc = pc] IN
         /\ process' = [process EXCEPT ![x] = r] /\ r \in ProcRec
         /\ r.pc = pc /\ r.change = process[x].change /\ r.then = process[x].then /\ r.base = process[x].base
         /\ r.listed = process[x].listed /\ r.job = process[x].job /\ r.more = process[x].more
         /\ r.base.seq <= manifest.seq
<1>1. process \in [Processes -> ProcRec] /\ process[x].base.seq <= manifest.seq
  BY DEF TypeInv, Types, KeyFacts
<1>2. process[x] \in ProcRec
  BY <1>1
<1> DEFINE r == [process[x] EXCEPT !.pc = pc]
<1>3. r \in ProcRec /\ r.pc = pc /\ r.change = process[x].change /\ r.then = process[x].then /\ r.base = process[x].base
      /\ r.listed = process[x].listed /\ r.job = process[x].job /\ r.more = process[x].more
  BY <1>2 DEF ProcRec
<1>4. process' = [process EXCEPT ![x] = r]
  BY <1>1 DEF Goto
<1> QED
  BY <1>1, <1>3, <1>4

LEMMA Disjoint ==
  /\ \A c \in Commits : Committer(c) \in Processes /\ Committer(c) \in Committers
                        /\ Committer(c) \notin Maintainers /\ Committer(c) \notin Mergers
  /\ \A w \in Maintainers : w \in Processes /\ w \notin Mergers /\ w \notin Committers
  /\ \A g \in Mergers : g \in Processes /\ g \notin Maintainers /\ g \notin Committers
  /\ \A c, d \in Commits : Committer(c) = Committer(d) => c = d
  /\ Processes = Committers \cup Maintainers \cup Mergers
  /\ \A x \in Committers : \E c \in Commits : x = Committer(c)
<1>1. \A c \in Commits : Committer(c) \in Committers
  BY DEF Committers
<1>2. \A c, d \in Commits : Committer(c) = Committer(d) => c = d
  BY DEF Committer
<1> QED
  BY <1>1, <1>2, KeyedLayoutConstants DEF Processes, Committers

LEMMA CommitShaped ==
  ASSUME NEW c \in Commits, NEW r, CommitShape(c, r)
  PROVE  ProcShape(Committer(c), r)
BY Disjoint DEF ProcShape

LEMMA MaintainShaped ==
  ASSUME NEW w \in Maintainers, NEW r, MaintainShape(r)
  PROVE  ProcShape(w, r)
BY Disjoint DEF ProcShape

LEMMA MergeShaped ==
  ASSUME NEW g \in Mergers, NEW r, MergeShape(r)
  PROVE  ProcShape(g, r)
BY Disjoint DEF ProcShape

\* A maintain job's, or a merge job's, step from one place to another.
LEMMA MaintainGoto ==
  ASSUME TypeInv, NEW w \in Maintainers, NEW pc \in {"idle", "break", "layers", "packs", "pass", "sweep", "release"},
         Goto(w, pc), UNCHANGED <<manifest, pending, plans, named, next, queue>>,
         files' \subseteq Things, lease' \in {"free", "dead"} \cup Maintainers
  PROVE  TypeInv'
<1> DEFINE r == [process[w] EXCEPT !.pc = pc]
<1>1. w \in Processes
  BY Disjoint
<1>a. pc \in Steps
  BY DEF Steps
<1>2. process' = [process EXCEPT ![w] = r] /\ r \in ProcRec /\ r.pc = pc /\ r.base.seq <= manifest.seq
  BY <1>1, <1>a, GotoIs
<1>3. MaintainShape(r) /\ Quiet(r)
  BY <1>2 DEF MaintainShape, Changing, Quiet
<1>4. queue' \subseteq [plan : Plans, range : DOMAIN Ranges]
  BY DEF TypeInv, Types
<1> HIDE DEF r
<1> QED
  BY <1>1, <1>2, <1>3, <1>4, MaintainShaped, QuietType

LEMMA MaintainAt ==
  ASSUME TypeInv, NEW w \in Maintainers, NEW pc \in {"idle", "layers", "sweep"},
         process' = [process EXCEPT ![w] = At(pc)], UNCHANGED <<manifest, pending, named, next, queue, plans>>,
         files' \subseteq Things, lease' \in {"free", "dead"} \cup Maintainers
  PROVE  TypeInv'
<1>1. w \in Processes
  BY Disjoint
<1>a. pc \in Steps
  BY DEF Steps
<1>2. At(pc) \in ProcRec /\ At(pc).pc = pc /\ At(pc).base.seq = 0
  BY <1>a, AtIs, NoChangeIs
<1>3. manifest.seq \in Nat
  BY DEF TypeInv, Types, ManifestOK, ManifestRec
<1>4. MaintainShape(At(pc)) /\ Quiet(At(pc))
  BY <1>2, <1>3 DEF MaintainShape, Changing, Quiet
<1>5. queue' \subseteq [plan : Plans, range : DOMAIN Ranges]
  BY DEF TypeInv, Types
<1> QED
  BY <1>1, <1>2, <1>4, <1>5, MaintainShaped, QuietType

\* Where a change goes on.
LEMMA ThenShaped ==
  ASSUME NEW x \in Processes, NEW q, NEW r, ProcShape(x, q), q.pc \in {"update", "claim", "clear"},
         r.pc = q.then, r.job = q.job
  PROVE  ProcShape(x, r) /\ r.pc \in {"done", "packs", "pass", "release", "dropping"}
<1>1. CASE x \in Committers
  <2>1. PICK c \in Commits : x = Committer(c)
    BY <1>1, Disjoint
  <2>2. r.pc = "done"
    BY <2>1 DEF ProcShape, CommitShape
  <2>3. CommitShape(c, r)
    BY <2>2 DEF CommitShape
  <2> QED
    BY <2>1, <2>2, <2>3, CommitShaped
<1>2. CASE x \in Maintainers
  <2>1. r.pc \in {"packs", "pass", "release"}
    BY <1>2 DEF ProcShape, MaintainShape
  <2>2. MaintainShape(r)
    BY <2>1 DEF MaintainShape, Changing
  <2> QED
    BY <1>2, <2>1, <2>2, MaintainShaped
<1>3. CASE x \in Mergers
  <2>1. r.pc = "dropping" /\ r.job.plan \in Plans /\ r.job.range \in DOMAIN Ranges
    BY <1>3 DEF ProcShape, MergeShape
  <2>2. MergeShape(r)
    BY <2>1 DEF MergeShape, Changing
  <2> QED
    BY <1>3, <2>1, <2>2, MergeShaped
<1> QED
  BY <1>1, <1>2, <1>3, Disjoint

\* A step of update that keeps what is being changed.
LEMMA ChangeShaped ==
  ASSUME NEW x \in Processes, NEW q, NEW r, ProcShape(x, q), Changing(q), r.pc \in {"update", "claim", "clear"},
         r.change = q.change, r.job = q.job, r.then = q.then
  PROVE  ProcShape(x, r)
<1>1. CASE x \in Committers
  <2>1. PICK c \in Commits : x = Committer(c)
    BY <1>1, Disjoint
  <2>2. CommitShape(c, q)
    BY <2>1 DEF ProcShape
  <2>3. CommitShape(c, r)
    BY <2>2 DEF CommitShape, Changing
  <2> QED
    BY <2>1, <2>3, CommitShaped
<1>2. CASE x \in Maintainers
  <2>1. MaintainShape(q)
    BY <1>2 DEF ProcShape
  <2>2. MaintainShape(r)
    BY <2>1 DEF MaintainShape, Changing
  <2> QED
    BY <1>2, <2>2, MaintainShaped
<1>3. CASE x \in Mergers
  <2>1. MergeShape(q)
    BY <1>3 DEF ProcShape
  <2>2. MergeShape(r)
    BY <2>1 DEF MergeShape, Changing
  <2> QED
    BY <1>3, <2>2, MergeShaped
<1> QED
  BY <1>1, <1>2, <1>3, Disjoint

LEMMA ReadNewestType ==
  ASSUME TypeInv, NEW x \in Processes, ReadNewest(x)
  PROVE  TypeInv'
<1> DEFINE q == process[x]
<1>1. process \in [Processes -> ProcRec] /\ q \in ProcRec /\ ProcShape(x, q) /\ KeyFacts
  BY DEF TypeInv, Types, Shapes
<1>2. UNCHANGED <<manifest, pending, plans, queue, lease, named, next, faults>> /\ q.pc = "update"
  BY DEF ReadNewest
<1>3. CASE Applies(Latest, process[x].change)
  <2> DEFINE r == [q EXCEPT !.pc = "claim", !.base.seq = manifest.seq, !.listed = DOMAIN pending]
  <2>1. process' = [process EXCEPT ![x] = r] /\ files' = files
    BY <1>1, <1>3 DEF ReadNewest
  <2>2. manifest.seq \in Nat /\ DOMAIN pending \subseteq Nat
    BY <1>1 DEF TypeInv, Types, ManifestOK, ManifestRec, KeyFacts
  <2>3. [q.base EXCEPT !.seq = manifest.seq] \in ManifestRec /\ [q.base EXCEPT !.seq = manifest.seq].seq = manifest.seq
    BY <1>1, <2>2 DEF ProcRec, ManifestRec
  <2> DEFINE b == [q.base EXCEPT !.seq = manifest.seq]
  <2>4. r = [q EXCEPT !.pc = "claim", !.base = b, !.listed = DOMAIN pending]
    BY <1>1 DEF ProcRec
  <2> HIDE DEF b, r, q
  <2>5. r \in ProcRec /\ r.pc = "claim" /\ r.change = q.change /\ r.job = q.job /\ r.then = q.then /\ r.base = b
        /\ r.listed = DOMAIN pending
    BY <1>1, <2>2, <2>3, <2>4 DEF ProcRec, Steps, b
  <2>6. ProcShape(x, r)
    BY <1>1, <1>2, <2>5, ChangeShaped DEF Changing
  <2>7. process' \in [Processes -> ProcRec] /\ process'[x] = r /\ \A y \in Processes : y # x => process'[y] = process[y]
    BY <1>1, <2>1, <2>5
  <2>8. \A y \in Processes : ProcShape(y, process'[y])
    BY <2>6, <2>7 DEF TypeInv, Shapes
  <2>9. KeyFacts'
    <3>1. \A k \in DOMAIN pending \cup manifest.folded : k \in Nat /\ k < next.key
      BY <1>1 DEF KeyFacts
    <3>2. \A y \in Processes : y # x => process'[y] = process[y]
      BY <2>7
    <3>3. process'[x].pc = "claim" /\ process'[x].base.seq = manifest.seq /\ process'[x].listed = DOMAIN pending
      BY <2>3, <2>5, <2>7 DEF b
    <3>4. \A c \in Commits : Putting(c)' => Committer(c) # x /\ Putting(c) /\ KeyOf(c)' = KeyOf(c)
      BY <2>7, <3>3, Disjoint DEF Putting, KeyOf
    <3>5. \A y \in Processes : Listing(y)' => y = x \/ Listing(y)
      BY <3>2 DEF Listing
    <3>6. \A y \in Processes : Matching(y)' => y = x \/ Matching(y)
      BY <1>2, <3>2 DEF Matching
    <3>7. (DOMAIN pending)' = DOMAIN pending /\ manifest' = manifest /\ next' = next
      BY <1>2
    <3>8. \A y \in Processes : Listing(y)' => \A k \in process'[y].listed : k \in Nat /\ k < next.key
      BY <1>1, <3>1, <3>2, <3>3, <3>5 DEF KeyFacts
    <3>9. \A c \in Commits : Putting(c)' =>
            \A y \in Processes : Listing(y)' => KeyOf(c)' \notin process'[y].listed
      BY <1>1, <3>2, <3>3, <3>4, <3>5 DEF KeyFacts
    <3>10. \A y \in Processes : Matching(y)' =>
              /\ manifest.folded \cap DOMAIN pending \subseteq process'[y].listed
              /\ process'[y].listed \ manifest.folded \subseteq DOMAIN pending
      BY <1>1, <3>2, <3>3, <3>6 DEF KeyFacts
    <3>11. \A y \in Processes : process'[y].base.seq <= manifest.seq
      BY <1>1, <2>2, <3>2, <3>3 DEF KeyFacts
    <3>12. \A y \in Processes : process'[y].pc \in {"clear", "list"} => y # x /\ process'[y] = process[y]
      BY <3>2, <3>3
    <3> QED
      BY <1>1, <3>1, <3>4, <3>7, <3>8, <3>9, <3>10, <3>11, <3>12 DEF KeyFacts
  <2> QED
    BY <1>2, <2>1, <2>7, <2>8, <2>9 DEF TypeInv, Types, Shapes
<1>4. CASE ~Applies(Latest, process[x].change)
  <2>1. Goto(x, q.then) /\ files' \subseteq files
    BY <1>4 DEF ReadNewest
  <2> DEFINE r == [process[x] EXCEPT !.pc = q.then]
  <2>2. q.then \in Steps
    BY <1>1 DEF ProcRec
  <2>3. process' = [process EXCEPT ![x] = r] /\ r \in ProcRec /\ r.pc = q.then /\ r.job = q.job /\ r.base.seq <= manifest.seq
    BY <2>1, <2>2, GotoIs
  <2> HIDE DEF q, r
  <2>4. ProcShape(x, r) /\ Quiet(r)
    <3>1. ProcShape(x, r) /\ r.pc \in {"done", "packs", "pass", "release", "dropping"}
      BY <1>1, <1>2, <2>3, ThenShaped
    <3> QED
      BY <2>3, <3>1 DEF Quiet
  <2>5. files' \subseteq Things /\ lease' \in {"free", "dead"} \cup Maintainers
        /\ queue' \subseteq [plan : Plans, range : DOMAIN Ranges]
    BY <1>2, <2>1 DEF TypeInv, Types
  <2> QED
    BY <1>2, <2>3, <2>4, <2>5, QuietType
<1> QED
  BY <1>3, <1>4

\* A claim that finds its number taken starts over.
LEMMA RetryType ==
  ASSUME TypeInv, NEW x \in Processes, ClaimNumber(x), manifest.seq # process[x].base.seq
  PROVE  TypeInv'
<1> DEFINE q == process[x]
           r == [q EXCEPT !.pc = "update", !.base = EmptyManifest, !.listed = {}]
<1>1. process \in [Processes -> ProcRec] /\ q \in ProcRec /\ ProcShape(x, q) /\ q.pc = "claim"
  BY DEF TypeInv, Types, Shapes, ClaimNumber
<1>2. UNCHANGED <<manifest, pending, files, plans, queue, lease, named, next>>
  BY DEF ClaimNumber
<1>3. process' = [process EXCEPT ![x] = r]
  BY <1>1 DEF ClaimNumber
<1>4. r \in ProcRec /\ r.pc = "update" /\ r.change = q.change /\ r.job = q.job /\ r.then = q.then /\ r.base = EmptyManifest
  BY <1>1, NoChangeIs DEF ProcRec, Steps
<1> HIDE DEF q, r
<1>5. ProcShape(x, r)
  BY <1>1, <1>4, ChangeShaped DEF Changing
<1>6. Quiet(r)
  BY <1>4, NoChangeIs DEF Quiet, TypeInv, Types, ManifestOK, ManifestRec
<1> QED
  BY <1>2, <1>3, <1>4, <1>5, <1>6, QuietType DEF TypeInv, Types

\* What a claim that wins does.
LEMMA WinIs ==
  ASSUME TypeInv, NEW x \in Processes, ClaimNumber(x), manifest.seq = process[x].base.seq
  PROVE  /\ Matching(x) /\ manifest' = Claimed(x) /\ Goto(x, "clear")
         /\ UNCHANGED <<pending, files, plans, queue, lease, named, next>>
BY DEF ClaimNumber, Matching, Claimed

LEMMA WinType ==
  ASSUME TypeInv, NEW x \in Processes, Matching(x), manifest' = Claimed(x), Goto(x, "clear"),
         UNCHANGED <<pending, files, plans, queue, lease, named, next>>
  PROVE  TypeInv'
<1> DEFINE q == process[x]
           r == [process[x] EXCEPT !.pc = "clear"]
<1>1. process \in [Processes -> ProcRec] /\ q \in ProcRec /\ ProcShape(x, q) /\ KeyFacts /\ q.pc = "claim"
  BY DEF TypeInv, Types, Shapes, Matching
<1>a. "clear" \in Steps
  BY DEF Steps
<1>2. /\ process' = [process EXCEPT ![x] = r] /\ r \in ProcRec /\ r.pc = "clear" /\ r.change = q.change
      /\ r.then = q.then /\ r.base = q.base /\ r.listed = q.listed /\ r.job = q.job
  BY <1>a, GotoIs
<1> HIDE DEF r
<1>3. ProcShape(x, r)
  BY <1>1, <1>2, ChangeShaped DEF Changing
<1>4. process' \in [Processes -> ProcRec] /\ process'[x] = r /\ \A y \in Processes : y # x => process'[y] = process[y]
  BY <1>1, <1>2
<1>5. \A y \in Processes : ProcShape(y, process'[y])
  BY <1>3, <1>4 DEF TypeInv, Shapes
<1>6. ManifestOK(manifest') /\ manifest'.seq = manifest.seq + 1 /\ manifest'.folded = q.listed
  BY ClaimedIs
<1>7. manifest.seq \in Nat
  BY DEF TypeInv, Types, ManifestOK, ManifestRec
<1>8. KeyFacts'
  <2>0. \A k \in DOMAIN pending \cup manifest.folded : k \in Nat /\ k < next.key
    BY <1>1 DEF KeyFacts
  <2>1. /\ manifest.folded \cap DOMAIN pending \subseteq q.listed /\ \A k \in q.listed : k \in Nat /\ k < next.key
    BY <1>1 DEF KeyFacts, Matching, Listing
  <2>2. \A y \in Processes : Listing(y)' <=> Listing(y)
    BY <1>1, <1>2, <1>4 DEF Listing
  <2>3. \A y \in Processes : process'[y].base = process[y].base /\ process'[y].listed = process[y].listed
    BY <1>2, <1>4
  <2>4. \A y \in Processes : process[y].base.seq \in Nat
    BY <1>1 DEF ProcRec, ManifestRec
  <2>5. \A y \in Processes : process'[y].base.seq <= manifest'.seq /\ process'[y].base.seq # manifest'.seq
    <3> SUFFICES ASSUME NEW y \in Processes PROVE process'[y].base.seq <= manifest'.seq /\ process'[y].base.seq # manifest'.seq
      OBVIOUS
    <3>1. process[y].base.seq <= manifest.seq /\ process[y].base.seq \in Nat
      BY <1>1, <2>4 DEF KeyFacts
    <3>2. process[y].base.seq <= manifest.seq + 1 /\ process[y].base.seq # manifest.seq + 1
      BY <1>7, <3>1
    <3> QED
      BY <1>6, <2>3, <3>2
  <2>6. \A y \in Processes : ~Matching(y)'
    BY <2>5 DEF Matching
  <2>7. \A c \in Commits : Putting(c)' => Putting(c) /\ KeyOf(c)' = KeyOf(c)
    BY <1>2, <1>4, Disjoint DEF Putting, KeyOf
  <2>8. Listing(x)
    BY <1>1 DEF Listing
  <2>9. \A y \in Processes : process'[y].pc = "clear" => process'[y].listed \cap DOMAIN pending \subseteq q.listed
    <3> SUFFICES ASSUME NEW y \in Processes, process'[y].pc = "clear"
                 PROVE  process'[y].listed \cap DOMAIN pending \subseteq q.listed
      OBVIOUS
    <3>1. CASE y = x
      BY <2>3, <3>1
    <3>2. CASE y # x
      <4>1. process[y].pc = "clear"
        BY <1>4, <3>2
      <4>2. process[y].listed \cap DOMAIN pending \subseteq manifest.folded
        BY <1>1, <4>1 DEF KeyFacts
      <4> QED
        BY <2>1, <2>3, <4>2
    <3> QED
      BY <3>1, <3>2
  <2>10. pending' = pending /\ next' = next
    OBVIOUS
  <2>11. \A c \in Commits : Putting(c)' =>
            /\ KeyOf(c)' \in Nat /\ KeyOf(c)' < next.key
            /\ KeyOf(c)' \notin DOMAIN pending /\ KeyOf(c)' \notin q.listed
            /\ \A y \in Processes : Listing(y)' => KeyOf(c)' \notin process'[y].listed
            /\ \A d \in Commits : Putting(d)' /\ KeyOf(d)' = KeyOf(c)' => d = c
    BY <1>1, <2>2, <2>3, <2>7, <2>8 DEF KeyFacts
  <2>12. \A y \in Processes : Listing(y)' => \A k \in process'[y].listed : k \in Nat /\ k < next.key
    BY <1>1, <2>2, <2>3 DEF KeyFacts
  <2> QED
    BY <1>6, <2>0, <2>1, <2>5, <2>6, <2>9, <2>10, <2>11, <2>12 DEF KeyFacts
<1> QED
  BY <1>4, <1>5, <1>6, <1>8 DEF TypeInv, Types, Shapes

LEMMA ClearPendingType ==
  ASSUME TypeInv, NEW x \in Processes, ClearPending(x)
  PROVE  TypeInv'
<1> DEFINE q == process[x]
           r == [q EXCEPT !.pc = q.then, !.base = EmptyManifest, !.listed = {}]
<1>1. process \in [Processes -> ProcRec] /\ q \in ProcRec /\ ProcShape(x, q) /\ KeyFacts /\ q.pc = "clear"
  BY DEF TypeInv, Types, Shapes, ClearPending
<1>2. UNCHANGED <<manifest, files, plans, queue, lease, named, next>>
  BY DEF ClearPending
<1>3. process' = [process EXCEPT ![x] = r]
  BY <1>1 DEF ClearPending
<1>4. r \in ProcRec /\ r.pc = q.then /\ r.job = q.job /\ r.base = EmptyManifest /\ r.listed = {}
  BY <1>1, NoChangeIs DEF ProcRec
<1>5. DOMAIN pending' = DOMAIN pending \ q.listed /\ \A k \in DOMAIN pending' : pending'[k] = pending[k]
  BY DEF ClearPending
<1>6. pending' \in [DOMAIN pending' -> Commits]
  <2>1. pending' = [k \in DOMAIN pending \ q.listed |-> pending[k]]
    BY DEF ClearPending
  <2>2. \A k \in DOMAIN pending : pending[k] \in Commits
    BY DEF TypeInv, Types
  <2> QED
    BY <2>1, <2>2
<1> HIDE DEF q, r
<1>7. ProcShape(x, r) /\ r.pc \in {"done", "packs", "pass", "release", "dropping"}
  BY <1>1, <1>4, ThenShaped
<1>8. process' \in [Processes -> ProcRec] /\ process'[x] = r /\ \A y \in Processes : y # x => process'[y] = process[y]
  BY <1>1, <1>3, <1>4
<1>9. \A y \in Processes : ProcShape(y, process'[y])
  BY <1>7, <1>8 DEF TypeInv, Shapes
<1>10. KeyFacts'
  <2>1. \A y \in Processes : Listing(y)' => y # x /\ Listing(y) /\ process'[y] = process[y]
    BY <1>7, <1>8 DEF Listing
  <2>2. \A y \in Processes : Matching(y)' => y # x /\ Matching(y) /\ process'[y] = process[y]
    BY <1>2, <1>7, <1>8 DEF Matching
  <2>3. \A c \in Commits : Putting(c)' => Putting(c) /\ KeyOf(c)' = KeyOf(c)
    BY <1>7, <1>8, Disjoint DEF Putting, KeyOf
  <2>4. \A y \in Processes : process'[y].pc \in {"clear", "list"} => y # x /\ process'[y] = process[y]
    BY <1>7, <1>8
  <2>5. \A y \in Processes : process'[y].base.seq <= manifest.seq
    <3>1. r.base.seq = 0 /\ manifest.seq \in Nat
      BY <1>4, NoChangeIs DEF TypeInv, Types, ManifestOK, ManifestRec
    <3>2. r.base.seq <= manifest.seq
      BY <3>1
    <3> QED
      BY <1>1, <1>8, <3>2 DEF KeyFacts
  <2>6. q.listed \cap DOMAIN pending \subseteq manifest.folded
    BY <1>1 DEF KeyFacts, q
  <2>7. \A y \in Processes : Matching(y)' =>
           /\ manifest.folded \cap DOMAIN pending' \subseteq process'[y].listed
           /\ process'[y].listed \ manifest.folded \subseteq DOMAIN pending'
    <3> SUFFICES ASSUME NEW y \in Processes, Matching(y)'
                 PROVE  /\ manifest.folded \cap DOMAIN pending' \subseteq process'[y].listed
                        /\ process'[y].listed \ manifest.folded \subseteq DOMAIN pending'
      OBVIOUS
    <3>1. Matching(y) /\ process'[y] = process[y]
      BY <2>2
    <3>2. manifest.folded \cap DOMAIN pending \subseteq process[y].listed /\ process[y].listed \ manifest.folded \subseteq DOMAIN pending
      BY <1>1, <3>1 DEF KeyFacts
    <3> QED
      BY <1>5, <2>6, <3>1, <3>2
  <2>8. DOMAIN pending' \subseteq DOMAIN pending
    BY <1>5
  <2> QED
    BY <1>1, <1>2, <2>1, <2>3, <2>4, <2>5, <2>7, <2>8 DEF KeyFacts
<1> QED
  BY <1>2, <1>6, <1>8, <1>9, <1>10 DEF TypeInv, Types, Shapes

LEMMA ReadManifestType ==
  ASSUME TypeInv, NEW c \in Commits, ReadManifest(c)
  PROVE  TypeInv'
<1> DEFINE x == Committer(c)
           q == process[x]
           r == [q EXCEPT !.pc = "list", !.base = manifest]
<1>1. x \in Processes /\ process \in [Processes -> ProcRec] /\ q \in ProcRec /\ KeyFacts /\ manifest \in ManifestRec
  BY Disjoint DEF TypeInv, Types, ManifestOK
<1>2. UNCHANGED <<manifest, pending, files, plans, queue, lease, named, next>>
  BY DEF ReadManifest
<1>3. process' = [process EXCEPT ![x] = r]
  BY <1>1 DEF ReadManifest
<1>4. r \in ProcRec /\ r.pc = "list" /\ r.base = manifest
  BY <1>1 DEF ProcRec, Steps
<1> HIDE DEF q, r
<1>5. CommitShape(c, r)
  BY <1>4 DEF CommitShape
<1>6. process' \in [Processes -> ProcRec] /\ process'[x] = r /\ \A y \in Processes : y # x => process'[y] = process[y]
  BY <1>1, <1>3, <1>4
<1>7. \A y \in Processes : ProcShape(y, process'[y])
  BY <1>5, <1>6, CommitShaped DEF TypeInv, Shapes
<1>8. KeyFacts'
  <2>1. \A y \in Processes : Listing(y)' => Listing(y) /\ process'[y] = process[y]
    BY <1>4, <1>6 DEF Listing
  <2>2. \A y \in Processes : Matching(y)' => Matching(y) /\ process'[y] = process[y]
    BY <1>2, <1>4, <1>6 DEF Matching
  <2>3. \A d \in Commits : Putting(d)' => Putting(d) /\ KeyOf(d)' = KeyOf(d)
    BY <1>4, <1>6, Disjoint DEF Putting, KeyOf
  <2>4. \A y \in Processes : process'[y].pc = "clear" => process'[y] = process[y]
    BY <1>4, <1>6
  <2>5. \A y \in Processes : process'[y].base.seq <= manifest.seq
    BY <1>1, <1>4, <1>6 DEF KeyFacts, ManifestRec
  <2>6. \A y \in Processes : process'[y].pc = "list" /\ process'[y].base.seq = manifest.seq => process'[y].base = manifest
    BY <1>1, <1>4, <1>6 DEF KeyFacts
  <2> QED
    BY <1>1, <1>2, <2>1, <2>2, <2>3, <2>4, <2>5, <2>6 DEF KeyFacts
<1> QED
  BY <1>2, <1>6, <1>7, <1>8 DEF TypeInv, Types, Shapes

\* A commit's step to a place where it looks at nothing.
LEMMA CommitAt ==
  ASSUME TypeInv, NEW c \in Commits, NEW r \in ProcRec, CommitShape(c, r), r.pc \in {"append", "save", "update", "done"},
         r.base = EmptyManifest, process' = [process EXCEPT ![Committer(c)] = r],
         UNCHANGED <<manifest, pending, files, plans, queue, lease, named, next>>
  PROVE  TypeInv'
<1>1. Quiet(r)
  BY NoChangeIs DEF Quiet, TypeInv, Types, ManifestOK, ManifestRec
<1> QED
  BY <1>1, CommitShaped, Disjoint, QuietType DEF TypeInv, Types

LEMMA AdoptPacksIs ==
  ASSUME NEW c \in Commits
  PROVE  /\ AdoptPacks(c) \in ProcRec /\ CommitShape(c, AdoptPacks(c)) /\ AdoptPacks(c).base = EmptyManifest
         /\ AdoptPacks(c).pc \in {"update", "done"} /\ (AdoptPacks(c).pc = "update" => c \in Placed)
         /\ (AdoptPacks(c).pc = "update" => Adopting(AdoptPacks(c).change, c))
         /\ AdoptPacks(c).job = Message(0, 0)
<1>1. CASE c \in Placed
  <2> DEFINE a == At("update")
             ch == [NoChange EXCEPT !.adopts = {c}]
  <2>1. a \in ProcRec /\ a.pc = "update" /\ a.change = NoChange /\ a.base = EmptyManifest /\ a.job = Message(0, 0)
    BY AtIs DEF Steps
  <2> HIDE DEF a
  <2>2. ch \in ChangeRec /\ Adopting(ch, c)
    BY <1>1 DEF NoChange, ChangeRec, Adopting
  <2>3. AdoptPacks(c) = [a EXCEPT !.change = ch, !.then = "done"]
    BY <1>1, <2>1 DEF AdoptPacks, a, ProcRec
  <2> HIDE DEF ch
  <2>4. AdoptPacks(c) \in ProcRec /\ AdoptPacks(c).pc = "update" /\ AdoptPacks(c).change = ch /\ AdoptPacks(c).then = "done"
        /\ AdoptPacks(c).base = EmptyManifest /\ AdoptPacks(c).job = Message(0, 0)
    BY <2>1, <2>2, <2>3 DEF ProcRec, Steps
  <2> QED
    BY <1>1, <2>2, <2>4 DEF CommitShape
<1>2. CASE c \notin Placed
  <2>1. AdoptPacks(c) = At("done")
    BY <1>2 DEF AdoptPacks
  <2>2. At("done") \in ProcRec /\ At("done").pc = "done" /\ At("done").base = EmptyManifest /\ At("done").job = Message(0, 0)
    BY AtIs DEF Steps
  <2> QED
    BY <2>1, <2>2 DEF CommitShape
<1> QED
  BY <1>1, <1>2

LEMMA SaveTreeType ==
  ASSUME TypeInv, NEW c \in Commits, SaveTree(c)
  PROVE  TypeInv'
BY AdoptPacksIs, CommitAt DEF SaveTree

LEMMA CommitDiesType ==
  ASSUME TypeInv, NEW c \in Commits, CommitDies(c)
  PROVE  TypeInv'
<1> DEFINE r == IF Saved(Committer(c)) THEN AdoptPacks(c) ELSE At("append")
<1>1. r \in ProcRec /\ CommitShape(c, r) /\ r.pc \in {"append", "update", "done"} /\ r.base = EmptyManifest
  <2>1. At("append") \in ProcRec /\ At("append").pc = "append" /\ At("append").base = EmptyManifest
    BY AtIs DEF Steps
  <2>2. CommitShape(c, At("append"))
    BY <2>1 DEF CommitShape
  <2> QED
    BY <2>1, <2>2, AdoptPacksIs
<1>2. process' = [process EXCEPT ![Committer(c)] = r]
      /\ UNCHANGED <<manifest, pending, files, plans, queue, lease, named, next>>
  BY DEF CommitDies
<1> HIDE DEF r
<1> QED
  BY <1>1, <1>2, CommitAt

LEMMA ListPendingType ==
  ASSUME TypeInv, NEW c \in Commits, ListPending(c)
  PROVE  TypeInv'
<1> DEFINE x == Committer(c)
<1>1. x \in Processes /\ process \in [Processes -> ProcRec] /\ KeyFacts /\ next \in [id : Nat, key : Nat] /\ next.id > N
      /\ manifest.seq \in Nat
  BY Disjoint DEF TypeInv, Types, ManifestOK, ManifestRec
<1>2. UNCHANGED <<manifest, pending, files, plans, queue, lease, named>>
  BY DEF ListPending
<1>3. CASE process' = [process EXCEPT ![x] = At("save")] /\ UNCHANGED next
  <2>1. At("save") \in ProcRec /\ At("save").pc = "save" /\ At("save").base = EmptyManifest
    BY AtIs DEF Steps
  <2>2. CommitShape(c, At("save"))
    BY <2>1 DEF CommitShape
  <2> QED
    BY <1>2, <1>3, <2>1, <2>2, CommitAt
<1>4. CASE /\ process' = [process EXCEPT ![x] = [At("put") EXCEPT !.job.range = next.key]]
           /\ next' = [next EXCEPT !.key = @ + 1]
  <2> DEFINE a == At("put")
             j == [a.job EXCEPT !.range = next.key]
             r == [a EXCEPT !.job = j]
  <2>1. a \in ProcRec /\ a.pc = "put" /\ a.base = EmptyManifest
    BY AtIs DEF Steps
  <2>2. j \in JobRec /\ j.range = next.key
    BY <1>1, <2>1 DEF ProcRec, JobRec
  <2>3. process' = [process EXCEPT ![x] = r]
    BY <1>4, <2>1 DEF ProcRec
  <2> HIDE DEF a, j
  <2>4. r \in ProcRec /\ r.pc = "put" /\ r.base = EmptyManifest /\ r.job.range = next.key
    BY <2>1, <2>2 DEF ProcRec
  <2> HIDE DEF r
  <2>5. CommitShape(c, r)
    BY <2>4 DEF CommitShape
  <2>6. process' \in [Processes -> ProcRec] /\ process'[x] = r /\ \A y \in Processes : y # x => process'[y] = process[y]
    BY <1>1, <2>3, <2>4
  <2>7. \A y \in Processes : ProcShape(y, process'[y])
    BY <2>5, <2>6, CommitShaped DEF TypeInv, Shapes
  <2>8. next' \in [id : Nat, key : Nat] /\ next'.id = next.id /\ next'.key = next.key + 1 /\ next.key \in Nat
    BY <1>1, <1>4
  <2>9. KeyFacts'
    <3>0. \A k \in Nat : k < next.key => k < next'.key
      BY <2>8
    <3>1. \A y \in Processes : Listing(y)' => Listing(y) /\ process'[y] = process[y]
      BY <2>4, <2>6 DEF Listing
    <3>2. \A y \in Processes : Matching(y)' => Matching(y) /\ process'[y] = process[y]
      BY <1>2, <2>4, <2>6 DEF Matching
    <3>3. \A d \in Commits : Putting(d)' => \/ d = c /\ KeyOf(d)' = next.key
                                            \/ d # c /\ Putting(d) /\ KeyOf(d)' = KeyOf(d)
      <4> SUFFICES ASSUME NEW d \in Commits, Putting(d)'
                   PROVE  \/ d = c /\ KeyOf(d)' = next.key
                          \/ d # c /\ Putting(d) /\ KeyOf(d)' = KeyOf(d)
        OBVIOUS
      <4>1. CASE d = c
        BY <2>4, <2>6, <4>1 DEF KeyOf
      <4>2. CASE d # c
        <5>1. Committer(d) # x /\ Committer(d) \in Processes
          BY <4>2, Disjoint
        <5> QED
          BY <2>6, <4>2, <5>1 DEF KeyOf, Putting
      <4> QED
        BY <4>1, <4>2
    <3>4. \A y \in Processes : process'[y].pc \in {"clear", "list"} => process'[y] = process[y]
      BY <2>4, <2>6
    <3>5. \A y \in Processes : process'[y].base.seq <= manifest.seq
      BY <1>1, <2>4, <2>6, NoChangeIs DEF KeyFacts
    <3>6. \A k \in DOMAIN pending \cup manifest.folded : k \in Nat /\ k < next.key
      BY <1>1 DEF KeyFacts
    <3>7. \A y \in Processes : Listing(y) => \A k \in process[y].listed : k \in Nat /\ k < next.key
      BY <1>1 DEF KeyFacts
    <3>8. \A d \in Commits : Putting(d) => KeyOf(d) \in Nat /\ KeyOf(d) < next.key
      BY <1>1 DEF KeyFacts
    <3>9. ~(next.key < next.key) /\ next.key < next'.key
      BY <2>8
    <3>10. \A d \in Commits : Putting(d)' =>
              /\ KeyOf(d)' \in Nat /\ KeyOf(d)' < next'.key
              /\ KeyOf(d)' \notin DOMAIN pending /\ KeyOf(d)' \notin manifest.folded
              /\ \A y \in Processes : Listing(y)' => KeyOf(d)' \notin process'[y].listed
      <4> SUFFICES ASSUME NEW d \in Commits, Putting(d)'
                   PROVE  /\ KeyOf(d)' \in Nat /\ KeyOf(d)' < next'.key
                          /\ KeyOf(d)' \notin DOMAIN pending /\ KeyOf(d)' \notin manifest.folded
                          /\ \A y \in Processes : Listing(y)' => KeyOf(d)' \notin process'[y].listed
        OBVIOUS
      <4>1. CASE KeyOf(d)' = next.key
        BY <2>8, <3>1, <3>6, <3>7, <3>9, <4>1
      <4>2. CASE Putting(d) /\ KeyOf(d)' = KeyOf(d)
        BY <1>1, <3>0, <3>1, <3>8, <4>2 DEF KeyFacts
      <4> QED
        BY <3>3, <4>1, <4>2
    <3>11. \A d, e \in Commits : Putting(d)' /\ Putting(e)' /\ KeyOf(e)' = KeyOf(d)' => e = d
      <4> SUFFICES ASSUME NEW d \in Commits, NEW e \in Commits, Putting(d)', Putting(e)', KeyOf(e)' = KeyOf(d)'
                   PROVE  e = d
        OBVIOUS
      <4>1. CASE d # c /\ e # c
        BY <1>1, <3>3, <4>1 DEF KeyFacts
      <4>2. CASE d = c /\ e # c
        BY <3>3, <3>8, <3>9, <4>2
      <4>3. CASE d # c /\ e = c
        BY <3>3, <3>8, <3>9, <4>3
      <4> QED
        BY <4>1, <4>2, <4>3
    <3>12. \A k \in DOMAIN pending \cup manifest.folded : k \in Nat /\ k < next'.key
      BY <3>0, <3>6
    <3>13. \A y \in Processes : Listing(y)' => \A k \in process'[y].listed : k \in Nat /\ k < next'.key
      BY <3>0, <3>1, <3>7
    <3> QED
      BY <1>1, <1>2, <3>2, <3>4, <3>5, <3>10, <3>11, <3>12, <3>13 DEF KeyFacts
  <2> QED
    BY <1>1, <1>2, <2>6, <2>7, <2>8, <2>9 DEF TypeInv, Types, Shapes
<1> QED
  BY <1>3, <1>4 DEF ListPending

LEMMA AppendRunsType ==
  ASSUME TypeInv, NEW c \in Commits, AppendRuns(c)
  PROVE  TypeInv'
<1> DEFINE x == Committer(c)
           key == process[x].job.range
<1>1. x \in Processes /\ process \in [Processes -> ProcRec] /\ KeyFacts /\ manifest.seq \in Nat
  BY Disjoint DEF TypeInv, Types, ManifestOK, ManifestRec
<1>2. UNCHANGED <<manifest, files, plans, queue, lease, next>> /\ Putting(c) /\ key = KeyOf(c)
  BY DEF AppendRuns, Putting, KeyOf
<1>3. At("save") \in ProcRec /\ At("save").pc = "save" /\ At("save").base = EmptyManifest
  BY AtIs DEF Steps
<1>4. CommitShape(c, At("save"))
  BY <1>3 DEF CommitShape
<1>5. process' = [process EXCEPT ![x] = At("save")] /\ named' = named \cup {c}
  BY DEF AppendRuns
<1>6. process' \in [Processes -> ProcRec] /\ process'[x] = At("save") /\ \A y \in Processes : y # x => process'[y] = process[y]
  BY <1>1, <1>3, <1>5
<1>7. \A y \in Processes : ProcShape(y, process'[y])
  BY <1>4, <1>6, CommitShaped DEF TypeInv, Shapes
<1>8. pending' = [k \in DOMAIN pending \cup {key} |-> IF k = key THEN c ELSE pending[k]]
  BY DEF AppendRuns
<1>9. pending' \in [DOMAIN pending' -> Commits] /\ DOMAIN pending' = DOMAIN pending \cup {key}
  <2>1. \A k \in DOMAIN pending : pending[k] \in Commits
    BY DEF TypeInv, Types
  <2> QED
    BY <1>8, <2>1
<1>10. KeyFacts'
  <2>1. \A y \in Processes : Listing(y)' => Listing(y) /\ process'[y] = process[y]
    BY <1>3, <1>6 DEF Listing
  <2>2. \A y \in Processes : Matching(y)' => Matching(y) /\ process'[y] = process[y]
    BY <1>2, <1>3, <1>6 DEF Matching
  <2>3. \A d \in Commits : Putting(d)' => d # c /\ Putting(d) /\ KeyOf(d)' = KeyOf(d)
    BY <1>3, <1>6, Disjoint DEF Putting, KeyOf
  <2>4. \A y \in Processes : process'[y].pc \in {"clear", "list"} => process'[y] = process[y]
    BY <1>3, <1>6
  <2>5. \A y \in Processes : process'[y].base.seq <= manifest.seq
    BY <1>1, <1>3, <1>6, NoChangeIs DEF KeyFacts
  <2>6. key \in Nat /\ key < next.key /\ key \notin manifest.folded
        /\ \A y \in Processes : Listing(y) => key \notin process[y].listed
    BY <1>1, <1>2 DEF KeyFacts
  <2>7. \A d \in Commits : Putting(d)' => KeyOf(d)' # key
    BY <1>1, <1>2, <2>3 DEF KeyFacts
  <2>8. \A d \in Commits : Putting(d)' =>
            /\ KeyOf(d)' \in Nat /\ KeyOf(d)' < next.key
            /\ KeyOf(d)' \notin DOMAIN pending' /\ KeyOf(d)' \notin manifest.folded
            /\ \A y \in Processes : Listing(y)' => KeyOf(d)' \notin process'[y].listed
            /\ \A e \in Commits : Putting(e)' /\ KeyOf(e)' = KeyOf(d)' => e = d
    BY <1>1, <1>9, <2>1, <2>3, <2>7 DEF KeyFacts
  <2>9. \A y \in Processes : Matching(y)' =>
           /\ manifest.folded \cap DOMAIN pending' \subseteq process'[y].listed
           /\ process'[y].listed \ manifest.folded \subseteq DOMAIN pending'
    BY <1>1, <1>9, <2>2, <2>6 DEF KeyFacts
  <2>10. \A y \in Processes : process'[y].pc = "clear" => process'[y].listed \cap DOMAIN pending' \subseteq manifest.folded
    <3> SUFFICES ASSUME NEW y \in Processes, process'[y].pc = "clear"
                 PROVE  process'[y].listed \cap DOMAIN pending' \subseteq manifest.folded
      OBVIOUS
    <3>1. process[y].pc = "clear" /\ process'[y] = process[y]
      BY <2>4
    <3>2. key \notin process[y].listed
      BY <2>6, <3>1 DEF Listing
    <3> QED
      BY <1>1, <1>9, <3>1, <3>2 DEF KeyFacts
  <2>11. \A k \in DOMAIN pending' \cup manifest.folded : k \in Nat /\ k < next.key
    BY <1>1, <1>9, <2>6 DEF KeyFacts
  <2> QED
    BY <1>1, <1>2, <2>1, <2>4, <2>5, <2>8, <2>9, <2>10, <2>11 DEF KeyFacts
<1> QED
  BY <1>2, <1>5, <1>6, <1>7, <1>9, <1>10 DEF TypeInv, Types, Shapes

LEMMA LeaseType ==
  ASSUME TypeInv, NEW w \in Maintainers,
         TakeLease(w) \/ SeeDeadLease(w) \/ BreakLease(w) \/ Release(w) \/ MaintainDies(w)
  PROVE  TypeInv'
<1>1. files \subseteq Things /\ lease \in {"free", "dead"} \cup Maintainers
  BY DEF TypeInv, Types
<1>2. CASE TakeLease(w)
  BY <1>1, <1>2, MaintainGoto DEF TakeLease
<1>3. CASE SeeDeadLease(w)
  BY <1>1, <1>3, MaintainGoto DEF SeeDeadLease
<1>4. CASE BreakLease(w)
  BY <1>1, <1>4, MaintainGoto DEF BreakLease
<1>5. CASE Release(w)
  BY <1>1, <1>5, MaintainAt DEF Release, Idle
<1>6. CASE MaintainDies(w)
  BY <1>1, <1>6, MaintainAt DEF MaintainDies, Idle
<1> QED
  BY <1>2, <1>3, <1>4, <1>5, <1>6

LEMMA NothingDueType ==
  ASSUME TypeInv, NEW w \in Maintainers, NoneDue(w) \/ NoPacksDue(w) \/ NextPass(w) \/ EndPasses(w)
  PROVE  TypeInv'
<1>1. files \subseteq Things /\ lease \in {"free", "dead"} \cup Maintainers
  BY DEF TypeInv, Types
<1>2. CASE NoneDue(w)
  BY <1>1, <1>2, MaintainGoto DEF NoneDue
<1>3. CASE NoPacksDue(w)
  BY <1>1, <1>3, MaintainGoto DEF NoPacksDue
<1>4. CASE NextPass(w)
  <2>1. process \in [Processes -> ProcRec] /\ w \in Processes
    BY Disjoint DEF TypeInv, Types
  <2> DEFINE pc == IF process[w].more THEN "layers" ELSE "sweep"
  <2>2. process' = [process EXCEPT ![w] = At(pc)] /\ pc \in {"layers", "sweep"}
    BY <1>4, <2>1 DEF NextPass
  <2> HIDE DEF pc
  <2> QED
    BY <1>1, <1>4, <2>2, MaintainAt DEF NextPass
<1>5. CASE EndPasses(w)
  BY <1>1, <1>5, MaintainAt DEF EndPasses
<1> QED
  BY <1>2, <1>3, <1>4, <1>5

-----------------------------------------------------------------------------
(* Stretches.                                                              *)

LEMMA StretchIs ==
  ASSUME NEW L, NEW ls \in Stretches(L)
  PROVE  /\ ls \subseteq L
         /\ \A l \in ls, j \in L : j.run = l.run => j \in ls
         /\ \A l \in ls : l.run \notin Blocked
         /\ \E l, j \in ls : l.run # j.run
         /\ \A l \in L \ ls : (\A j \in ls : Newer(l, j)) \/ (\A j \in ls : Newer(j, l))
<1>1. PICK rs \in SUBSET ({l.run : l \in L} \ Blocked) :
             /\ ls = OfRuns(L, rs) /\ Cardinality(rs) > 1
             /\ \A l \in L \ OfRuns(L, rs) : \/ \A j \in OfRuns(L, rs) : Newer(l, j)
                                             \/ \A j \in OfRuns(L, rs) : Newer(j, l)
  BY DEF Stretches
<1>2. \E a, b \in rs : a # b
  <2> SUFFICES ASSUME \A a, b \in rs : a = b PROVE FALSE
    OBVIOUS
  <2>1. CASE rs = {}
    BY <1>1, <2>1, FS_EmptySet
  <2>2. CASE rs # {}
    <3>1. PICK a \in rs : rs = {a}
      BY <2>2
    <3> QED
      BY <1>1, <3>1, FS_Singleton
  <2> QED
    BY <2>1, <2>2
<1>3. PICK a \in rs, b \in rs : a # b
  BY <1>2
<1>4. \A r \in rs : \E l \in L : l.run = r
  BY <1>1
<1>5. \E l, j \in ls : l.run # j.run
  BY <1>1, <1>3, <1>4 DEF OfRuns
<1>6. ls \subseteq L /\ (\A l \in ls, j \in L : j.run = l.run => j \in ls) /\ \A l \in ls : l.run \notin Blocked
  BY <1>1 DEF OfRuns
<1> QED
  BY <1>1, <1>5, <1>6

LEMMA NewestSeqIs ==
  ASSUME NEW ls, Bounded(ls), ls # {}
  PROVE  NewestSeq(ls) \in Nat /\ (\A l \in ls : l.seq <= NewestSeq(ls)) /\ \E l \in ls : l.seq = NewestSeq(ls)
<1> DEFINE S == {l.seq : l \in ls}
<1>1. PICK n \in Nat : \A l \in ls : l.seq \in 0 .. n /\ l.nth \in 0 .. n
  BY DEF Bounded
<1>2. S \subseteq Nat /\ S # {} /\ \A s \in S : s <= n
  BY <1>1
<1>3. Max(S) \in S /\ \A s \in S : s <= Max(S)
  <2> HIDE DEF S
  <2> QED
    BY <1>2, MaxOf
<1>4. Max(S) \in Nat
  BY <1>2, <1>3
<1>5. NewestSeq(ls) = Max(S)
  BY DEF NewestSeq
<1> QED
  BY <1>3, <1>4, <1>5

LEMMA MergedIs ==
  ASSUME NEW ls, Sorted(ls), Bounded(ls), ls \subseteq LayerRec, NEW keys \in SUBSET Keys
  PROVE  LET at == Merged(ls, keys) IN
         /\ at \in Ats
         /\ \A k : k \in DOMAIN at <=> k \in keys /\ \E l \in ls : k \in DOMAIN l.at
         /\ \A k \in DOMAIN at : \E l \in ls : /\ k \in DOMAIN l.at /\ at[k] = l.at[k]
                                               /\ \A j \in ls : k \in DOMAIN j.at => j = l \/ Newer(l, j)
<1> DEFINE at == Merged(ls, keys)
           K == {k \in keys : \E l \in ls : k \in DOMAIN l.at}
<1>1. DOMAIN at = K /\ \A k \in K : at[k] = NewestWith(ls, k).at[k]
  BY DEF Merged
<1>2. ASSUME NEW k \in K
      PROVE  /\ NewestWith(ls, k) \in ls /\ k \in DOMAIN NewestWith(ls, k).at
             /\ \A j \in ls : k \in DOMAIN j.at => j = NewestWith(ls, k) \/ Newer(NewestWith(ls, k), j)
  BY NewestIs
<1>3. \A l \in LayerRec : \A k \in DOMAIN l.at : l.at[k] \in Ids
  BY DEF LayerRec, Ats
<1>4. \A k \in K : at[k] \in Ids
  BY <1>1, <1>2, <1>3
<1>5. at = [k \in K |-> NewestWith(ls, k).at[k]]
  BY DEF Merged
<1> HIDE DEF at
<1>6. at \in [K -> Ids] /\ K \in SUBSET Keys
  BY <1>1, <1>4, <1>5
<1>7. at \in Ats
  BY <1>6 DEF Ats
<1> QED
  BY <1>1, <1>2, <1>7 DEF at

-----------------------------------------------------------------------------
(* What the steps that begin a change remember.                            *)

LEMMA NextId ==
  ASSUME TypeInv, next.id \in Ids
  PROVE  next.id \in Plans /\ next.id \in Nat /\ Layer(next.id) \in Things /\ Pack(next.id) \in Things
         /\ [next EXCEPT !.id = @ + 1] \in [id : Nat, key : Nat] /\ [next EXCEPT !.id = @ + 1].id = next.id + 1
         /\ [next EXCEPT !.id = @ + 1].key = next.key /\ next.id + 1 > N
<1>1. next \in [id : Nat, key : Nat] /\ next.id > N
  BY DEF TypeInv, Types
<1>2. next.id \in Plans
  BY <1>1, Constants
<1> QED
  BY <1>1, <1>2, Constants DEF Things

\* The run that a merge of layers writes.
MergedRun(id, ls) ==
    [id |-> id, run |-> id, seq |-> NewestSeq(ls), nth |-> 0, at |-> Merged(ls, Keys)]

LEMMA MergedRunIs ==
  ASSUME NEW ls, Sorted(ls), Bounded(ls), Numbered(ls), ls \subseteq LayerRec, ls # {}, NEW id \in Plans
  PROVE  LET l == MergedRun(id, ls) IN
         l \in LayerRec /\ l.id = id /\ l.run = id /\ l.seq = NewestSeq(ls) /\ l.nth = 0 /\ l.at = Merged(ls, Keys) /\ l.seq > 0
<1>1. Merged(ls, Keys) \in Ats
  BY MergedIs
<1>2. NewestSeq(ls) \in Nat /\ \E l \in ls : l.seq = NewestSeq(ls)
  BY NewestSeqIs
<1>3. NewestSeq(ls) > 0
  BY <1>2 DEF Numbered
<1>4. id \in Ids
  BY Constants
<1> QED
  BY <1>1, <1>2, <1>3, <1>4 DEF MergedRun, LayerRec

LEMMA MergeLayersIs ==
  ASSUME TypeInv, NEW w \in Maintainers, MergeLayers(w)
  PROVE  \E ls \in Stretches(Latest.layers) : \E r \in ProcRec :
            /\ process' = [process EXCEPT ![w] = r]
            /\ r.pc = "update" /\ r.then = "packs" /\ r.base = EmptyManifest /\ r.listed = {} /\ r.job = Message(0, 0)
            /\ r.change = [NoChange EXCEPT !.oldLayers = {l.id : l \in ls}, !.newLayers = {MergedRun(next.id, ls)}]
            /\ LayersMerged(r.change)
            /\ r.change.oldLayers = {l.id : l \in ls} /\ r.change.newLayers = {MergedRun(next.id, ls)}
            /\ MergedRun(next.id, ls) \in LayerRec /\ ls \subseteq LayerRec /\ ls # {} /\ next.id \in Plans
            /\ Sorted(ls) /\ Bounded(ls) /\ Numbered(ls)
<1>1. PICK ls \in Stretches(Latest.layers) :
          process' = [process EXCEPT ![w] =
              [At("update") EXCEPT
                 !.change.oldLayers = {l.id : l \in ls},
                 !.change.newLayers = {MergedRun(next.id, ls)},
                 !.then = "packs", !.more = TRUE]]
  BY DEF MergeLayers, MergedRun
<1>2. next.id \in Plans
  BY NextId DEF MergeLayers
<1>3. ls \subseteq Latest.layers /\ ls # {}
  BY StretchIs
<1>4. ManifestOK(Latest)
  BY LatestOK
<1>5. ls \subseteq LayerRec /\ Sorted(ls) /\ Bounded(ls) /\ Numbered(ls)
  BY <1>3, <1>4 DEF ManifestOK, ManifestRec, Sorted, Bounded, Numbered
<1> DEFINE run == MergedRun(next.id, ls)
           old == {l.id : l \in ls}
<1>6. run \in LayerRec /\ run.id = next.id /\ run.run = next.id /\ run.nth = 0 /\ run.seq > 0
  BY <1>2, <1>3, <1>5, MergedRunIs
<1>7. old \in SUBSET Ids /\ old # {}
  BY <1>3, <1>5 DEF LayerRec
<1> DEFINE a == At("update")
           ch == [NoChange EXCEPT !.oldLayers = old, !.newLayers = {run}]
           r == [a EXCEPT !.change = ch, !.then = "packs", !.more = TRUE]
<1>8. a \in ProcRec /\ a.pc = "update" /\ a.change = NoChange /\ a.base = EmptyManifest /\ a.job = Message(0, 0) /\ a.listed = {}
  BY AtIs DEF Steps
<1> HIDE DEF a, run, old
<1>9. process' = [process EXCEPT ![w] = r]
  BY <1>1, <1>8 DEF run, old, a, ProcRec
<1>10. /\ ch \in ChangeRec /\ ch.oldLayers = old /\ ch.newLayers = {run} /\ ch.oldPacks = {} /\ ch.newPacks = {}
       /\ ch.keepSeq = TRUE /\ ch.forget = {} /\ ch.adopts = {}
  BY <1>6, <1>7 DEF NoChange, ChangeRec
<1>11. LayersMerged(ch)
  BY <1>2, <1>6, <1>7, <1>10 DEF LayersMerged
<1>12. ch = [NoChange EXCEPT !.oldLayers = old, !.newLayers = {run}]
  OBVIOUS
<1> HIDE DEF ch
<1>13. r \in ProcRec /\ r.pc = "update" /\ r.then = "packs" /\ r.base = EmptyManifest /\ r.change = ch
       /\ r.job = Message(0, 0) /\ r.listed = {}
  BY <1>8, <1>10 DEF ProcRec, Steps
<1> HIDE DEF r
<1>14. r.change.oldLayers = {l.id : l \in ls} /\ r.change.newLayers = {MergedRun(next.id, ls)}
  BY <1>10, <1>13 DEF old, run
<1>15. MergedRun(next.id, ls) \in LayerRec
  BY <1>6 DEF run
<1>16. r.change = [NoChange EXCEPT !.oldLayers = {l.id : l \in ls}, !.newLayers = {MergedRun(next.id, ls)}]
  BY <1>12, <1>13 DEF old, run
<1> QED
  BY <1>2, <1>3, <1>5, <1>9, <1>11, <1>13, <1>14, <1>15, <1>16

\* A step of a process to a change it begins.
LEMMA BeginsType ==
  ASSUME TypeInv, NEW x \in Processes, NEW r \in ProcRec, ProcShape(x, r), r.pc = "update", r.base = EmptyManifest,
         process' = [process EXCEPT ![x] = r], UNCHANGED <<manifest, pending, plans, queue, lease, named>>,
         files' \subseteq Things, next' \in [id : Nat, key : Nat], next'.id > N, next'.key = next.key
  PROVE  TypeInv'
<1>1. Quiet(r)
  BY NoChangeIs DEF Quiet, TypeInv, Types, ManifestOK, ManifestRec
<1>2. process' \in [Processes -> ProcRec] /\ (\A y \in Processes : ProcShape(y, process'[y])) /\ KeyFacts'
  BY <1>1, QuietStep
<1> QED
  BY <1>2 DEF TypeInv, Types, Shapes

LEMMA MergeLayersType ==
  ASSUME TypeInv, NEW w \in Maintainers, MergeLayers(w)
  PROVE  TypeInv'
<1>1. PICK r \in ProcRec :
            /\ process' = [process EXCEPT ![w] = r]
            /\ r.pc = "update" /\ r.then = "packs" /\ r.base = EmptyManifest /\ LayersMerged(r.change)
  BY MergeLayersIs
<1>2. MaintainShape(r)
  BY <1>1 DEF MaintainShape, Changing
<1>3. next.id \in Ids /\ files' = files \cup {Layer(next.id)} /\ next' = [next EXCEPT !.id = @ + 1]
      /\ UNCHANGED <<manifest, pending, plans, queue, lease, named>>
  BY DEF MergeLayers
<1>4. files' \subseteq Things
  BY <1>3, NextId DEF TypeInv, Types
<1> QED
  BY <1>1, <1>2, <1>3, <1>4, NextId, MaintainShaped, BeginsType, Disjoint

LEMMA SplitMergeIs ==
  ASSUME TypeInv, NEW w \in Maintainers, SplitMerge(w)
  PROVE  \E ls \in Stretches(Latest.layers) : \E P \in PlanRec :
            /\ plans' = [plans EXCEPT ![next.id] = P] /\ next.id \in Plans
            /\ P.layers = ls /\ P.seq = NewestSeq(ls) /\ P.there = TRUE /\ P.old = FALSE /\ P.claimed = FALSE /\ P.done = {}
            /\ P.result = [i \in DOMAIN Ranges |-> {}]
            /\ PlanShape(next.id, P) /\ P.seq > 0
            /\ ls \subseteq LayerRec /\ ls # {} /\ Sorted(ls) /\ Bounded(ls) /\ Numbered(ls)
<1>1. PICK ls \in Stretches(Latest.layers) :
          plans' = [plans EXCEPT ![next.id] =
                 [NoPlan EXCEPT !.layers = ls, !.seq = NewestSeq(ls), !.there = TRUE]]
  BY DEF SplitMerge
<1>2. next.id \in Plans
  BY NextId DEF SplitMerge
<1>3. ls \subseteq Latest.layers /\ ls # {}
  BY StretchIs
<1>4. ManifestOK(Latest)
  BY LatestOK
<1>5. ls \subseteq LayerRec /\ Sorted(ls) /\ Bounded(ls) /\ Numbered(ls)
  BY <1>3, <1>4 DEF ManifestOK, ManifestRec, Sorted, Bounded, Numbered
<1>6. NewestSeq(ls) \in Nat /\ NewestSeq(ls) > 0
  <2>1. NewestSeq(ls) \in Nat /\ \E l \in ls : l.seq = NewestSeq(ls)
    BY <1>3, <1>5, NewestSeqIs
  <2> QED
    BY <1>5, <2>1 DEF Numbered
<1> DEFINE none == [i \in DOMAIN Ranges |-> {}]
           s == NewestSeq(ls)
           P == [NoPlan EXCEPT !.layers = ls, !.seq = s, !.there = TRUE]
<1>7. none \in [DOMAIN Ranges -> SUBSET LayerRec] /\ \A i \in DOMAIN Ranges : none[i] = {}
  OBVIOUS
<1>8. NoPlan = [layers |-> {}, seq |-> 0, there |-> FALSE, old |-> FALSE, claimed |-> FALSE, result |-> none, done |-> {}]
  BY DEF NoPlan
<1>a. s \in Nat /\ s > 0
  BY <1>6
<1>b. plans' = [plans EXCEPT ![next.id] = P]
  BY <1>1
<1> HIDE DEF none, s
<1>9. /\ P \in PlanRec /\ P.layers = ls /\ P.seq = s /\ P.there = TRUE /\ P.old = FALSE /\ P.claimed = FALSE /\ P.done = {}
      /\ P.result = none
  BY <1>5, <1>7, <1>8, <1>a DEF PlanRec
<1> HIDE DEF P
<1>10. PlanShape(next.id, P)
  BY <1>3, <1>5, <1>7, <1>9, <1>a DEF PlanShape
<1> QED
  BY <1>2, <1>3, <1>5, <1>9, <1>10, <1>a, <1>b DEF none, s

\* A step of one process that changes plans as well.
LEMMA PlanStep ==
  ASSUME TypeInv, NEW x \in Processes, NEW r \in ProcRec, ProcShape(x, r), Quiet(r),
         process' = [process EXCEPT ![x] = r], UNCHANGED <<manifest, pending, named>>, lease' = lease,
         NEW p \in Plans, NEW P \in PlanRec, PlanShape(p, P), plans' = [plans EXCEPT ![p] = P],
         files' \subseteq Things, queue' \subseteq [plan : Plans, range : DOMAIN Ranges],
         next' \in [id : Nat, key : Nat], next'.id > N, next'.key = next.key
  PROVE  TypeInv'
<1>1. process' \in [Processes -> ProcRec] /\ (\A y \in Processes : ProcShape(y, process'[y])) /\ KeyFacts'
  BY QuietStep
<1>2. plans \in [Plans -> PlanRec] /\ \A i \in Plans : PlanShape(i, plans[i])
  BY DEF TypeInv, Types, Shapes
<1>3. plans' \in [Plans -> PlanRec] /\ plans'[p] = P /\ \A i \in Plans : i # p => plans'[i] = plans[i]
  BY <1>2
<1>4. \A i \in Plans : PlanShape(i, plans'[i])
  BY <1>2, <1>3
<1> QED
  BY <1>1, <1>3, <1>4 DEF TypeInv, Types, Shapes

LEMMA SplitMergeType ==
  ASSUME TypeInv, NEW w \in Maintainers, SplitMerge(w)
  PROVE  TypeInv'
<1>1. PICK P \in PlanRec : plans' = [plans EXCEPT ![next.id] = P] /\ PlanShape(next.id, P) /\ next.id \in Plans
  BY SplitMergeIs
<1>2. /\ UNCHANGED <<manifest, pending, files, lease, named>> /\ next' = [next EXCEPT !.id = @ + 1] /\ next.id \in Ids
      /\ queue' = queue \cup {Message(next.id, i) : i \in DOMAIN Ranges}
      /\ process' = [process EXCEPT ![w].pc = "packs", ![w].more = TRUE]
  BY DEF SplitMerge
<1> DEFINE q == process[w]
           r == [q EXCEPT !.pc = "packs", !.more = TRUE]
<1>3. w \in Processes /\ process \in [Processes -> ProcRec] /\ q \in ProcRec /\ q.base.seq <= manifest.seq
  BY Disjoint DEF TypeInv, Types, KeyFacts
<1>4. process' = [process EXCEPT ![w] = r]
  BY <1>2, <1>3
<1> HIDE DEF q
<1>5. r \in ProcRec /\ r.pc = "packs" /\ r.base = q.base
  BY <1>3 DEF ProcRec, Steps
<1> HIDE DEF r
<1>6. MaintainShape(r) /\ Quiet(r)
  BY <1>3, <1>5 DEF MaintainShape, Changing, Quiet
<1>7. queue' \subseteq [plan : Plans, range : DOMAIN Ranges]
  <2>1. \A i \in DOMAIN Ranges : Message(next.id, i) \in [plan : Plans, range : DOMAIN Ranges]
    BY <1>1 DEF Message
  <2> QED
    BY <1>2, <2>1 DEF TypeInv, Types
<1>8. files' \subseteq Things
  BY <1>2 DEF TypeInv, Types
<1> QED
  BY <1>1, <1>2, <1>3, <1>4, <1>5, <1>6, <1>7, <1>8, NextId, MaintainShaped, PlanStep

\* The pack that a merge of packs writes, and its layer.
MergedPack(id, tier, S) == [id |-> id, tier |-> tier + 1, keys |-> UNION {p.keys : p \in S}]
PackLayer(id, S) ==
    [id |-> id, run |-> id, seq |-> 0, nth |-> 0, at |-> [k \in UNION {p.keys : p \in S} |-> id]]

LEMMA MergePacksIs ==
  ASSUME TypeInv, NEW w \in Maintainers, MergePacks(w)
  PROVE  \E tier \in 0 .. MaxTier : \E S \in SUBSET {p \in Latest.packs : p.tier = tier /\ ~Final(p)} : \E r \in ProcRec :
            /\ process' = [process EXCEPT ![w] = r] /\ next.id \in Plans
            /\ r.pc = "update" /\ r.then = "pass" /\ r.base = EmptyManifest /\ r.listed = {} /\ r.job = Message(0, 0)
            /\ r.change.oldPacks = {p.id : p \in S} /\ r.change.newPacks = {MergedPack(next.id, tier, S)}
            /\ r.change.newLayers = {PackLayer(next.id, S)} /\ r.change.oldLayers = {} /\ ~r.change.keepSeq
            /\ r.change.forget = {} /\ r.change.adopts = {}
            /\ PacksMerged(r.change) /\ S # {}
            /\ PackLayer(next.id, S) \in LayerRec /\ MergedPack(next.id, tier, S) \in PackRec
<1> DEFINE due(t) == {p \in Latest.packs : p.tier = t /\ ~Final(p)}
           begun(t, S) == process' = [process EXCEPT ![w] =
                 [At("update") EXCEPT
                    !.change.oldPacks = {p.id : p \in S},
                    !.change.newPacks = {MergedPack(next.id, t, S)},
                    !.change.newLayers = {PackLayer(next.id, S)},
                    !.change.keepSeq = FALSE, !.then = "pass", !.more = TRUE]]
<1>a. PICK tier \in 0 .. MaxTier : \E S \in SUBSET due(tier) : begun(tier, S) /\ Cardinality(S) >= PackFanout
  BY DEF MergePacks, MergedPack, PackLayer
<1>1. PICK S \in SUBSET due(tier) : begun(tier, S) /\ Cardinality(S) >= PackFanout
  BY <1>a
<1>17. S # {}
  <2>1. PackFanout > 1 /\ PackFanout \in Nat /\ Cardinality({}) = 0
    BY FS_EmptySet, KeyedLayoutConstants
  <2> QED
    BY <1>1, <2>1
<1>2. next.id \in Plans /\ next.id \in Ids
  BY NextId DEF MergePacks
<1>3. ManifestOK(Latest)
  BY LatestOK
<1>4. S \subseteq PackRec
  BY <1>3 DEF ManifestOK, ManifestRec
<1> DEFINE keys == UNION {p.keys : p \in S}
           old == {p.id : p \in S}
           at == [k \in keys |-> next.id]
           l == PackLayer(next.id, S)
           pk == MergedPack(next.id, tier, S)
<1>5. keys \in SUBSET Keys /\ old \in SUBSET Ids
  BY <1>4 DEF PackRec
<1>6. tier + 1 \in Nat
  BY Constants
<1>7. at \in Ats /\ DOMAIN at = keys /\ \A k \in keys : at[k] = next.id
  <2> HIDE DEF keys
  <2>1. at \in [keys -> Ids]
    BY <1>2
  <2> QED
    BY <1>5, <2>1 DEF Ats
<1>8. l \in LayerRec /\ l.run = l.id /\ l.id = next.id /\ l.nth = 0 /\ l.seq = 0 /\ l.at = at
  <2> HIDE DEF at
  <2>1. l = [id |-> next.id, run |-> next.id, seq |-> 0, nth |-> 0, at |-> at]
    BY DEF PackLayer, at
  <2> QED
    BY <1>2, <1>7, <2>1 DEF LayerRec
<1>9. pk \in PackRec /\ pk.id = next.id /\ pk.keys = keys
  BY <1>2, <1>5, <1>6 DEF MergedPack, PackRec
<1> DEFINE a == At("update")
           ch == [NoChange EXCEPT !.oldPacks = old, !.newPacks = {pk}, !.newLayers = {l}, !.keepSeq = FALSE]
           r == [a EXCEPT !.change = ch, !.then = "pass", !.more = TRUE]
<1>10. a \in ProcRec /\ a.pc = "update" /\ a.change = NoChange /\ a.base = EmptyManifest /\ a.job = Message(0, 0) /\ a.listed = {}
  BY AtIs DEF Steps
<1> HIDE DEF a, l, pk, old, at, keys
<1>11. process' = [process EXCEPT ![w] = r]
  BY <1>1, <1>10 DEF l, pk, old, a, ProcRec
<1>12. /\ ch \in ChangeRec /\ ch.oldPacks = old /\ ch.newLayers = {l} /\ ch.oldLayers = {} /\ ch.newPacks = {pk}
       /\ ch.keepSeq = FALSE /\ ch.forget = {} /\ ch.adopts = {}
  BY <1>5, <1>8, <1>9 DEF NoChange, ChangeRec
<1> HIDE DEF ch
<1>13. PacksMerged(ch)
  BY <1>2, <1>7, <1>8, <1>9, <1>12 DEF PacksMerged
<1>14. r \in ProcRec /\ r.pc = "update" /\ r.then = "pass" /\ r.base = EmptyManifest /\ r.change = ch
       /\ r.job = Message(0, 0) /\ r.listed = {}
  BY <1>10, <1>12 DEF ProcRec, Steps
<1> HIDE DEF r
<1>15. r.change.oldPacks = {p.id : p \in S} /\ r.change.newPacks = {MergedPack(next.id, tier, S)}
       /\ r.change.newLayers = {PackLayer(next.id, S)}
  BY <1>12, <1>14 DEF old, l, pk
<1>16. PackLayer(next.id, S) \in LayerRec /\ MergedPack(next.id, tier, S) \in PackRec
  BY <1>8, <1>9 DEF l, pk
<1> QED
  BY <1>2, <1>11, <1>12, <1>13, <1>14, <1>15, <1>16, <1>17

LEMMA MergePacksType ==
  ASSUME TypeInv, NEW w \in Maintainers, MergePacks(w)
  PROVE  TypeInv'
<1>1. PICK r \in ProcRec :
            /\ process' = [process EXCEPT ![w] = r]
            /\ r.pc = "update" /\ r.then = "pass" /\ r.base = EmptyManifest /\ PacksMerged(r.change)
  BY MergePacksIs
<1>2. MaintainShape(r)
  BY <1>1 DEF MaintainShape, Changing
<1>3. next.id \in Ids /\ files' = files \cup {Layer(next.id), Pack(next.id)} /\ next' = [next EXCEPT !.id = @ + 1]
      /\ UNCHANGED <<manifest, pending, plans, queue, lease, named>>
  BY DEF MergePacks
<1>4. files' \subseteq Things
  BY <1>3, NextId DEF TypeInv, Types
<1> QED
  BY <1>1, <1>2, <1>3, <1>4, NextId, MaintainShaped, BeginsType, Disjoint

LEMMA SweepIs ==
  ASSUME TypeInv, NEW w \in Maintainers, SweepRetired(w)
  PROVE  \/ Goto(w, "release") /\ files' = files
         \/ \E r \in ProcRec :
               /\ process' = [process EXCEPT ![w] = r] /\ files' = files \ manifest.retired
               /\ r.pc = "update" /\ r.then = "release" /\ r.base = EmptyManifest /\ r.listed = {} /\ r.job = Message(0, 0)
               /\ r.change = [NoChange EXCEPT !.forget = manifest.retired] /\ r.change.forget = manifest.retired
               /\ Forgetting(r.change)
<1>1. CASE Goto(w, "release") /\ UNCHANGED files
  BY <1>1
<1>2. CASE /\ Latest.retired # {}
           /\ files' = files \ Latest.retired
           /\ process' = [process EXCEPT ![w] =
                  [At("update") EXCEPT !.change.forget = Latest.retired, !.then = "release"]]
  <2>1. Latest.retired = manifest.retired
    BY LatestOK
  <2>2. manifest.retired \subseteq Things
    BY DEF TypeInv, Types, ManifestOK, ManifestRec
  <2> DEFINE a == At("update")
             old == manifest.retired
             ch == [NoChange EXCEPT !.forget = old]
             r == [a EXCEPT !.change = ch, !.then = "release"]
  <2>3. a \in ProcRec /\ a.pc = "update" /\ a.change = NoChange /\ a.base = EmptyManifest /\ a.job = Message(0, 0) /\ a.listed = {}
    BY AtIs DEF Steps
  <2> HIDE DEF a, old
  <2>4. process' = [process EXCEPT ![w] = r]
    BY <1>2, <2>1, <2>3 DEF a, old, ProcRec
  <2>5. /\ ch \in ChangeRec /\ ch.forget = old /\ Forgetting(ch)
    BY <2>2 DEF old, NoChange, ChangeRec, Forgetting
  <2>6. ch = [NoChange EXCEPT !.forget = old]
    OBVIOUS
  <2> HIDE DEF ch
  <2>7. r \in ProcRec /\ r.pc = "update" /\ r.then = "release" /\ r.base = EmptyManifest /\ r.change = ch /\ r.listed = {}
        /\ r.job = Message(0, 0)
    BY <2>3, <2>5 DEF ProcRec, Steps
  <2> HIDE DEF r
  <2>8. files' = files \ manifest.retired
    BY <1>2, <2>1
  <2> QED
    BY <2>4, <2>5, <2>6, <2>7, <2>8 DEF old
<1> QED
  BY <1>1, <1>2 DEF SweepRetired

LEMMA SweepRetiredType ==
  ASSUME TypeInv, NEW w \in Maintainers, SweepRetired(w)
  PROVE  TypeInv'
<1>1. UNCHANGED <<manifest, pending, plans, queue, lease, named, next>>
  BY DEF SweepRetired
<1>2. files \subseteq Things /\ lease \in {"free", "dead"} \cup Maintainers /\ next \in [id : Nat, key : Nat] /\ next.id > N
  BY DEF TypeInv, Types
<1>3. CASE Goto(w, "release") /\ files' = files
  BY <1>1, <1>2, <1>3, MaintainGoto
<1>4. CASE \E r \in ProcRec :
               /\ process' = [process EXCEPT ![w] = r] /\ files' = files \ manifest.retired
               /\ r.pc = "update" /\ r.then = "release" /\ r.base = EmptyManifest /\ Forgetting(r.change)
  <2>1. PICK r \in ProcRec :
               /\ process' = [process EXCEPT ![w] = r] /\ files' = files \ manifest.retired
               /\ r.pc = "update" /\ r.then = "release" /\ r.base = EmptyManifest /\ Forgetting(r.change)
    BY <1>4
  <2>2. MaintainShape(r)
    BY <2>1 DEF MaintainShape, Changing
  <2> QED
    BY <1>1, <1>2, <2>1, <2>2, MaintainShaped, BeginsType, Disjoint
<1> QED
  BY <1>3, <1>4, SweepIs

-----------------------------------------------------------------------------
(* A split merge's jobs.                                                   *)

LEMMA JobTyped ==
  ASSUME TypeInv, NEW g \in Mergers, process[g].pc # "idle"
  PROVE  g \in Processes /\ process[g].job.plan \in Plans /\ process[g].job.range \in DOMAIN Ranges
         /\ plans[process[g].job.plan] \in PlanRec /\ PlanShape(process[g].job.plan, plans[process[g].job.plan])
<1>1. g \in Processes
  BY Disjoint
<1>2. MergeShape(process[g])
  BY <1>1 DEF TypeInv, Shapes, ProcShape
<1>3. process[g].job.plan \in Plans /\ process[g].job.range \in DOMAIN Ranges
  BY <1>2 DEF MergeShape
<1> QED
  BY <1>1, <1>3 DEF TypeInv, Types, Shapes

LEMMA MergeGotoIs ==
  ASSUME TypeInv, NEW g \in Mergers, process[g].pc # "idle",
         NEW pc \in {"write", "dropAll", "count", "swap", "results", "dropping"}, Goto(g, pc)
  PROVE  LET r == [process[g] EXCEPT !.pc = pc] IN
         /\ process' = [process EXCEPT ![g] = r] /\ r \in ProcRec /\ r.pc = pc /\ r.job = process[g].job
         /\ r.listed = process[g].listed /\ r.change = process[g].change
         /\ ProcShape(g, r) /\ Quiet(r) /\ g \in Processes
<1> DEFINE r == [process[g] EXCEPT !.pc = pc]
<1>1. g \in Processes /\ process[g].job.plan \in Plans /\ process[g].job.range \in DOMAIN Ranges
  BY JobTyped
<1>2. pc \in Steps
  BY DEF Steps
<1>3. process' = [process EXCEPT ![g] = r] /\ r \in ProcRec /\ r.pc = pc /\ r.base.seq <= manifest.seq /\ r.job = process[g].job
      /\ r.listed = process[g].listed /\ r.change = process[g].change
  BY <1>1, <1>2, GotoIs
<1> HIDE DEF r
<1>4. MergeShape(r) /\ Quiet(r)
  BY <1>1, <1>3 DEF MergeShape, Changing, Quiet
<1> QED
  BY <1>1, <1>3, <1>4, MergeShaped DEF r

LEMMA MergeGoto ==
  ASSUME TypeInv, NEW g \in Mergers, process[g].pc # "idle",
         NEW pc \in {"write", "dropAll", "count", "swap", "results", "dropping"}, Goto(g, pc),
         UNCHANGED <<manifest, pending, files, plans, queue, lease, named, next>>
  PROVE  TypeInv'
<1>1. files \subseteq Things /\ lease \in {"free", "dead"} \cup Maintainers /\ queue \subseteq [plan : Plans, range : DOMAIN Ranges]
  BY DEF TypeInv, Types
<1> QED
  BY <1>1, MergeGotoIs, QuietType

LEMMA IdleIs ==
  Idle \in ProcRec /\ Idle.pc = "idle" /\ Idle.change = NoChange /\ Idle.base = EmptyManifest /\ Idle.listed = {}
  /\ Idle.job = Message(0, 0) /\ MergeShape(Idle) /\ MaintainShape(Idle) /\ (TypeInv => Quiet(Idle))
<1>1. Idle \in ProcRec /\ Idle.pc = "idle" /\ Idle.change = NoChange /\ Idle.base = EmptyManifest /\ Idle.job = Message(0, 0)
      /\ Idle.listed = {}
  BY AtIs DEF Idle, Steps
<1>2. MergeShape(Idle) /\ MaintainShape(Idle)
  BY <1>1 DEF MergeShape, MaintainShape, Changing
<1>3. TypeInv => Quiet(Idle)
  BY <1>1, NoChangeIs DEF Quiet, TypeInv, Types, ManifestOK, ManifestRec
<1> QED
  BY <1>1, <1>2, <1>3

LEMMA MergeIdle ==
  ASSUME TypeInv, NEW g \in Mergers, process' = [process EXCEPT ![g] = Idle],
         UNCHANGED <<manifest, pending, files, plans, lease, named, next>>,
         queue' \subseteq [plan : Plans, range : DOMAIN Ranges]
  PROVE  TypeInv'
<1>1. files \subseteq Things /\ lease \in {"free", "dead"} \cup Maintainers
  BY DEF TypeInv, Types
<1> QED
  BY <1>1, IdleIs, MergeShaped, Disjoint, QuietType

LEMMA StartRangeIs ==
  ASSUME TypeInv, NEW g \in Mergers, NEW m \in queue, StartRange(g, m)
  PROVE  /\ m.plan \in Plans /\ m.range \in DOMAIN Ranges
         /\ \/ process' = [process EXCEPT ![g] = Idle]
            \/ \E r \in ProcRec :
                  /\ process' = [process EXCEPT ![g] = r] /\ plans[m.plan].there
                  /\ r.pc = "range" /\ r.job = m /\ r.change = NoChange /\ r.listed = {} /\ MergeShape(r) /\ Quiet(r)
<1>1. m \in [plan : Plans, range : DOMAIN Ranges]
  BY DEF TypeInv, Types
<1>2. CASE plans[m.plan].there
  <2> DEFINE a == At("range")
             r == [a EXCEPT !.job = m]
  <2>1. a \in ProcRec /\ a.pc = "range" /\ a.base = EmptyManifest /\ a.change = NoChange /\ a.listed = {}
    BY AtIs DEF Steps
  <2>2. process' = [process EXCEPT ![g] = r]
    BY <1>2 DEF StartRange
  <2> HIDE DEF a
  <2>3. m \in JobRec
    BY <1>1, Constants DEF JobRec
  <2>4. r \in ProcRec /\ r.pc = "range" /\ r.job = m /\ r.base = EmptyManifest /\ r.change = NoChange /\ r.listed = {}
    BY <2>1, <2>3 DEF ProcRec
  <2> HIDE DEF r
  <2>5. MergeShape(r) /\ Quiet(r)
    BY <1>1, <2>4, NoChangeIs DEF MergeShape, Changing, Quiet, TypeInv, Types, ManifestOK, ManifestRec
  <2> QED
    BY <1>1, <1>2, <2>2, <2>4, <2>5
<1>3. CASE ~plans[m.plan].there
  BY <1>1, <1>3 DEF StartRange
<1> QED
  BY <1>2, <1>3

LEMMA StartRangeType ==
  ASSUME TypeInv, NEW g \in Mergers, NEW m \in queue, StartRange(g, m)
  PROVE  TypeInv'
<1>1. UNCHANGED <<manifest, pending, files, plans, lease, named, next>> /\ queue' \subseteq queue
  BY DEF StartRange
<1>2. files \subseteq Things /\ lease \in {"free", "dead"} \cup Maintainers /\ queue \subseteq [plan : Plans, range : DOMAIN Ranges]
  BY DEF TypeInv, Types
<1>3. CASE process' = [process EXCEPT ![g] = Idle]
  BY <1>1, <1>2, <1>3, MergeIdle
<1>4. CASE \E r \in ProcRec : process' = [process EXCEPT ![g] = r] /\ MergeShape(r) /\ Quiet(r)
  BY <1>1, <1>2, <1>4, MergeShaped, Disjoint, QuietType
<1> QED
  BY <1>3, <1>4, StartRangeIs

LEMMA ResultsIs ==
  ASSUME TypeInv, NEW p \in Plans
  PROVE  LET P == plans[p] IN
         /\ P \in PlanRec /\ PlanShape(p, P)
         /\ Results(P) \subseteq LayerRec
         /\ \A l \in Results(P) : \E i \in DOMAIN Ranges : l \in P.result[i]
         /\ \A i \in DOMAIN Ranges : P.result[i] \subseteq Results(P)
         /\ \A l \in Results(P) : /\ P.there /\ P.seq > 0
                                  /\ l.run = p /\ l.seq = P.seq /\ l.nth = 0 /\ l.id \in Plans
         /\ \A l, j \in Results(P) : l # j => DOMAIN l.at \cap DOMAIN j.at = {}
<1> DEFINE P == plans[p]
<1>1. P \in PlanRec /\ PlanShape(p, P)
  BY DEF TypeInv, Types, Shapes
<1> HIDE DEF P
<1>2. \A l \in Results(P) : \E i \in DOMAIN Ranges : l \in P.result[i]
  BY DEF Results
<1>3. \A i \in DOMAIN Ranges : P.result[i] \subseteq Results(P)
  BY DEF Results
<1>4. \A i \in DOMAIN Ranges : P.result[i] \subseteq LayerRec
  BY <1>1 DEF PlanRec
<1>5. \A l \in Results(P) : /\ P.there /\ P.seq > 0
                            /\ l.run = p /\ l.seq = P.seq /\ l.nth = 0 /\ l.id \in Plans
  BY <1>1, <1>2 DEF PlanShape
<1>6. \A l, j \in Results(P) : l # j => DOMAIN l.at \cap DOMAIN j.at = {}
  <2> SUFFICES ASSUME NEW l \in Results(P), NEW j \in Results(P), l # j PROVE DOMAIN l.at \cap DOMAIN j.at = {}
    OBVIOUS
  <2>1. PICK a \in DOMAIN Ranges : l \in P.result[a]
    BY <1>2
  <2>2. PICK b \in DOMAIN Ranges : j \in P.result[b]
    BY <1>2
  <2>3. a # b
    BY <1>1, <2>1, <2>2 DEF PlanShape
  <2>4. DOMAIN l.at \subseteq Ranges[a] /\ DOMAIN j.at \subseteq Ranges[b]
    BY <1>1, <2>1, <2>2 DEF PlanShape
  <2> QED
    BY <2>3, <2>4, Constants
<1>7. Results(P) \subseteq LayerRec
  BY <1>2, <1>4
<1> QED
  BY <1>1, <1>2, <1>3, <1>5, <1>6, <1>7 DEF P

LEMMA MergeSwapIs ==
  ASSUME TypeInv, NEW g \in Mergers, MergeSwap(g), PlanOf(g).done = DOMAIN Ranges
  PROVE  LET p == process[g].job.plan IN
         \E r \in ProcRec :
            /\ process' = [process EXCEPT ![g] = r] /\ p \in Plans
            /\ r.pc = "update" /\ r.then = "dropping" /\ r.base = EmptyManifest /\ r.listed = {} /\ r.job = process[g].job
            /\ r.change = [NoChange EXCEPT !.oldLayers = {l.id : l \in plans[p].layers}, !.newLayers = Results(plans[p])]
            /\ r.change.oldLayers = {l.id : l \in plans[p].layers} /\ r.change.newLayers = Results(plans[p])
            /\ RunSwapped(r.change, p) /\ MergeShape(r)
<1> DEFINE p == process[g].job.plan
           P == plans[p]
<1>1. process[g].pc = "results"
  BY DEF MergeSwap
<1>2. g \in Processes /\ p \in Plans /\ process[g].job.range \in DOMAIN Ranges /\ process[g] \in ProcRec
  BY <1>1, JobTyped, ProcessTyped
<1>3. /\ P \in PlanRec /\ Results(P) \subseteq LayerRec
      /\ \A l \in Results(P) : P.seq > 0 /\ l.run = p /\ l.seq = P.seq /\ l.nth = 0 /\ l.id \in Plans
      /\ \A l, j \in Results(P) : l # j => DOMAIN l.at \cap DOMAIN j.at = {}
  BY <1>2, ResultsIs
<1> DEFINE old == {l.id : l \in P.layers}
           new == Results(P)
           job == process[g].job
           a == At("update")
           ch == [NoChange EXCEPT !.oldLayers = old, !.newLayers = new]
           r == [a EXCEPT !.change = ch, !.then = "dropping", !.job = job]
<1>4. old \in SUBSET Ids
  BY <1>3 DEF PlanRec, LayerRec
<1>5. a \in ProcRec /\ a.pc = "update" /\ a.change = NoChange /\ a.base = EmptyManifest /\ a.listed = {}
  BY AtIs DEF Steps
<1>6. job \in JobRec /\ job.plan = p /\ job.range \in DOMAIN Ranges
  BY <1>2 DEF ProcRec
<1>7. process' = [process EXCEPT ![g] =
              [At("update") EXCEPT !.change.oldLayers = old,
                                   !.change.newLayers = new,
                                   !.then = "dropping", !.job = job]]
  BY DEF MergeSwap, PlanOf
<1> HIDE DEF a, old, new, job, P
<1>8. process' = [process EXCEPT ![g] = r]
  BY <1>5, <1>7 DEF a, ProcRec
<1>9. new \in SUBSET LayerRec
  BY <1>3 DEF new
<1>10. /\ ch \in ChangeRec /\ ch.oldLayers = old /\ ch.newLayers = new /\ ch.oldPacks = {} /\ ch.newPacks = {}
       /\ ch.keepSeq = TRUE /\ ch.forget = {} /\ ch.adopts = {}
  BY <1>4, <1>9 DEF NoChange, ChangeRec
<1>11. ch = [NoChange EXCEPT !.oldLayers = old, !.newLayers = new]
  OBVIOUS
<1> HIDE DEF ch
<1>12. r \in ProcRec /\ r.pc = "update" /\ r.then = "dropping" /\ r.base = EmptyManifest /\ r.change = ch /\ r.job = job
       /\ r.listed = {}
  BY <1>5, <1>6, <1>10 DEF ProcRec, Steps
<1> HIDE DEF r
<1>13. RunSwapped(ch, p)
  <2>1. \E s \in Nat \ {0} : \A l \in new : l.seq = s /\ l.nth = 0 /\ l.run = p /\ l.id \in Plans
    <3>1. CASE new = {}
      <4>1. 1 \in Nat \ {0}
        OBVIOUS
      <4> QED
        BY <3>1, <4>1
    <3>2. CASE new # {}
      BY <1>3, <3>2 DEF new, PlanRec
    <3> QED
      BY <3>1, <3>2
  <2>2. \A l, j \in new : l # j => DOMAIN l.at \cap DOMAIN j.at = {}
    BY <1>3 DEF new
  <2> QED
    BY <1>10, <2>1, <2>2 DEF RunSwapped
<1>14. MergeShape(r)
  BY <1>2, <1>6, <1>12, <1>13 DEF MergeShape, Changing
<1> QED
  BY <1>2, <1>8, <1>10, <1>11, <1>12, <1>13, <1>14 DEF old, new, job, P

LEMMA MergeSwapType ==
  ASSUME TypeInv, NEW g \in Mergers, MergeSwap(g)
  PROVE  TypeInv'
<1>1. UNCHANGED <<manifest, pending, files, plans, queue, lease, named, next>> /\ process[g].pc = "results"
  BY DEF MergeSwap
<1>2. CASE PlanOf(g).done # DOMAIN Ranges
  BY <1>1, <1>2, MergeGoto DEF MergeSwap
<1>3. CASE PlanOf(g).done = DOMAIN Ranges
  <2>1. PICK r \in ProcRec : process' = [process EXCEPT ![g] = r] /\ r.pc = "update" /\ r.base = EmptyManifest /\ MergeShape(r)
    BY <1>3, MergeSwapIs
  <2>2. files \subseteq Things /\ next \in [id : Nat, key : Nat] /\ next.id > N
    BY DEF TypeInv, Types
  <2> QED
    BY <1>1, <2>1, <2>2, MergeShaped, Disjoint, BeginsType
<1> QED
  BY <1>2, <1>3

LEMMA CheckInputsType ==
  ASSUME TypeInv, NEW g \in Mergers, CheckInputs(g)
  PROVE  TypeInv'
<1> DEFINE pc == IF {l.id : l \in PlanOf(g).layers} \subseteq LayerIds(Latest) THEN "write" ELSE "dropAll"
<1>1. process[g].pc = "range" /\ Goto(g, pc) /\ UNCHANGED <<manifest, pending, files, plans, queue, lease, named, next>>
  BY DEF CheckInputs
<1>2. pc \in {"write", "dropAll"}
  OBVIOUS
<1> HIDE DEF pc
<1> QED
  BY <1>1, <1>2, MergeGoto

LEMMA CountRangesType ==
  ASSUME TypeInv, NEW g \in Mergers, CountRanges(g)
  PROVE  TypeInv'
<1>1. process[g].pc = "count" /\ UNCHANGED <<manifest, pending, files, plans, queue, lease, named, next>>
  BY DEF CountRanges
<1>2. queue' \subseteq [plan : Plans, range : DOMAIN Ranges]
  BY <1>1 DEF TypeInv, Types
<1>3. CASE Goto(g, "swap")
  BY <1>1, <1>3, MergeGoto
<1>4. CASE process' = [process EXCEPT ![g] = Idle]
  BY <1>1, <1>2, <1>4, MergeIdle
<1> QED
  BY <1>3, <1>4 DEF CountRanges

LEMMA SameShape ==
  ASSUME NEW p, NEW Q \in PlanRec, NEW P \in PlanRec, PlanShape(p, Q),
         P.layers = Q.layers, P.there = Q.there, P.seq = Q.seq, P.result = Q.result
  PROVE  PlanShape(p, P)
BY DEF PlanShape

LEMMA ClaimSwapType ==
  ASSUME TypeInv, NEW g \in Mergers, ClaimSwap(g)
  PROVE  TypeInv'
<1> DEFINE p == process[g].job.plan
           Q == plans[p]
           P == [Q EXCEPT !.claimed = TRUE]
<1>1. process[g].pc = "swap" /\ UNCHANGED <<manifest, pending, files, queue, lease, named, next>>
  BY DEF ClaimSwap
<1>2. queue \subseteq [plan : Plans, range : DOMAIN Ranges] /\ plans \in [Plans -> PlanRec]
      /\ files \subseteq Things /\ next \in [id : Nat, key : Nat] /\ next.id > N
  BY DEF TypeInv, Types
<1>3. CASE PlanOf(g).claimed
  BY <1>1, <1>2, <1>3, MergeIdle DEF ClaimSwap
<1>4. CASE ~PlanOf(g).claimed
  <2>1. p \in Plans /\ plans[p] \in PlanRec /\ PlanShape(p, plans[p])
    BY <1>1, JobTyped
  <2>2. P \in PlanRec /\ P.layers = plans[p].layers /\ P.there = plans[p].there /\ P.seq = plans[p].seq /\ P.result = plans[p].result
    <3>1. Q \in PlanRec
      BY <2>1
    <3>2. P \in PlanRec /\ P.layers = Q.layers /\ P.there = Q.there /\ P.seq = Q.seq /\ P.result = Q.result
      <4> HIDE DEF Q
      <4> QED
        BY <3>1 DEF PlanRec
    <3> QED
      BY <3>2
  <2>3. PlanShape(p, P)
    <3> HIDE DEF P, Q
    <3> QED
      BY <2>1, <2>2, SameShape
  <2>4. plans' = [plans EXCEPT ![p] = P] /\ Goto(g, "results")
    BY <1>2, <1>4, <2>1 DEF ClaimSwap, PlanOf
  <2> HIDE DEF P, p
  <2>5. process[g].pc # "idle"
    BY <1>1
  <2>6. LET r == [process[g] EXCEPT !.pc = "results"] IN
         process' = [process EXCEPT ![g] = r] /\ r \in ProcRec /\ ProcShape(g, r) /\ Quiet(r) /\ g \in Processes
    BY <2>4, <2>5, MergeGotoIs
  <2> QED
    BY <1>1, <1>2, <2>1, <2>2, <2>3, <2>4, <2>6, PlanStep
<1> QED
  BY <1>3, <1>4

\* What a range's job writes.
RangeRun(id, p, i) ==
    [id |-> id, run |-> p, seq |-> plans[p].seq, nth |-> 0, at |-> Merged(plans[p].layers, Ranges[i])]

LEMMA MergeRangeIs ==
  ASSUME TypeInv, NEW g \in Mergers, MergeRange(g)
  PROVE  LET p == process[g].job.plan
             i == process[g].job.range
             at == Merged(plans[p].layers, Ranges[i]) IN
         /\ p \in Plans /\ i \in DOMAIN Ranges /\ next.id \in Plans
         /\ \E P \in PlanRec :
               /\ plans' = [plans EXCEPT ![p] = P]
               /\ P.layers = plans[p].layers /\ P.seq = plans[p].seq /\ P.there = plans[p].there /\ P.old = plans[p].old
               /\ P.claimed = plans[p].claimed /\ P.done = plans[p].done \cup {i}
               /\ P.result = [plans[p].result EXCEPT ![i] = P.result[i]]
               /\ \A j \in DOMAIN Ranges : j # i => P.result[j] = plans[p].result[j]
               /\ PlanShape(p, P)
               /\ \/ DOMAIN at = {} /\ P.result[i] = {} /\ files' = files /\ next' = next
                  \/ /\ DOMAIN at # {} /\ P.result[i] = {RangeRun(next.id, p, i)} /\ files' = files \cup {Layer(next.id)}
                     /\ next' = [next EXCEPT !.id = @ + 1] /\ plans[p].layers # {}
                     /\ RangeRun(next.id, p, i) \in LayerRec /\ RangeRun(next.id, p, i).id = next.id
                     /\ RangeRun(next.id, p, i).at = at
         /\ at \in Ats /\ \A k : k \in DOMAIN at <=> k \in Ranges[i] /\ \E l \in plans[p].layers : k \in DOMAIN l.at
<1> DEFINE p == process[g].job.plan
           i == process[g].job.range
           Q == plans[p]
           at == Merged(Q.layers, Ranges[i])
           run == RangeRun(next.id, p, i)
<1>1. process[g].pc = "write" /\ next.id \in Plans /\ next.id \in Ids
  BY NextId DEF MergeRange
<1>2. p \in Plans /\ i \in DOMAIN Ranges /\ Q \in PlanRec /\ PlanShape(p, Q) /\ plans \in [Plans -> PlanRec]
  BY <1>1, JobTyped DEF TypeInv, Types
<1>3. Q.layers \subseteq LayerRec /\ Sorted(Q.layers) /\ Bounded(Q.layers) /\ Q.seq \in Nat
  BY <1>2 DEF PlanRec, PlanShape
<1>4. Ranges[i] \in SUBSET Keys
  BY <1>2, Constants
<1>5. at \in Ats /\ \A k : k \in DOMAIN at <=> k \in Ranges[i] /\ \E l \in Q.layers : k \in DOMAIN l.at
  <2> DEFINE ls == Q.layers
             keys == Ranges[i]
  <2>1. ls \subseteq LayerRec /\ Sorted(ls) /\ Bounded(ls) /\ keys \in SUBSET Keys
    BY <1>3, <1>4
  <2> HIDE DEF ls, keys
  <2>2. Merged(ls, keys) \in Ats /\ \A k : k \in DOMAIN Merged(ls, keys) <=> k \in keys /\ \E l \in ls : k \in DOMAIN l.at
    BY <2>1, MergedIs
  <2> QED
    BY <2>2 DEF ls, keys
<1>6. run = [id |-> next.id, run |-> p, seq |-> Q.seq, nth |-> 0, at |-> at]
  BY DEF RangeRun
<1>7. run \in LayerRec /\ run.id = next.id /\ run.run = p /\ run.seq = Q.seq /\ run.nth = 0 /\ run.at = at /\ p \in Ids
  <2> HIDE DEF run, Q, at, p
  <2> QED
    BY <1>1, <1>2, <1>3, <1>5, <1>6, Constants DEF LayerRec
<1> DEFINE new == IF DOMAIN at = {} THEN {} ELSE {run}
           res == [Q.result EXCEPT ![i] = new]
           P == [Q EXCEPT !.result = res, !.done = Q.done \cup {i}]
<1>8. plans' = [plans EXCEPT ![p] = P]
  <2>1. CASE DOMAIN at = {}
    BY <1>2, <2>1 DEF MergeRange, PlanRec
  <2>2. CASE DOMAIN at # {}
    BY <1>2, <1>6, <2>2 DEF MergeRange, PlanRec
  <2> QED
    BY <2>1, <2>2
<1>9. IF DOMAIN at = {} THEN files' = files /\ next' = next
      ELSE files' = files \cup {Layer(next.id)} /\ next' = [next EXCEPT !.id = @ + 1]
  BY DEF MergeRange
<1>10. new \in SUBSET LayerRec /\ \A l \in new : l = run
  BY <1>7
<1> HIDE DEF run, Q, at, p, i, new
<1>11. /\ res \in [DOMAIN Ranges -> SUBSET LayerRec] /\ res[i] = new
       /\ \A j \in DOMAIN Ranges : j # i => res[j] = Q.result[j]
  BY <1>2, <1>10 DEF PlanRec
<1>12. Q.done \cup {i} \in SUBSET DOMAIN Ranges
  BY <1>2 DEF PlanRec
<1> HIDE DEF res
<1>13. /\ P \in PlanRec /\ P.layers = Q.layers /\ P.seq = Q.seq /\ P.there = Q.there /\ P.old = Q.old
       /\ P.claimed = Q.claimed /\ P.done = Q.done \cup {i} /\ P.result = res
  BY <1>2, <1>11, <1>12 DEF PlanRec
<1> HIDE DEF P
<1>14. PlanShape(p, P)
  <2>1. DOMAIN at \subseteq Ranges[i]
    BY <1>5
  <2>2. \A l \in res[i] : l.run = p /\ l.seq = P.seq /\ l.nth = 0 /\ l.id \in Plans /\ DOMAIN l.at \subseteq Ranges[i]
    BY <1>1, <1>7, <1>10, <1>11, <1>13, <2>1
  <2>3. \A l, j \in res[i] : l = j
    BY <1>10, <1>11
  <2>4. ~Q.there => DOMAIN at = {}
    BY <1>2, <1>5 DEF PlanShape
  <2>5. ~Q.there => res[i] = {}
    BY <1>11, <2>4 DEF new
  <2> QED
    BY <1>2, <1>11, <1>13, <2>2, <2>3, <2>5 DEF PlanShape
<1>15. \/ DOMAIN at = {} /\ P.result[i] = {} /\ files' = files /\ next' = next
       \/ /\ DOMAIN at # {} /\ P.result[i] = {run} /\ files' = files \cup {Layer(next.id)}
          /\ next' = [next EXCEPT !.id = @ + 1] /\ Q.layers # {} /\ run \in LayerRec
  BY <1>5, <1>7, <1>9, <1>11, <1>13 DEF new
<1>16. P.result = [Q.result EXCEPT ![i] = P.result[i]]
  BY <1>11, <1>13 DEF res
<1> QED
  BY <1>1, <1>2, <1>5, <1>7, <1>8, <1>11, <1>13, <1>14, <1>15, <1>16 DEF run, at, Q, p, i

LEMMA MergeRangeType ==
  ASSUME TypeInv, NEW g \in Mergers, MergeRange(g)
  PROVE  TypeInv'
<1> DEFINE p == process[g].job.plan
           i == process[g].job.range
<1>1. process[g].pc = "write" /\ next.id \in Ids /\ Goto(g, "count") /\ UNCHANGED <<manifest, pending, queue, lease, named>>
  BY DEF MergeRange
<1>2. /\ p \in Plans
      /\ \E P \in PlanRec :
            /\ plans' = [plans EXCEPT ![p] = P] /\ PlanShape(p, P)
            /\ \/ files' = files /\ next' = next
               \/ files' = files \cup {Layer(next.id)} /\ next' = [next EXCEPT !.id = @ + 1]
  <2>1. /\ p \in Plans
        /\ \E P \in PlanRec :
               /\ plans' = [plans EXCEPT ![p] = P] /\ PlanShape(p, P)
               /\ \/ DOMAIN Merged(plans[p].layers, Ranges[i]) = {} /\ files' = files /\ next' = next
                  \/ DOMAIN Merged(plans[p].layers, Ranges[i]) # {} /\ files' = files \cup {Layer(next.id)}
                     /\ next' = [next EXCEPT !.id = @ + 1]
    BY MergeRangeIs
  <2> QED
    BY <2>1
<1>3. PICK P \in PlanRec :
            /\ plans' = [plans EXCEPT ![p] = P] /\ PlanShape(p, P)
            /\ \/ files' = files /\ next' = next
               \/ files' = files \cup {Layer(next.id)} /\ next' = [next EXCEPT !.id = @ + 1]
  BY <1>2
<1>4. files \subseteq Things /\ queue' \subseteq [plan : Plans, range : DOMAIN Ranges]
      /\ next \in [id : Nat, key : Nat] /\ next.id > N
  BY <1>1 DEF TypeInv, Types
<1>5. files' \subseteq Things /\ next' \in [id : Nat, key : Nat] /\ next'.id > N /\ next'.key = next.key
  BY <1>1, <1>3, <1>4, NextId
<1>6. LET r == [process[g] EXCEPT !.pc = "count"] IN
      process' = [process EXCEPT ![g] = r] /\ r \in ProcRec /\ ProcShape(g, r) /\ Quiet(r) /\ g \in Processes
  BY <1>1, MergeGotoIs
<1> HIDE DEF p
<1> QED
  BY <1>1, <1>2, <1>3, <1>4, <1>5, <1>6, PlanStep

LEMMA MergeDiesType ==
  ASSUME TypeInv, NEW g \in Mergers, MergeDies(g)
  PROVE  TypeInv'
<1>1. /\ process[g].pc # "idle" /\ queue' = queue \cup {process[g].job} /\ process' = [process EXCEPT ![g] = Idle]
      /\ UNCHANGED <<manifest, pending, files, plans, lease, named, next>>
  BY DEF MergeDies
<1>2. process[g] \in ProcRec /\ process[g].job.plan \in Plans /\ process[g].job.range \in DOMAIN Ranges
  BY <1>1, JobTyped, ProcessTyped
<1>3. process[g].job \in [plan : Plans, range : DOMAIN Ranges]
  <2> DEFINE job == process[g].job
  <2>1. job \in JobRec /\ job.plan \in Plans /\ job.range \in DOMAIN Ranges
    BY <1>2 DEF ProcRec
  <2> HIDE DEF job
  <2>2. job \in [plan : Plans, range : DOMAIN Ranges]
    BY <2>1 DEF JobRec
  <2> QED
    BY <2>2 DEF job
<1>4. queue' \subseteq [plan : Plans, range : DOMAIN Ranges]
  BY <1>1, <1>3 DEF TypeInv, Types
<1> QED
  BY <1>1, <1>4, MergeIdle

LEMMA ListMergeType ==
  ASSUME TypeInv, NEW x \in Workers, ListMerge(x)
  PROVE  TypeInv'
<1> DEFINE q == process[x]
           ls == {Layer(l.id) : l \in Results(plans[process[x].job.plan])}
           r == [q EXCEPT !.pc = "dropping", !.listed = ls]
<1>1. q.pc = "dropAll" /\ UNCHANGED <<manifest, pending, files, plans, queue, lease, named, next>>
  BY DEF ListMerge
<1>2. x \in Processes /\ q \in ProcRec /\ ProcShape(x, q) /\ process \in [Processes -> ProcRec] /\ q.base.seq <= manifest.seq
  BY Disjoint DEF Workers, TypeInv, Types, Shapes, KeyFacts
<1>3. q.job.plan \in Plans
  BY <1>1, <1>2 DEF Workers, ProcShape, MaintainShape, MergeShape
<1>4. ls \subseteq Things
  <2>1. \A l \in Results(plans[q.job.plan]) : l \in LayerRec
    BY <1>3, ResultsIs
  <2>2. \A l \in LayerRec : Layer(l.id) \in Things
    BY DEF LayerRec, Things
  <2> QED
    BY <2>1, <2>2
<1>5. process' = [process EXCEPT ![x] = r]
  BY <1>2 DEF ListMerge, PlanOf
<1> HIDE DEF q, ls
<1>6. r \in ProcRec /\ r.pc = "dropping" /\ r.listed = ls /\ r.base = q.base /\ r.job = q.job
  BY <1>2, <1>4 DEF ProcRec, Steps
<1> HIDE DEF r
<1>7. ProcShape(x, r)
  <2>1. CASE x \in Maintainers
    <3>1. MaintainShape(r)
      BY <1>3, <1>6 DEF MaintainShape, Changing
    <3> QED
      BY <2>1, <3>1, MaintainShaped
  <2>2. CASE x \in Mergers
    <3>1. MergeShape(q)
      BY <1>2, <2>2 DEF ProcShape
    <3>2. MergeShape(r)
      BY <1>1, <1>6, <3>1 DEF MergeShape, Changing
    <3> QED
      BY <2>2, <3>2, MergeShaped
  <2> QED
    BY <2>1, <2>2 DEF Workers
<1>8. Quiet(r)
  BY <1>2, <1>6 DEF Quiet
<1> QED
  BY <1>1, <1>2, <1>5, <1>6, <1>7, <1>8, QuietType DEF TypeInv, Types

LEMMA NoPlanIs ==
  /\ NoPlan \in PlanRec /\ NoPlan.layers = {} /\ ~NoPlan.there /\ ~NoPlan.old /\ ~NoPlan.claimed /\ NoPlan.done = {}
  /\ \A i \in DOMAIN Ranges : NoPlan.result[i] = {}
  /\ Results(NoPlan) = {}
  /\ \A p \in Plans : PlanShape(p, NoPlan)
<1> DEFINE none == [i \in DOMAIN Ranges |-> {}]
<1>1. none \in [DOMAIN Ranges -> SUBSET LayerRec] /\ \A i \in DOMAIN Ranges : none[i] = {}
  OBVIOUS
<1>2. NoPlan = [layers |-> {}, seq |-> 0, there |-> FALSE, old |-> FALSE, claimed |-> FALSE, result |-> none, done |-> {}]
  BY DEF NoPlan
<1> HIDE DEF none
<1>3. NoPlan \in PlanRec /\ NoPlan.layers = {} /\ ~NoPlan.there /\ ~NoPlan.old /\ ~NoPlan.claimed /\ NoPlan.done = {}
      /\ NoPlan.result = none
  BY <1>1, <1>2 DEF PlanRec
<1>4. Results(NoPlan) = {}
  BY <1>1, <1>3 DEF Results
<1>5. Sorted({}) /\ Bounded({})
  BY DEF Sorted, Bounded
<1> QED
  BY <1>1, <1>3, <1>4, <1>5 DEF PlanShape

LEMMA DropMergeType ==
  ASSUME TypeInv, NEW x \in Workers, DropMerge(x)
  PROVE  TypeInv'
<1> DEFINE pc == IF x \in Maintainers THEN "layers" ELSE "idle"
           p == process[x].job.plan
<1>1. /\ process[x].pc = "dropping" /\ plans' = [plans EXCEPT ![p] = NoPlan] /\ files' \subseteq files
      /\ process' = [process EXCEPT ![x] = At(pc)] /\ UNCHANGED <<manifest, pending, queue, lease, named, next>>
  BY DEF DropMerge
<1>2. x \in Processes /\ ProcShape(x, process[x])
  BY Disjoint DEF Workers, TypeInv, Shapes
<1>3. p \in Plans
  BY <1>1, <1>2 DEF Workers, ProcShape, MaintainShape, MergeShape
<1>4. pc \in Steps /\ (x \in Maintainers => pc = "layers") /\ (x \in Mergers => pc = "idle")
  BY Disjoint DEF Steps
<1> HIDE DEF pc, p
<1>5. At(pc) \in ProcRec /\ At(pc).pc = pc /\ At(pc).base = EmptyManifest /\ At(pc).job = Message(0, 0)
  BY <1>4, AtIs
<1>6. ProcShape(x, At(pc))
  <2>1. CASE x \in Maintainers
    <3>1. MaintainShape(At(pc))
      BY <1>4, <1>5, <2>1 DEF MaintainShape, Changing
    <3> QED
      BY <2>1, <3>1, MaintainShaped
  <2>2. CASE x \in Mergers
    <3>1. MergeShape(At(pc))
      BY <1>4, <1>5, <2>2 DEF MergeShape, Changing
    <3> QED
      BY <2>2, <3>1, MergeShaped
  <2> QED
    BY <2>1, <2>2 DEF Workers
<1>7. Quiet(At(pc))
  <2>1. pc \in {"layers", "idle"}
    BY <1>4 DEF Workers
  <2> QED
    BY <1>5, <2>1, NoChangeIs DEF Quiet, TypeInv, Types, ManifestOK, ManifestRec
<1>8. /\ queue \subseteq [plan : Plans, range : DOMAIN Ranges] /\ next \in [id : Nat, key : Nat] /\ next.id > N
      /\ files' \subseteq Things
  BY <1>1 DEF TypeInv, Types
<1> QED
  BY <1>1, <1>2, <1>3, <1>5, <1>6, <1>7, <1>8, NoPlanIs, PlanStep

LEMMA LoseMessageType ==
  ASSUME TypeInv, NEW m \in queue, LoseMessage(m)
  PROVE  TypeInv'
<1>1. UNCHANGED <<manifest, pending, files, plans, lease, process, named, next>> /\ queue' \subseteq queue
  BY DEF LoseMessage
<1>2. KeyFacts'
  BY <1>1 DEF TypeInv, KeyFacts, Listing, Matching, Putting, KeyOf
<1> QED
  BY <1>1, <1>2 DEF TypeInv, Types, Shapes

LEMMA AgeType ==
  ASSUME TypeInv, NEW p \in Plans, Age(p)
  PROVE  TypeInv'
<1>1. UNCHANGED <<manifest, pending, files, queue, lease, process, named, next>>
      /\ plans' = [plans EXCEPT ![p].old = TRUE]
  BY DEF Age
<1>2. KeyFacts'
  BY <1>1 DEF TypeInv, KeyFacts, Listing, Matching, Putting, KeyOf
<1>3. plans \in [Plans -> PlanRec] /\ \A i \in Plans : PlanShape(i, plans[i])
  BY DEF TypeInv, Types, Shapes
<1> DEFINE Q == plans[p]
           P == [Q EXCEPT !.old = TRUE]
<1>4. plans' = [plans EXCEPT ![p] = P] /\ Q \in PlanRec
  BY <1>1, <1>3
<1>5. P \in PlanRec /\ P.layers = Q.layers /\ P.there = Q.there /\ P.seq = Q.seq /\ P.result = Q.result
  <2> HIDE DEF Q
  <2> QED
    BY <1>4 DEF PlanRec
<1>6. PlanShape(p, P)
  <2> HIDE DEF P
  <2> QED
    BY <1>3, <1>4, <1>5, SameShape
<1> HIDE DEF P
<1>7. plans' \in [Plans -> PlanRec] /\ \A i \in Plans : PlanShape(i, plans'[i])
  BY <1>3, <1>4, <1>5, <1>6
<1> QED
  BY <1>1, <1>2, <1>7 DEF TypeInv, Types, Shapes

LEMMA AbandonType ==
  ASSUME TypeInv, NEW w \in Maintainers, Abandon(w)
  PROVE  TypeInv'
<1>1. PICK p \in InFlight : process' = [process EXCEPT ![w].pc = "dropAll", ![w].job = Message(p, 0)]
  BY DEF Abandon
<1>2. UNCHANGED <<manifest, pending, files, plans, queue, lease, named, next>> /\ p \in Plans /\ p \in Nat
  BY Constants DEF Abandon, InFlight
<1> DEFINE q == process[w]
           job == Message(p, 0)
           r == [q EXCEPT !.pc = "dropAll", !.job = job]
<1>3. w \in Processes /\ q \in ProcRec /\ process \in [Processes -> ProcRec] /\ q.base.seq <= manifest.seq
  BY Disjoint DEF TypeInv, Types, KeyFacts
<1>4. job \in JobRec /\ job.plan = p
  BY <1>2 DEF Message, JobRec
<1>5. process' = [process EXCEPT ![w] = r]
  BY <1>1, <1>3
<1> HIDE DEF q, job
<1>6. r \in ProcRec /\ r.pc = "dropAll" /\ r.job = job /\ r.base = q.base
  BY <1>3, <1>4 DEF ProcRec, Steps
<1> HIDE DEF r
<1>7. MaintainShape(r) /\ Quiet(r)
  BY <1>2, <1>3, <1>4, <1>6 DEF MaintainShape, Changing, Quiet
<1> QED
  BY <1>2, <1>3, <1>5, <1>6, <1>7, MaintainShaped, QuietType DEF TypeInv, Types

LEMMA ClaimNumberType ==
  ASSUME TypeInv, NEW x \in Processes, ClaimNumber(x)
  PROVE  TypeInv'
<1>1. CASE manifest.seq # process[x].base.seq
  BY <1>1, RetryType
<1>2. CASE manifest.seq = process[x].base.seq
  BY <1>2, WinIs, WinType
<1> QED
  BY <1>1, <1>2

LEMMA InitType ==
  ASSUME Init
  PROVE  TypeInv
<1>1. ManifestOK(manifest) /\ manifest.folded = {} /\ manifest.seq = 0 /\ manifest.adopted = {}
  <2>1. manifest = EmptyManifest /\ EmptyManifest.layers = {} /\ EmptyManifest.folded = {} /\ EmptyManifest.adopted = {}
    BY DEF Init, EmptyManifest
  <2>2. Bounded({}) /\ Sorted({}) /\ Numbered({})
    BY DEF Bounded, Sorted, Numbered
  <2> QED
    BY <2>1, <2>2, NoChangeIs DEF ManifestOK
<1>2. pending \in [DOMAIN pending -> Commits] /\ DOMAIN pending = {}
  BY DEF Init
<1>3. files \subseteq Things
  BY Constants DEF Init, Things
<1>4. plans \in [Plans -> PlanRec] /\ \A p \in Plans : plans[p] = NoPlan
  BY NoPlanIs DEF Init
<1>5. next \in [id : Nat, key : Nat] /\ next.id > N /\ next.id = N + 1 /\ next.key = 1
  BY Constants DEF Init, N
<1>6. /\ At("append") \in ProcRec /\ At("append").pc = "append" /\ At("append").base = EmptyManifest /\ At("append").listed = {}
      /\ Idle \in ProcRec /\ Idle.pc = "idle" /\ Idle.base = EmptyManifest /\ MergeShape(Idle) /\ MaintainShape(Idle)
  <2>1. "append" \in Steps
    BY DEF Steps
  <2> QED
    BY <2>1, AtIs, IdleIs
<1>7. /\ \A x \in Committers : process[x] = At("append")
      /\ \A x \in Workers : process[x] = Idle
      /\ process \in [Processes -> ProcRec]
  BY <1>6, Disjoint DEF Init, Workers
<1>8. CommitShape(1, At("append")) /\ \A c \in Commits : CommitShape(c, At("append"))
  BY <1>6 DEF CommitShape
<1>9. \A x \in Processes : process[x].pc \in {"append", "idle"} /\ process[x].base = EmptyManifest /\ process[x].base.seq = 0
  BY <1>6, <1>7, Disjoint, NoChangeIs DEF Workers
<1>10. Types
  BY <1>1, <1>2, <1>3, <1>4, <1>5, <1>7 DEF Types, Init
<1>11. Shapes
  <2>1. \A p \in Plans : PlanShape(p, plans[p])
    BY <1>4, NoPlanIs
  <2>2. ASSUME NEW x \in Processes PROVE ProcShape(x, process[x])
    <3>1. CASE x \in Committers
      BY <1>7, <1>8, <3>1, Disjoint, CommitShaped
    <3>2. CASE x \in Maintainers
      BY <1>6, <1>7, <3>2, MaintainShaped DEF Workers
    <3>3. CASE x \in Mergers
      BY <1>6, <1>7, <3>3, MergeShaped DEF Workers
    <3> QED
      BY <3>1, <3>2, <3>3, Disjoint
  <2> QED
    BY <2>1, <2>2 DEF Shapes
<1>12. KeyFacts
  <2>1. \A c \in Commits : ~Putting(c)
    BY <1>9, Disjoint DEF Putting
  <2>2. \A x \in Processes : ~Listing(x) /\ ~Matching(x) /\ process[x].pc # "list" /\ process[x].pc # "clear"
    BY <1>9 DEF Listing, Matching
  <2> QED
    BY <1>1, <1>2, <1>9, <2>1, <2>2 DEF KeyFacts
<1> QED
  BY <1>10, <1>11, <1>12 DEF TypeInv

\* The steps of a process, and of none.
LEMMA Stutters ==
  ASSUME TypeInv, UNCHANGED vars
  PROVE  TypeInv'
  BY DEF vars, TypeInv, Types, Shapes, KeyFacts, Putting, KeyOf, Matching, Listing

LEMMA TypeStep ==
  ASSUME TypeInv, [Next]_vars
  PROVE  TypeInv'
<1>1. ASSUME NEW x \in Processes, Change(x) PROVE TypeInv'
  BY <1>1, ReadNewestType, ClaimNumberType, ClearPendingType DEF Change
<1>2. ASSUME NEW c \in Commits, Commit(c) PROVE TypeInv'
  BY <1>2, ReadManifestType, ListPendingType, AppendRunsType, SaveTreeType, CommitDiesType DEF Commit
<1>3. ASSUME NEW w \in Maintainers, Maintain(w) PROVE TypeInv'
  BY <1>3, LeaseType, MergeLayersType, SplitMergeType, NothingDueType, AbandonType, MergePacksType, SweepRetiredType
    DEF Maintain
<1>4. ASSUME NEW g \in Mergers, Merge(g) PROVE TypeInv'
  BY <1>4, StartRangeType, CheckInputsType, MergeRangeType, CountRangesType, ClaimSwapType, MergeSwapType, MergeDiesType
    DEF Merge
<1>5. ASSUME NEW x \in Maintainers \cup Mergers, ListMerge(x) \/ DropMerge(x) PROVE TypeInv'
  BY <1>5, ListMergeType, DropMergeType DEF Workers
<1>6. ASSUME NEW m \in queue, LoseMessage(m) PROVE TypeInv'
  BY <1>6, LoseMessageType
<1>7. ASSUME NEW p \in Plans, Age(p) PROVE TypeInv'
  BY <1>7, AgeType
<1> QED
  BY <1>1, <1>2, <1>3, <1>4, <1>5, <1>6, <1>7, Stutters DEF Next
-----------------------------------------------------------------------------
(* Names.                                                                  *)

Late == DOMAIN pending \ manifest.folded
Visible == LayerIds(manifest) \cup {pending[k] : k \in Late}
Seen(id) == id \in Visible \/ Layer(id) \in manifest.retired \/ Layer(id) \notin files
Unlisted(id) == id \notin Visible /\ Layer(id) \notin manifest.retired
IdsOf(ls) == {l.id : l \in ls}
LiveChange(ch) == ch.oldLayers \subseteq Visible
LivePlan(P) == P.there /\ IdsOf(P.layers) \subseteq Visible

\* A pending object that is not folded in has a run the manifest does not know; a commit
\* is named once, and what was named stays known: in the view, retired, or deleted.
Names ==
    /\ \A k \in Late : pending[k] \notin LayerIds(manifest) /\ Layer(pending[k]) \notin manifest.retired
    /\ \A j, k \in DOMAIN pending : pending[j] = pending[k] => j = k
    /\ \A k \in DOMAIN pending : pending[k] \in named
    /\ \A c \in Commits : c \in named <=> Seen(c)
    /\ \A c \in Commits : Putting(c) => c \notin named
    /\ \A l, j \in manifest.layers : l.id = j.id => l = j
    /\ \A l \in manifest.layers : Layer(l.id) \notin manifest.retired /\ l.id < next.id
    /\ \A id \in Ids : Layer(id) \in manifest.retired => id < next.id
    /\ \A x \in Processes : Matching(x) => Applies(WithPending(manifest, process[x].listed), process[x].change)

PackFree(id) == id \notin PackIds(manifest) /\ Pack(id) \notin manifest.retired

\* A pack that is to be listed is not yet, and was not before.
Packs ==
    /\ \A pk, q \in manifest.packs : pk.id = q.id => pk = q
    /\ \A pk \in manifest.packs : Pack(pk.id) \notin manifest.retired /\ pk.id < next.id
    /\ \A id \in Ids : Pack(id) \in manifest.retired => id < next.id
    /\ \A c \in Placed \ manifest.adopted : PackFree(c)
    /\ \A c \in Commits \ (Placed \cup named) : PackFree(c)
    /\ \A k \in Late : pending[k] \notin Placed => PackFree(pending[k])
    /\ \A x \in Workers : Changing(process[x]) => \A pk \in process[x].change.newPacks : PackFree(pk.id)

Holds(r) == r.pc = "results" \/ (Changing(r) /\ r.change.newLayers # {})
Dropping(x, r) == r.pc \in {"dropAll", "dropping"} \/ (x \in Mergers /\ r.pc = "clear")

\* What a process is about to put in the view is its own, and stored while it may still be
\* put there.
ChangeIds(x, r) ==
    /\ \A id \in r.change.oldLayers : Seen(id) /\ id < next.id
    /\ r.change.forget \cap files = {}
    /\ \A id \in Ids : Layer(id) \in r.change.forget \/ Pack(id) \in r.change.forget => id < next.id
    /\ \A l \in r.change.newLayers : Unlisted(l.id) /\ l.id < next.id
    /\ LiveChange(r.change) => \A l \in r.change.newLayers : Layer(l.id) \in files
    /\ \A l, j \in r.change.newLayers : l.id = j.id => l = j
    /\ \A p \in Plans : \A l \in r.change.newLayers, j \in Results(plans[p]) : l.id = j.id => x \in Mergers /\ r.job.plan = p
    /\ x \in Mergers =>
          /\ r.change.newLayers # {} => r.change.oldLayers # {}
          /\ plans[r.job.plan].there => r.change.oldLayers = IdsOf(plans[r.job.plan].layers)
          /\ r.change.oldLayers # {} /\ LiveChange(r.change) => plans[r.job.plan].there

\* A merge is given up when it cannot be made any more.
ProcIds(x, r) ==
    /\ r.job.plan < next.id
    /\ x \in Workers /\ Changing(r) => ChangeIds(x, r)
    /\ x \in Mergers /\ Holds(r) => (plans[r.job.plan].there => plans[r.job.plan].claimed)
    /\ x \in Mergers /\ r.pc \in {"swap", "results"} /\ plans[r.job.plan].there => plans[r.job.plan].done = DOMAIN Ranges
    /\ x \in Mergers /\ r.pc = "results" => \A l \in Results(plans[r.job.plan]) : Unlisted(l.id)
    /\ x \in Workers /\ Dropping(x, r) => ~LivePlan(plans[r.job.plan]) \/ (x \in Maintainers /\ plans[r.job.plan].old)
    /\ x \in Workers /\ r.pc \notin {"claim", "clear", "dropping"} => r.listed = {}
    /\ x \in Workers /\ r.pc = "dropping" => \A f \in r.listed : \E id \in Plans : f = Layer(id)
    /\ x \in Workers /\ r.pc = "dropping" => \A id \in Plans : Layer(id) \in r.listed =>
          /\ id < next.id
          /\ \A p \in Plans : id \in IdsOf(Results(plans[p])) => p = r.job.plan

PlanInv(p, P) ==
    /\ P.there => p < next.id
    /\ \A l \in P.layers : Seen(l.id) /\ l.id < next.id
    /\ \A l \in Results(P) : l.id < next.id
    /\ \A l, j \in Results(P) : l.id = j.id => l = j
    /\ LivePlan(P) => \A l \in Results(P) : Layer(l.id) \in files
    /\ LivePlan(P) \/ ~P.claimed => \A l \in Results(P) : Unlisted(l.id)
    /\ P.old => /\ \A m \in queue : m.plan # p
                /\ \A g \in Mergers : process[g].job.plan # p

\* Two processes.
Pair(x, y) ==
    LET r == process[x]
        s == process[y] IN
    /\ Changing(r) /\ Changing(s) => IdsOf(r.change.newLayers) \cap IdsOf(s.change.newLayers) = {}
    /\ x \in Mergers /\ y \in Mergers /\ Holds(r) /\ Holds(s) /\ r.job.plan = s.job.plan => ~plans[r.job.plan].there
    /\ r.pc = "dropping" /\ Changing(s) => \A l \in s.change.newLayers : Layer(l.id) \in r.listed =>
          y \in Mergers /\ s.job.plan = r.job.plan

Ownership ==
    /\ \A x \in Processes : ProcIds(x, process[x])
    /\ \A p \in Plans : PlanInv(p, plans[p])
    /\ \A m \in queue : m.plan < next.id
    /\ \A x, y \in Workers : x # y => Pair(x, y)
    /\ \A p, q \in Plans : p # q => IdsOf(Results(plans[p])) \cap IdsOf(Results(plans[q])) = {}

IdInv == Names /\ Packs /\ Ownership

LEMMA NamesApart ==
  ASSUME TypeInv, Names
  PROVE  /\ Apart(manifest, pending, Late) /\ Late \subseteq Nat /\ Late \subseteq DOMAIN pending
         /\ Unfolded(manifest, DOMAIN pending) = Late
         /\ \A k \in Late : pending[k] \in Commits
<1>1. DOMAIN pending \subseteq Nat /\ \A k \in DOMAIN pending : pending[k] \in Commits
  BY DEF TypeInv, Types, KeyFacts
<1>2. Apart(manifest, pending, Late)
  BY DEF Names, Apart, Late
<1> QED
  BY <1>1, <1>2, AllUnfolded DEF Late

LEMMA StackedIds ==
  ASSUME NEW top, NEW pd, NEW ks
  PROVE  /\ \A k \in ks : \E l \in Stacked(top, pd, ks) : l.id = pd[k]
         /\ \A c : (\E pk \in NewPacks(pd, ks) : pk.id = c) <=> c \in {pd[k] : k \in ks} \ Placed
<1>1. ASSUME NEW k \in ks PROVE \E l \in Stacked(top, pd, ks) : l.id = pd[k]
  <2> DEFINE l == [CommitLayer(pd[k]) EXCEPT !.seq = top + Rank(ks, k)]
  <2>1. l.id = pd[k]
    BY DEF CommitLayer
  <2>2. l \in Stacked(top, pd, ks)
    BY DEF Stacked
  <2> QED
    BY <2>1, <2>2
<1>2. \A c : CommitPack(c).id = c
  BY DEF CommitPack
<1>3. ASSUME NEW c PROVE (\E pk \in NewPacks(pd, ks) : pk.id = c) <=> c \in {pd[k] : k \in ks} \ Placed
  <2> DEFINE S == {pd[k] : k \in ks} \ Placed
  <2>1. NewPacks(pd, ks) = {CommitPack(d) : d \in S}
    BY DEF NewPacks
  <2> HIDE DEF S
  <2>2. (\E pk \in {CommitPack(d) : d \in S} : pk.id = c) <=> c \in S
    BY <1>2
  <2> QED
    BY <2>1, <2>2 DEF S
<1> QED
  BY <1>1, <1>3

\* The layers and packs of the newest view.
LEMMA LatestIs ==
  ASSUME TypeInv, Names
  PROVE  /\ Latest.layers = manifest.layers \cup Stacked(TopSeq(manifest), pending, Late)
         /\ Latest.packs = manifest.packs \cup NewPacks(pending, Late)
         /\ LayerIds(Latest) = Visible
         /\ IsFiniteSet(Late)
<1>1. Unfolded(manifest, DOMAIN pending) = Late /\ \A k \in Late : pending[k] \in Commits
  BY NamesApart
<1>2. IsFiniteSet(Late) /\ Late \subseteq Nat
  BY <1>1, UnfoldedKeys
<1>3. TopSeq(manifest) \in Nat
  BY LatestOK
<1>4. \A l \in Stacked(TopSeq(manifest), pending, Late) : \E k \in Late : l.id = pending[k]
  <2> HIDE DEF Late
  <2> QED
    BY <1>1, <1>2, <1>3, StackedIs
<1>5. \A k \in Late : \E l \in Stacked(TopSeq(manifest), pending, Late) : l.id = pending[k]
  BY StackedIds
<1>6. LayerIds(Latest) = Visible
  BY <1>1, <1>4, <1>5, LatestOK DEF LayerIds, Visible
<1> QED
  BY <1>1, <1>2, <1>6, LatestOK

\* The view a claim changes.
LEMMA ListedIs ==
  ASSUME TypeInv, Names, NEW x \in Processes, Matching(x)
  PROVE  LET ks == process[x].listed \ manifest.folded
             v == WithPending(manifest, process[x].listed) IN
         /\ Unfolded(manifest, process[x].listed) = ks /\ ks \subseteq Late
         /\ DOMAIN pending \ process[x].listed = Late \ ks
         /\ LayerIds(v) = LayerIds(manifest) \cup {pending[k] : k \in ks}
         /\ PackIds(v) = PackIds(manifest) \cup ({pending[k] : k \in ks} \ Placed)
         /\ v.layers = manifest.layers \cup Stacked(TopSeq(manifest), pending, ks)
<1> DEFINE ks == process[x].listed \ manifest.folded
           v == WithPending(manifest, process[x].listed)
<1>1. ks \subseteq DOMAIN pending /\ manifest.folded \cap DOMAIN pending \subseteq process[x].listed
      /\ process[x].listed \subseteq Nat
  BY DEF TypeInv, KeyFacts, Listing, Matching
<1>2. ks \subseteq Late /\ DOMAIN pending \ process[x].listed = Late \ ks
  BY <1>1 DEF Late
<1>3. Unfolded(manifest, process[x].listed) = ks
  <2>1. Apart(manifest, pending, ks)
    BY <1>2, NamesApart DEF Apart
  <2> QED
    BY <1>1, <2>1, AllUnfolded
<1>4. /\ v.layers = manifest.layers \cup Stacked(TopSeq(manifest), pending, ks)
      /\ v.packs = manifest.packs \cup NewPacks(pending, ks)
  BY <1>3, ClaimView
<1>5. \A k \in ks : pending[k] \in Commits
  BY <1>2, NamesApart
<1>6. IsFiniteSet(ks) /\ ks \subseteq Nat /\ TopSeq(manifest) \in Nat
  BY <1>3, ListedKeys, LatestOK
<1>7. \A l \in Stacked(TopSeq(manifest), pending, ks) : \E k \in ks : l.id = pending[k]
  <2> HIDE DEF ks
  <2> QED
    BY <1>5, <1>6, StackedIs
<1>8. \A k \in ks : \E l \in Stacked(TopSeq(manifest), pending, ks) : l.id = pending[k]
  BY StackedIds
<1>9. LayerIds(v) = LayerIds(manifest) \cup {pending[k] : k \in ks}
  <2> HIDE DEF ks, v
  <2> QED
    BY <1>4, <1>7, <1>8 DEF LayerIds
<1>10. PackIds(v) = PackIds(manifest) \cup ({pending[k] : k \in ks} \ Placed)
  <2>1. \A c : (\E pk \in NewPacks(pending, ks) : pk.id = c) <=> c \in {pending[k] : k \in ks} \ Placed
    BY StackedIds
  <2> HIDE DEF ks, v
  <2> QED
    BY <1>4, <2>1 DEF PackIds
<1> QED
  BY <1>2, <1>3, <1>4, <1>9, <1>10

Pick(x) == process[x].listed \ manifest.folded
Target(x) == WithPending(manifest, process[x].listed)

\* A claim of the next number: what it takes out was in the view.
LEMMA LandsIs ==
  ASSUME TypeInv, Names, NEW x \in Processes, Matching(x), manifest' = Claimed(x), pending' = pending
  PROVE  LET ch == process[x].change IN
         /\ ch.oldLayers \subseteq LayerIds(Target(x)) /\ ch.oldPacks \subseteq PackIds(Target(x))
         /\ ch.adopts \cap manifest.adopted = {}
         /\ LayerIds(Target(x)) \subseteq Visible
         /\ Late' = Late \ Pick(x) /\ Pick(x) \subseteq Late
         /\ \A k \in Late' : pending[k] \notin LayerIds(Target(x))
         /\ LayerIds(manifest)' = (LayerIds(Target(x)) \ ch.oldLayers) \cup IdsOf(ch.newLayers)
         /\ Visible' = (Visible \ ch.oldLayers) \cup IdsOf(ch.newLayers)
         /\ \A id : Layer(id) \in manifest'.retired <=>
                      (Layer(id) \in manifest.retired /\ Layer(id) \notin ch.forget) \/ id \in ch.oldLayers
         /\ \A id : Pack(id) \in manifest'.retired <=>
                      (Pack(id) \in manifest.retired /\ Pack(id) \notin ch.forget) \/ id \in ch.oldPacks
         /\ \A id : id \in PackIds(manifest)' <=>
                      \/ id \in PackIds(Target(x)) \ ch.oldPacks
                      \/ \E pk \in ch.newPacks : pk.id = id /\ ~Final(pk)
                      \/ id \in ch.adopts
<1> DEFINE ch == process[x].change
           v == Target(x)
           ks == Pick(x)
           new(l) == Appended(Kept(v, ch), l, NewSeq(v, ch, l))
<1>1. Applies(v, ch)
  BY DEF Names, Target
<1>2. /\ manifest'.layers = Kept(v, ch) \cup {new(l) : l \in ch.newLayers}
      /\ \A l \in ch.newLayers : new(l).id = l.id
      /\ manifest'.packs = {p \in v.packs : p.id \notin ch.oldPacks} \cup {p \in ch.newPacks : ~Final(p)}
                           \cup {CommitPack(c) : c \in ch.adopts}
      /\ manifest'.retired = (v.retired \ ch.forget) \cup {Layer(id) : id \in ch.oldLayers} \cup {Pack(id) : id \in ch.oldPacks}
      /\ manifest'.folded = process[x].listed
  BY ClaimedIs DEF Target
<1>3. v.retired = manifest.retired /\ v.adopted = manifest.adopted
  BY ClaimView DEF Target
<1>4. /\ ks \subseteq Late /\ DOMAIN pending \ process[x].listed = Late \ ks
      /\ LayerIds(v) = LayerIds(manifest) \cup {pending[k] : k \in ks}
  BY ListedIs DEF Target, Pick
<1>5. ch.oldLayers \subseteq LayerIds(v) /\ ch.oldPacks \subseteq PackIds(v) /\ ch.adopts \cap manifest.adopted = {}
  BY <1>1, <1>3 DEF Applies
<1>6. Late' = Late \ ks
  BY <1>2, <1>4 DEF Late
<1>7. \A k \in Late \ ks : pending[k] \notin LayerIds(v)
  BY <1>4, NamesApart DEF Apart
<1> HIDE DEF ch, v, ks
<1>8. LayerIds(manifest)' = (LayerIds(v) \ ch.oldLayers) \cup IdsOf(ch.newLayers)
  <2>1. \A id : (\E l \in Kept(v, ch) : l.id = id) <=> id \in LayerIds(v) \ ch.oldLayers
    BY DEF Kept, LayerIds
  <2>2. \A id : (\E l \in {new(j) : j \in ch.newLayers} : l.id = id) <=> id \in IdsOf(ch.newLayers)
    BY <1>2 DEF IdsOf
  <2>3. LayerIds(manifest)' = {l.id : l \in manifest'.layers}
    BY DEF LayerIds
  <2> HIDE DEF new
  <2> QED
    BY <1>2, <2>1, <2>2, <2>3
<1>9. Visible' = (Visible \ ch.oldLayers) \cup IdsOf(ch.newLayers)
  <2>1. Visible' = LayerIds(manifest)' \cup {pending[k] : k \in Late \ ks}
    BY <1>6 DEF Visible
  <2>2. Visible = LayerIds(v) \cup {pending[k] : k \in Late \ ks}
    BY <1>4 DEF Visible
  <2> QED
    BY <1>5, <1>7, <1>8, <2>1, <2>2
<1>10. LayerIds(v) \subseteq Visible
  BY <1>4 DEF Visible
<1>11. \A id, jd : Layer(id) # Pack(jd) /\ (Layer(id) = Layer(jd) => id = jd) /\ (Pack(id) = Pack(jd) => id = jd)
  BY DEF Layer, Pack
<1>12. \A id : Layer(id) \in manifest'.retired <=>
                      (Layer(id) \in manifest.retired /\ Layer(id) \notin ch.forget) \/ id \in ch.oldLayers
  BY <1>2, <1>3, <1>11
<1>13. \A id : Pack(id) \in manifest'.retired <=>
                      (Pack(id) \in manifest.retired /\ Pack(id) \notin ch.forget) \/ id \in ch.oldPacks
  BY <1>2, <1>3, <1>11
<1>14. \A id : id \in PackIds(manifest)' <=>
                      \/ id \in PackIds(v) \ ch.oldPacks
                      \/ \E pk \in ch.newPacks : pk.id = id /\ ~Final(pk)
                      \/ id \in ch.adopts
  <2>1. \A c : CommitPack(c).id = c
    BY DEF CommitPack
  <2>2. \A id : id \in PackIds(manifest)' <=> \E pk \in manifest'.packs : pk.id = id
    BY DEF PackIds
  <2>3. \A id : id \in PackIds(v) <=> \E pk \in v.packs : pk.id = id
    BY DEF PackIds
  <2> QED
    BY <1>2, <2>1, <2>2, <2>3
<1> QED
  BY <1>4, <1>5, <1>6, <1>7, <1>8, <1>9, <1>10, <1>12, <1>13, <1>14 DEF ch, v, ks

-----------------------------------------------------------------------------
(* How a step leaves what it does not change.                              *)

\* What every step keeps: what was seen stays seen and does not come back, a plan only goes
\* forward until it is dropped, and a new result has a fresh name.
PlanKept(P, Q) ==
    Q.there => /\ P.there /\ Q.layers = P.layers /\ Q.seq = P.seq /\ (P.claimed => Q.claimed) /\ P.done \subseteq Q.done
               /\ P.old => Q.old

Evolves ==
    /\ next.id <= next'.id
    /\ \A id \in Ids : id < next.id /\ Seen(id) => Seen(id)' /\ (id \in Visible' => id \in Visible)
    /\ \A p \in Plans : p < next.id => PlanKept(plans[p], plans'[p])
    /\ \A p \in Plans : p < next.id /\ plans[p].there /\ ~plans'[p].there =>
          ~LivePlan(plans[p]) \/ \A g \in Mergers : process[g].job.plan # p
    /\ \A p \in Plans : p < next.id => \A l \in Results(plans'[p]) : l \in Results(plans[p]) \/ l.id = next.id
    /\ \A p \in Plans : p >= next.id => Results(plans'[p]) = {}
    /\ \A p, q \in Plans : \A l \in Results(plans'[p]), j \in Results(plans'[q]) : l.id = next.id /\ j.id = next.id => p = q

LEMMA ProcBelow ==
  ASSUME TypeInv, Ownership, NEW x \in Processes
  PROVE  process[x].job.plan \in Nat /\ process[x].job.plan < next.id /\ ProcIds(x, process[x]) /\ next.id \in Nat
         /\ process[x] \in ProcRec
<1>1. process[x] \in ProcRec
  BY ProcessTyped
<1>2. ProcIds(x, process[x]) /\ process[x].job.plan < next.id
  BY DEF Ownership, ProcIds
<1>3. next.id \in Nat
  BY DEF TypeInv, Types
<1> QED
  BY <1>1, <1>2, <1>3 DEF ProcRec, JobRec

\* A plan that is not there has nothing.
LEMMA PlanNot ==
  ASSUME TypeInv, NEW p \in Plans, ~plans[p].there
  PROVE  plans[p].layers = {} /\ Results(plans[p]) = {} /\ ~LivePlan(plans[p])
<1>1. PlanShape(p, plans[p])
  BY DEF TypeInv, Shapes
<1> QED
  BY <1>1 DEF PlanShape, Results, LivePlan

LEMMA EvolvesPlan ==
  ASSUME TypeInv, TypeInv', Ownership, Evolves, NEW p \in Plans, p < next.id
  PROVE  /\ plans'[p].there => plans[p].there /\ plans'[p].layers = plans[p].layers /\ (plans[p].claimed => plans'[p].claimed)
                               /\ plans[p].done \subseteq plans'[p].done /\ (plans[p].old => plans'[p].old)
         /\ LivePlan(plans[p])' => LivePlan(plans[p])
         /\ \A l \in Results(plans'[p]) : l \in Results(plans[p]) \/ l.id = next.id
         /\ ~plans'[p].there => Results(plans'[p]) = {}
<1>1. PlanKept(plans[p], plans'[p]) /\ \A l \in Results(plans'[p]) : l \in Results(plans[p]) \/ l.id = next.id
  BY DEF Evolves
<1>2. PlanInv(p, plans[p])
  BY DEF Ownership
<1>3. plans[p] \in PlanRec
  BY DEF TypeInv, Types
<1>4. ASSUME LivePlan(plans[p])' PROVE LivePlan(plans[p])
  <2>1. plans'[p].there /\ plans[p].there /\ plans'[p].layers = plans[p].layers /\ IdsOf(plans[p].layers) \subseteq Visible'
    BY <1>1, <1>4 DEF LivePlan, PlanKept, IdsOf
  <2>2. \A l \in plans[p].layers : Seen(l.id) /\ l.id < next.id /\ l.id \in Ids
    BY <1>2, <1>3 DEF PlanInv, PlanRec, LayerRec
  <2>3. \A l \in plans[p].layers : l.id \in Visible
    BY <2>1, <2>2 DEF Evolves, IdsOf
  <2> QED
    BY <2>1, <2>3 DEF LivePlan, IdsOf
<1>5. ASSUME ~plans'[p].there PROVE Results(plans'[p]) = {}
  <2>1. PlanShape(p, plans[p])'
    BY DEF TypeInv, Shapes
  <2> QED
    BY <1>5, <2>1 DEF PlanShape, Results
<1> QED
  BY <1>1, <1>4, <1>5 DEF PlanKept

\* A process a step does not move.
LEMMA ProcKept ==
  ASSUME TypeInv, TypeInv', Ownership, Evolves, NEW x \in Processes, NEW r, r = process[x],
         x \in Workers /\ Changing(r) =>
            /\ \A l \in r.change.newLayers : Unlisted(l.id)'
            /\ r.change.forget \cap files' = {}
            /\ LiveChange(r.change) => \A l \in r.change.newLayers : Layer(l.id) \in files',
         x \in Mergers /\ r.pc = "results" => \A l \in Results(plans'[r.job.plan]) : Unlisted(l.id)'
  PROVE  ProcIds(x, r)'
<1> DEFINE p == r.job.plan
<1>1. r \in ProcRec /\ next.id \in Nat /\ next'.id \in Nat /\ next.id <= next'.id /\ p \in Nat /\ p < next.id
  <2>1. next'.id \in Nat
    BY DEF TypeInv, Types
  <2> QED
    BY <2>1, ProcBelow DEF Evolves
<1>2. ProcIds(x, r)
  BY DEF Ownership
<1>3. ProcShape(x, r)
  BY ProcessTyped
<1>4. x \in Mergers /\ r.pc # "idle" => p \in Plans
  BY <1>3 DEF ProcShape, MergeShape
<1>5. x \in Maintainers /\ r.pc \in {"dropAll", "dropping"} => p \in Plans
  BY <1>3 DEF ProcShape, MaintainShape
<1>6. ASSUME p \in Plans
      PROVE  /\ plans'[p].there => plans[p].there /\ plans'[p].layers = plans[p].layers /\ (plans[p].claimed => plans'[p].claimed)
                               /\ plans[p].done \subseteq plans'[p].done /\ (plans[p].old => plans'[p].old)
                               /\ plans'[p].done \subseteq DOMAIN Ranges
             /\ LivePlan(plans[p])' => LivePlan(plans[p])
             /\ plans[p].there /\ ~plans'[p].there => ~LivePlan(plans[p]) \/ \A g \in Mergers : process[g].job.plan # p
  <2>1. plans'[p].done \subseteq DOMAIN Ranges
    BY <1>6 DEF TypeInv, Types, PlanRec
  <2> QED
    BY <1>1, <1>6, <2>1, EvolvesPlan DEF Evolves
<1>7. ASSUME x \in Workers, Changing(r) PROVE ChangeIds(x, r)'
  <2>1. ChangeIds(x, r)
    BY <1>2, <1>7 DEF ProcIds
  <2>2. r.change.oldLayers \subseteq Ids /\ r.change.newLayers \subseteq LayerRec
    BY <1>1 DEF ProcRec, ChangeRec
  <2>3. \A id \in r.change.oldLayers : Seen(id)' /\ id < next'.id
    BY <1>1, <2>1, <2>2, Constants DEF Evolves, ChangeIds
  <2>4. LiveChange(r.change)' => LiveChange(r.change)
    BY <1>1, <2>1, <2>2 DEF LiveChange, Evolves, ChangeIds
  <2>5. \A l \in r.change.newLayers : Unlisted(l.id)' /\ l.id < next'.id
    <3>1. \A l \in r.change.newLayers : l.id \in Nat /\ l.id < next.id
      BY <2>1, <2>2, Constants DEF ChangeIds, LayerRec
    <3> QED
      BY <1>1, <1>7, <3>1
  <2>6. LiveChange(r.change)' => \A l \in r.change.newLayers : Layer(l.id) \in files'
    BY <1>7, <2>4
  <2>7. r.change.forget \cap files' = {} /\ \A l, j \in r.change.newLayers : l.id = j.id => l = j
    BY <1>7, <2>1 DEF ChangeIds
  <2>8. \A id \in Ids : Layer(id) \in r.change.forget \/ Pack(id) \in r.change.forget => id < next'.id
    BY <1>1, <2>1, Constants DEF ChangeIds
  <2>9. ASSUME NEW q \in Plans, NEW l \in r.change.newLayers, NEW j \in Results(plans'[q]), l.id = j.id
        PROVE  x \in Mergers /\ p = q
    <3>1. l.id < next.id /\ l.id \in Nat
      BY <2>1, <2>2, Constants DEF ChangeIds, LayerRec
    <3>2. q < next.id /\ q \in Nat
      BY <1>1, Constants DEF Evolves
    <3>3. j \in Results(plans[q])
      BY <1>1, <2>9, <3>1, <3>2, EvolvesPlan
    <3> QED
      BY <2>1, <2>9, <3>3 DEF ChangeIds
  <2>10. ASSUME x \in Mergers
         PROVE  /\ r.change.newLayers # {} => r.change.oldLayers # {}
                /\ plans'[p].there => r.change.oldLayers = IdsOf(plans'[p].layers)
                /\ r.change.oldLayers # {} /\ LiveChange(r.change)' => plans'[p].there
    <3>1. p \in Plans
      BY <1>4, <1>7, <2>10 DEF Changing
    <3>2. /\ plans'[p].there => plans[p].there /\ plans'[p].layers = plans[p].layers
          /\ plans[p].there /\ ~plans'[p].there => ~LivePlan(plans[p])
      BY <1>6, <2>10, <3>1
    <3>3. /\ r.change.newLayers # {} => r.change.oldLayers # {}
          /\ plans[p].there => r.change.oldLayers = IdsOf(plans[p].layers)
          /\ r.change.oldLayers # {} /\ LiveChange(r.change) => plans[p].there
      BY <2>1, <2>10 DEF ChangeIds
    <3>4. ASSUME r.change.oldLayers # {}, LiveChange(r.change)' PROVE plans'[p].there
      <4>1. plans[p].there /\ r.change.oldLayers = IdsOf(plans[p].layers) /\ LiveChange(r.change)
        BY <2>4, <3>3, <3>4
      <4>2. LivePlan(plans[p])
        BY <4>1 DEF LivePlan, LiveChange
      <4> QED
        BY <3>2, <4>1, <4>2
    <3> QED
      BY <3>2, <3>3, <3>4
  <2> QED
    BY <2>3, <2>5, <2>6, <2>7, <2>8, <2>9, <2>10 DEF ChangeIds
<1>8. x \in Mergers /\ Holds(r) => (plans'[p].there => plans'[p].claimed)
  <2>1. ASSUME x \in Mergers, Holds(r), plans'[p].there PROVE plans'[p].claimed
    <3>1. p \in Plans
      BY <1>4, <2>1 DEF Holds, Changing
    <3> QED
      BY <1>2, <1>6, <2>1, <3>1 DEF ProcIds
  <2> QED
    BY <2>1
<1>9. x \in Mergers /\ r.pc \in {"swap", "results"} /\ plans'[p].there => plans'[p].done = DOMAIN Ranges
  <2>1. ASSUME x \in Mergers, r.pc \in {"swap", "results"}, plans'[p].there PROVE plans'[p].done = DOMAIN Ranges
    <3>1. p \in Plans
      BY <1>4, <2>1
    <3>2. plans[p].there /\ plans[p].done = DOMAIN Ranges
      BY <1>2, <1>6, <2>1, <3>1 DEF ProcIds
    <3> QED
      BY <1>6, <2>1, <3>1, <3>2
  <2> QED
    BY <2>1
<1>10. x \in Workers /\ Dropping(x, r) => ~LivePlan(plans[p])' \/ (x \in Maintainers /\ plans'[p].old)
  <2>1. ASSUME x \in Workers, Dropping(x, r), LivePlan(plans[p])' PROVE x \in Maintainers /\ plans'[p].old
    <3>1. p \in Plans
      BY <1>4, <1>5, <2>1 DEF Workers, Dropping
    <3>2. LivePlan(plans[p]) /\ plans'[p].there
      BY <1>6, <2>1, <3>1 DEF LivePlan
    <3> QED
      BY <1>2, <1>6, <2>1, <3>1, <3>2 DEF ProcIds
  <2> QED
    BY <2>1
<1>11. ASSUME x \in Workers, r.pc = "dropping", NEW id \in Plans, Layer(id) \in r.listed
       PROVE  id < next'.id /\ \A q \in Plans : id \in IdsOf(Results(plans'[q])) => q = p
  <2>1. id < next.id /\ \A q \in Plans : id \in IdsOf(Results(plans[q])) => q = p
    BY <1>2, <1>11 DEF ProcIds
  <2>2. id \in Nat
    BY Constants
  <2>3. ASSUME NEW q \in Plans, id \in IdsOf(Results(plans'[q])) PROVE q = p
    <3>1. PICK j \in Results(plans'[q]) : j.id = id
      BY <2>3 DEF IdsOf
    <3>2. q < next.id /\ q \in Nat
      BY <1>1, <3>1, Constants DEF Evolves
    <3>3. j \in Results(plans[q])
      BY <1>1, <2>1, <2>2, <3>1, <3>2, EvolvesPlan
    <3> QED
      BY <2>1, <3>1, <3>3 DEF IdsOf
  <2> QED
    BY <1>1, <2>1, <2>2, <2>3
<1>12. r.job.plan < next'.id
  BY <1>1
<1>13. /\ x \in Workers /\ r.pc \notin {"claim", "clear", "dropping"} => r.listed = {}
       /\ x \in Workers /\ r.pc = "dropping" => \A f \in r.listed : \E id \in Plans : f = Layer(id)
  BY <1>2 DEF ProcIds
<1> QED
  BY <1>7, <1>8, <1>9, <1>10, <1>11, <1>12, <1>13 DEF ProcIds

\* A plan a step does not change.
LEMMA PlanInvKept ==
  ASSUME TypeInv, TypeInv', Ownership, Evolves, NEW p \in Plans, NEW P, P = plans[p], plans'[p] = P,
         LivePlan(P) => \A l \in Results(P) : Layer(l.id) \in files',
         LivePlan(P) \/ ~P.claimed => \A l \in Results(P) : Unlisted(l.id)',
         P.old => (\A m \in queue' : m.plan # p) /\ \A g \in Mergers : process'[g].job.plan # p
  PROVE  PlanInv(p, P)'
<1>1. PlanInv(p, P) /\ P \in PlanRec /\ next.id \in Nat /\ next'.id \in Nat /\ next.id <= next'.id
  BY DEF Ownership, TypeInv, Types, Evolves
<1>2. Results(P) \subseteq LayerRec
  BY ResultsIs
<1>3. ASSUME P.there PROVE p < next'.id
  BY <1>1, <1>3, Constants DEF PlanInv
<1>4. \A l \in P.layers : Seen(l.id)' /\ l.id < next'.id
  <2>1. \A l \in P.layers : Seen(l.id) /\ l.id < next.id /\ l.id \in Ids
    BY <1>1 DEF PlanInv, PlanRec, LayerRec
  <2> QED
    BY <1>1, <2>1, Constants DEF Evolves
<1>5. \A l \in Results(P) : l.id < next'.id
  <2>1. \A l \in Results(P) : l.id < next.id /\ l.id \in Nat
    BY <1>1, <1>2, Constants DEF PlanInv, LayerRec
  <2> QED
    BY <1>1, <2>1
<1>6. LivePlan(P)' => LivePlan(P)
  <2>1. \A l \in P.layers : Seen(l.id) /\ l.id < next.id /\ l.id \in Ids
    BY <1>1 DEF PlanInv, PlanRec, LayerRec
  <2> QED
    BY <2>1 DEF Evolves, LivePlan, IdsOf
<1> QED
  BY <1>1, <1>3, <1>4, <1>5, <1>6 DEF PlanInv

LEMMA PairKept ==
  ASSUME TypeInv, TypeInv', Ownership, Evolves, NEW x \in Workers, NEW y \in Workers, x # y,
         process'[x] = process[x], process'[y] = process[y]
  PROVE  Pair(x, y)'
<1> DEFINE r == process[x]
           s == process[y]
           p == r.job.plan
<1>1. Pair(x, y) /\ x \in Processes
  BY Disjoint DEF Ownership, Workers
<1>2. p \in Nat /\ p < next.id /\ ProcShape(x, r)
  BY <1>1, ProcBelow, ProcessTyped
<1>3. ASSUME x \in Mergers, Holds(r), plans'[p].there PROVE plans[p].there
  <2>1. p \in Plans
    BY <1>2, <1>3 DEF ProcShape, MergeShape, Holds, Changing
  <2> QED
    BY <1>2, <1>3, <2>1, EvolvesPlan
<1>4. plans[process[x].job.plan]' = plans'[p] /\ process[x]' = r /\ process[y]' = s
  OBVIOUS
<1> QED
  BY <1>1, <1>3, <1>4 DEF Pair

LEMMA ResultsApart ==
  ASSUME TypeInv, TypeInv', Ownership, Evolves, NEW p \in Plans, NEW q \in Plans, p # q
  PROVE  IdsOf(Results(plans'[p])) \cap IdsOf(Results(plans'[q])) = {}
<1> SUFFICES ASSUME NEW l \in Results(plans'[p]), NEW j \in Results(plans'[q]), l.id = j.id PROVE FALSE
  BY DEF IdsOf
<1>1. p \in Nat /\ q \in Nat /\ next.id \in Nat
  BY Constants DEF TypeInv, Types
<1>2. p < next.id /\ q < next.id
  BY <1>1 DEF Evolves
<1>3. (l \in Results(plans[p]) \/ l.id = next.id) /\ (j \in Results(plans[q]) \/ j.id = next.id)
  BY <1>2 DEF Evolves
<1>4. /\ \A i \in Results(plans[p]) : i.id < next.id /\ i.id \in Nat
      /\ \A i \in Results(plans[q]) : i.id < next.id /\ i.id \in Nat
  BY ResultsIs, Constants DEF Ownership, PlanInv, LayerRec
<1>5. CASE l.id = next.id
  BY <1>1, <1>3, <1>4, <1>5 DEF Evolves
<1>6. CASE l \in Results(plans[p]) /\ j \in Results(plans[q])
  BY <1>6 DEF Ownership, IdsOf
<1> QED
  BY <1>1, <1>3, <1>4, <1>5, <1>6

\* A step of one process, and what is left to show of it.
LEMMA OwnershipKept ==
  ASSUME TypeInv, TypeInv', Ownership, Evolves, NEW x \in Processes, NEW r, process' = [process EXCEPT ![x] = r],
         ProcIds(x, r)',
         \A y \in Workers \ {x} : Changing(process[y]) =>
            /\ \A l \in process[y].change.newLayers : Unlisted(l.id)'
            /\ process[y].change.forget \cap files' = {}
            /\ LiveChange(process[y].change) => \A l \in process[y].change.newLayers : Layer(l.id) \in files',
         \A y \in Mergers \ {x} : process[y].pc = "results" => \A l \in Results(plans'[process[y].job.plan]) : Unlisted(l.id)',
         \A p \in Plans : PlanInv(p, plans[p])',
         \A m \in queue' : m.plan < next'.id,
         x \in Workers => \A y \in Workers \ {x} : Pair(x, y)' /\ Pair(y, x)'
  PROVE  Ownership'
<1>1. process \in [Processes -> ProcRec] /\ process'[x] = r /\ \A y \in Processes \ {x} : process'[y] = process[y]
  BY DEF TypeInv, Types
<1>2. ASSUME NEW y \in Processes PROVE ProcIds(y, process[y])'
  <2>1. CASE y = x
    BY <1>1, <2>1
  <2>2. CASE y # x
    <3>1. process'[y] = process[y]
      BY <1>1, <2>2
    <3>2. \A s : s = process[y] => ProcIds(y, s)'
      <4> SUFFICES ASSUME NEW s, s = process[y] PROVE ProcIds(y, s)'
        OBVIOUS
      <4>1. y \in Workers /\ Changing(s) =>
            /\ \A l \in s.change.newLayers : Unlisted(l.id)'
            /\ s.change.forget \cap files' = {}
            /\ LiveChange(s.change) => \A l \in s.change.newLayers : Layer(l.id) \in files'
        BY <2>2
      <4>2. y \in Mergers /\ s.pc = "results" => \A l \in Results(plans'[s.job.plan]) : Unlisted(l.id)'
        BY <2>2
      <4> QED
        BY <4>1, <4>2, ProcKept
    <3> QED
      BY <3>1, <3>2
  <2> QED
    BY <2>1, <2>2
<1>3. ASSUME NEW y \in Workers, NEW z \in Workers, y # z PROVE Pair(y, z)'
  <2>1. CASE y = x
    BY <1>3, <2>1
  <2>2. CASE z = x
    BY <1>3, <2>2
  <2>3. CASE y # x /\ z # x
    <3>1. y \in Processes /\ z \in Processes
      BY Disjoint DEF Workers
    <3> QED
      BY <1>1, <1>3, <2>3, <3>1, PairKept
  <2> QED
    BY <2>1, <2>2, <2>3
<1> QED
  BY <1>2, <1>3, ResultsApart DEF Ownership

-----------------------------------------------------------------------------
(* Steps that leave the manifest and the pending objects.                  *)

LEMMA GrowsIs ==
  ASSUME TypeInv, TypeInv', UNCHANGED <<manifest, pending>>, next.id <= next'.id,
         files \subseteq files', \A f \in files' : f \in files \/ f = Layer(next.id) \/ f = Pack(next.id)
  PROVE  /\ Visible' = Visible /\ Late' = Late /\ \A id : Unlisted(id)' <=> Unlisted(id)
         /\ \A id : PackFree(id)' <=> PackFree(id)
         /\ \A id \in Ids : id < next.id => (Seen(id)' <=> Seen(id))
         /\ \A id \in Ids : id < next.id => (Layer(id) \in files' <=> Layer(id) \in files) /\ (Pack(id) \in files' <=> Pack(id) \in files)
         /\ next.id \in Nat /\ next'.id \in Nat /\ next.id > N
<1>1. Late' = Late
  BY DEF Late
<1>2. Visible' = Visible
  BY <1>1 DEF Visible
<1>3. \A id : Unlisted(id)' <=> Unlisted(id)
  BY <1>2 DEF Unlisted
<1>4. \A id : PackFree(id)' <=> PackFree(id)
  BY DEF PackFree
<1>5. next.id \in Nat /\ next'.id \in Nat /\ next.id > N
  BY DEF TypeInv, Types
<1>6. ASSUME NEW id \in Ids, id < next.id
      PROVE  (Layer(id) \in files' <=> Layer(id) \in files) /\ (Pack(id) \in files' <=> Pack(id) \in files)
  <2>1. id # next.id
    BY <1>5, <1>6, Constants
  <2>2. Layer(id) # Layer(next.id) /\ Layer(id) # Pack(next.id) /\ Pack(id) # Pack(next.id) /\ Pack(id) # Layer(next.id)
    BY <2>1 DEF Layer, Pack
  <2> QED
    BY <2>2
<1>7. \A id \in Ids : id < next.id => (Seen(id)' <=> Seen(id))
  BY <1>2, <1>6 DEF Seen
<1> QED
  BY <1>1, <1>2, <1>3, <1>4, <1>5, <1>6, <1>7

LEMMA GrowsNames ==
  ASSUME TypeInv, TypeInv', Names, Packs, UNCHANGED <<manifest, pending, named>>, next.id <= next'.id,
         files \subseteq files', \A f \in files' : f \in files \/ f = Layer(next.id) \/ f = Pack(next.id),
         NEW x \in Processes, NEW r, process' = [process EXCEPT ![x] = r],
         r.pc = "put" => \A c \in Commits : x = Committer(c) => c \notin named,
         r.pc = "claim" => Applies(WithPending(manifest, r.listed), r.change),
         x \in Workers /\ Changing(r) => \A pk \in r.change.newPacks : PackFree(pk.id)
  PROVE  Names' /\ Packs'
<1>1. process \in [Processes -> ProcRec] /\ process'[x] = r /\ \A y \in Processes \ {x} : process'[y] = process[y]
  BY DEF TypeInv, Types
<1>2. /\ Visible' = Visible /\ Late' = Late /\ \A id : Unlisted(id)' <=> Unlisted(id)
      /\ \A id : PackFree(id)' <=> PackFree(id)
      /\ \A id \in Ids : id < next.id => (Seen(id)' <=> Seen(id))
      /\ next.id \in Nat /\ next'.id \in Nat /\ next.id > N
  BY GrowsIs
<1>3. \A c \in Commits : c \in Ids /\ c < next.id
  BY <1>2, Constants
<1>4. \A c \in Commits : Putting(c)' => Putting(c) \/ c \notin named
  BY <1>1, Disjoint DEF Putting
<1>5. ASSUME NEW y \in Processes, Matching(y)'
      PROVE  Applies(WithPending(manifest, process[y].listed), process[y].change)'
  <2>1. ASSUME y # x PROVE process'[y] = process[y] /\ Matching(y)
    BY <1>1, <1>5, <2>1 DEF Matching
  <2>2. Applies(WithPending(manifest, process'[y].listed), process'[y].change)
    <3>1. CASE y = x
      BY <1>1, <1>5, <3>1 DEF Matching
    <3>2. CASE y # x
      BY <2>1, <3>2 DEF Names
    <3> QED
      BY <3>1, <3>2
  <2>3. WithPending(manifest, process[y].listed)' = WithPending(manifest, process'[y].listed)
    BY DEF WithPending, Unfolded
  <2> QED
    BY <2>2, <2>3 DEF Applies
<1>6. Names'
  <2>1. /\ \A l \in manifest.layers : l.id \in Nat /\ l.id < next'.id
        /\ \A id \in Ids : Layer(id) \in manifest.retired => id < next'.id
    BY <1>2, Constants DEF Names, TypeInv, Types, ManifestOK, ManifestRec, LayerRec
  <2>2. \A c \in Commits : c \in named' <=> Seen(c)'
    BY <1>2, <1>3 DEF Names
  <2> QED
    BY <1>2, <1>4, <1>5, <2>1, <2>2 DEF Names
<1>7. Packs'
  <2>1. /\ \A pk \in manifest.packs : pk.id \in Nat /\ pk.id < next'.id
        /\ \A id \in Ids : Pack(id) \in manifest.retired => id < next'.id
    BY <1>2, Constants DEF Packs, TypeInv, Types, ManifestOK, ManifestRec, PackRec
  <2>2. ASSUME NEW y \in Workers, Changing(process'[y]), NEW pk \in process'[y].change.newPacks PROVE PackFree(pk.id)'
    <3>1. y \in Processes
      BY Disjoint DEF Workers
    <3>2. PackFree(pk.id)
      BY <1>1, <2>2, <3>1 DEF Packs
    <3> QED
      BY <1>2, <3>2
  <2> QED
    BY <1>2, <2>1, <2>2 DEF Packs
<1> QED
  BY <1>6, <1>7

\* What the steps of others need not fear.
LEMMA OthersGrow ==
  ASSUME TypeInv, TypeInv', IdInv, UNCHANGED <<manifest, pending>>, next.id <= next'.id,
         files \subseteq files', \A f \in files' : f \in files \/ f = Layer(next.id) \/ f = Pack(next.id),
         NEW y \in Workers, Changing(process[y])
  PROVE  /\ \A l \in process[y].change.newLayers : Unlisted(l.id)'
         /\ process[y].change.forget \cap files' = {}
         /\ LiveChange(process[y].change) => \A l \in process[y].change.newLayers : Layer(l.id) \in files'
<1>1. y \in Processes
  BY Disjoint DEF Workers
<1>2. ChangeIds(y, process[y]) /\ process[y] \in ProcRec
  BY <1>1, ProcBelow DEF IdInv, Ownership, ProcIds
<1>3. \A id : Unlisted(id)' <=> Unlisted(id)
  BY GrowsIs
<1>4. process[y].change.forget \subseteq Things
  BY <1>2 DEF ProcRec, ChangeRec
<1>5. next.id \in Nat
  BY GrowsIs
<1>6. ASSUME NEW f \in process[y].change.forget PROVE f \notin files'
  <2>1. PICK id \in Ids : f = Layer(id) \/ f = Pack(id)
    BY <1>4 DEF Things
  <2>2. id < next.id
    BY <1>2, <2>1 DEF ChangeIds
  <2>3. f \notin files
    BY <1>2 DEF ChangeIds
  <2> QED
    BY <2>1, <2>2, <2>3, GrowsIs
<1> QED
  BY <1>2, <1>3, <1>6 DEF ChangeIds

LEMMA StillEvolves ==
  ASSUME TypeInv, TypeInv', IdInv, UNCHANGED <<manifest, pending, plans>>, next.id <= next'.id,
         files \subseteq files', \A f \in files' : f \in files \/ f = Layer(next.id) \/ f = Pack(next.id)
  PROVE  Evolves
<1>1. /\ Visible' = Visible
      /\ \A id \in Ids : id < next.id => (Seen(id)' <=> Seen(id))
      /\ next.id \in Nat
  BY GrowsIs
<1>2. \A p \in Plans : PlanInv(p, plans[p]) /\ p \in Nat
  BY Constants DEF IdInv, Ownership
<1>3. ASSUME NEW p \in Plans, p >= next.id PROVE Results(plans[p]) = {}
  <2>1. ~plans[p].there
    BY <1>1, <1>2, <1>3 DEF PlanInv
  <2> QED
    BY <2>1, PlanNot
<1>4. \A p \in Plans : \A l \in Results(plans[p]) : l.id < next.id /\ l.id \in Nat
  BY <1>2, ResultsIs, Constants DEF PlanInv, LayerRec
<1>5. \A p \in Plans : \A l \in Results(plans[p]) : l.id # next.id
  BY <1>1, <1>4
<1>6. \A p \in Plans : plans[p].done \subseteq plans[p].done
  OBVIOUS
<1> QED
  BY <1>1, <1>3, <1>5, <1>6 DEF Evolves, PlanKept

\* A step of one process that leaves the plans.
LEMMA StillStep ==
  ASSUME TypeInv, TypeInv', IdInv, UNCHANGED <<manifest, pending, plans, named>>, next.id <= next'.id,
         files \subseteq files', \A f \in files' : f \in files \/ f = Layer(next.id) \/ f = Pack(next.id),
         NEW x \in Processes, NEW r, process' = [process EXCEPT ![x] = r],
         r.pc = "put" => \A c \in Commits : x = Committer(c) => c \notin named,
         r.pc = "claim" => Applies(WithPending(manifest, r.listed), r.change),
         x \in Workers /\ Changing(r) => \A pk \in r.change.newPacks : PackFree(pk.id),
         ProcIds(x, r)',
         x \in Workers => \A y \in Workers \ {x} : Pair(x, y)' /\ Pair(y, x)',
         \A m \in queue' : m.plan < next'.id,
         \A p \in Plans : plans[p].old => (\A m \in queue' : m.plan # p) /\ (x \in Mergers => r.job.plan # p)
  PROVE  IdInv'
<1>1. Names' /\ Packs'
  BY GrowsNames DEF IdInv
<1>2. Evolves
  BY StillEvolves
<1>3. process \in [Processes -> ProcRec] /\ process'[x] = r /\ \A y \in Processes \ {x} : process'[y] = process[y]
  BY DEF TypeInv, Types
<1>4. ASSUME NEW p \in Plans PROVE PlanInv(p, plans[p])'
  <2>1. \A P : P = plans[p] => PlanInv(p, P)'
    <3> SUFFICES ASSUME NEW P, P = plans[p] PROVE PlanInv(p, P)'
      OBVIOUS
    <3>1. PlanInv(p, P)
      BY DEF IdInv, Ownership
    <3>2. Results(P) \subseteq LayerRec /\ \A l \in Results(P) : l.id < next.id
      BY <3>1, ResultsIs DEF PlanInv
    <3>3. LivePlan(P) => \A l \in Results(P) : Layer(l.id) \in files'
      BY <3>1 DEF PlanInv
    <3>4. LivePlan(P) \/ ~P.claimed => \A l \in Results(P) : Unlisted(l.id)'
      BY <3>1, GrowsIs DEF PlanInv
    <3>5. P.old => (\A m \in queue' : m.plan # p) /\ \A g \in Mergers : process'[g].job.plan # p
      BY <1>3, <3>1, Disjoint DEF PlanInv
    <3> QED
      BY <1>2, <3>3, <3>4, <3>5, PlanInvKept DEF IdInv
  <2> QED
    BY <2>1
<1>5. \A y \in Workers \ {x} : Changing(process[y]) =>
            /\ \A l \in process[y].change.newLayers : Unlisted(l.id)'
            /\ process[y].change.forget \cap files' = {}
            /\ LiveChange(process[y].change) => \A l \in process[y].change.newLayers : Layer(l.id) \in files'
  BY OthersGrow
<1>6. ASSUME NEW y \in Mergers \ {x}, process[y].pc = "results", NEW l \in Results(plans'[process[y].job.plan]) PROVE Unlisted(l.id)'
  <2>1. ProcIds(y, process[y])
    BY Disjoint, ProcBelow DEF IdInv
  <2> QED
    BY <1>6, <2>1, GrowsIs DEF ProcIds
<1>7. Ownership'
  BY <1>2, <1>4, <1>5, <1>6, OwnershipKept DEF IdInv
<1> QED
  BY <1>1, <1>7 DEF IdInv

\* A process that holds no new file and drops nothing.
Plain(x, r) ==
    /\ r.pc \notin {"update", "claim", "swap", "results", "dropAll", "dropping"}
    /\ x \in Mergers => r.pc # "clear"
    /\ r.pc # "clear" => r.listed = {}

LEMMA PlainIds ==
  ASSUME NEW x \in Processes, NEW r, x \in Workers => Plain(x, r)
  PROVE  /\ r.job.plan < next'.id => ProcIds(x, r)'
         /\ r.job.plan < next.id => ProcIds(x, r)
<1>1. Mergers \subseteq Workers /\ Maintainers \subseteq Workers
  BY DEF Workers
<1> QED
  BY <1>1 DEF ProcIds, Plain, Changing, Holds, Dropping

LEMMA PlainPair ==
  ASSUME NEW x \in Workers, NEW y \in Workers, NEW r, process'[x] = r, Plain(x, r)
  PROVE  Pair(x, y)' /\ Pair(y, x)'
  BY DEF Pair, Plain, Changing, Holds

LEMMA PlainStep ==
  ASSUME TypeInv, TypeInv', IdInv, UNCHANGED <<manifest, pending, files, plans, named>>, next.id <= next'.id,
         NEW x \in Processes, NEW r, process' = [process EXCEPT ![x] = r], r.pc \notin {"put", "claim"},
         x \in Workers => Plain(x, r), r.job.plan < next'.id,
         \A m \in queue' : m.plan < next'.id,
         \A p \in Plans : plans[p].old => (\A m \in queue' : m.plan # p) /\ (x \in Mergers => r.job.plan # p)
  PROVE  IdInv'
<1>1. ProcIds(x, r)'
  BY PlainIds
<1>2. process'[x] = r
  BY DEF TypeInv, Types
<1>3. x \in Workers => \A y \in Workers \ {x} : Pair(x, y)' /\ Pair(y, x)'
  BY <1>2, PlainPair
<1>4. x \in Workers => ~Changing(r)
  BY DEF Plain, Changing
<1> QED
  BY <1>1, <1>3, <1>4, StillStep

LEMMA QueueBelow ==
  ASSUME TypeInv, IdInv
  PROVE  /\ \A m \in queue : m.plan < next.id /\ m.plan \in Plans
         /\ \A p \in Plans : plans[p].old => (\A m \in queue : m.plan # p) /\ \A g \in Mergers : process[g].job.plan # p
         /\ 0 < next.id /\ next.id \in Nat /\ 0 \notin Plans
         /\ \A p \in Plans : plans[p].there => p < next.id
<1>1. next.id \in Nat /\ next.id > N /\ N \in Nat
  BY Constants DEF TypeInv, Types
<1>2. \A m \in queue : m.plan \in Plans
  BY DEF TypeInv, Types
<1> QED
  BY <1>1, <1>2, Constants DEF IdInv, Ownership, PlanInv

LEMMA JobFree ==
  ASSUME TypeInv, IdInv, NEW g \in Mergers, NEW p \in Plans, plans[p].old
  PROVE  process[g].job.plan # p /\ \A m \in queue : m.plan # p
  BY QueueBelow

\* A maintain job that goes on.
LEMMA MaintainPlain ==
  ASSUME TypeInv, TypeInv', IdInv, NEW w \in Maintainers, UNCHANGED <<manifest, pending, files, plans, named, queue>>,
         next.id <= next'.id, NEW r, process' = [process EXCEPT ![w] = r], Plain(w, r), r.pc # "put", r.job.plan < next'.id
  PROVE  IdInv'
<1>1. w \in Processes /\ w \notin Mergers /\ w \in Workers
  BY Disjoint DEF Workers
<1>2. r.pc \notin {"put", "claim"}
  BY DEF Plain
<1>3. \A m \in queue' : m.plan < next'.id
  <2>1. \A m \in queue : m.plan < next.id /\ m.plan \in Nat /\ next.id \in Nat
    BY QueueBelow, Constants
  <2>2. next'.id \in Nat
    BY DEF TypeInv, Types
  <2> QED
    BY <2>1, <2>2
<1> QED
  BY <1>1, <1>2, <1>3, QueueBelow, PlainStep

LEMMA MaintainGotoIds ==
  ASSUME TypeInv, TypeInv', IdInv, NEW w \in Maintainers, UNCHANGED <<manifest, pending, files, plans, named, queue, next>>,
         process[w].pc \notin {"claim", "clear", "dropping"},
         NEW pc \in {"idle", "break", "layers", "packs", "pass", "sweep", "release"}, Goto(w, pc)
  PROVE  IdInv'
<1>1. w \in Processes /\ w \in Workers
  BY Disjoint DEF Workers
<1>2. pc \in Steps
  BY DEF Steps
<1> DEFINE r == [process[w] EXCEPT !.pc = pc]
<1>3. process' = [process EXCEPT ![w] = r] /\ r.pc = pc /\ r.listed = process[w].listed /\ r.job = process[w].job
  BY <1>1, <1>2, GotoIs
<1>4. process[w].listed = {} /\ process[w].job.plan < next.id
  BY <1>1, ProcBelow DEF IdInv, ProcIds
<1> HIDE DEF r
<1>5. Plain(w, r) /\ r.pc # "put" /\ r.job.plan < next'.id
  BY <1>3, <1>4, Disjoint DEF Plain
<1>6. next.id \in Nat /\ next.id <= next'.id
  BY QueueBelow
<1> QED
  BY <1>3, <1>5, <1>6, MaintainPlain

LEMMA MaintainAtIds ==
  ASSUME TypeInv, TypeInv', IdInv, NEW w \in Maintainers, UNCHANGED <<manifest, pending, files, plans, named, queue, next>>,
         NEW pc \in {"idle", "layers", "sweep"}, process' = [process EXCEPT ![w] = At(pc)]
  PROVE  IdInv'
<1>1. pc \in Steps
  BY DEF Steps
<1>2. At(pc).pc = pc /\ At(pc).listed = {} /\ At(pc).job.plan = 0
  <2>1. Message(0, 0).plan = 0
    BY DEF Message
  <2> QED
    BY <1>1, <2>1, AtIs
<1>3. Plain(w, At(pc)) /\ At(pc).pc # "put"
  BY <1>2, Disjoint DEF Plain
<1>4. next.id \in Nat /\ next.id <= next'.id /\ At(pc).job.plan < next'.id
  BY <1>2, QueueBelow
<1> QED
  BY <1>3, <1>4, MaintainPlain

LEMMA LeaseIds ==
  ASSUME TypeInv, TypeInv', IdInv, NEW w \in Maintainers,
         TakeLease(w) \/ SeeDeadLease(w) \/ BreakLease(w) \/ Release(w) \/ MaintainDies(w)
  PROVE  IdInv'
<1>1. CASE TakeLease(w)
  BY <1>1, MaintainGotoIds DEF TakeLease
<1>2. CASE SeeDeadLease(w)
  BY <1>2, MaintainGotoIds DEF SeeDeadLease
<1>3. CASE BreakLease(w)
  BY <1>3, MaintainGotoIds DEF BreakLease
<1>4. CASE Release(w)
  BY <1>4, MaintainAtIds DEF Release, Idle
<1>5. CASE MaintainDies(w)
  BY <1>5, MaintainAtIds DEF MaintainDies, Idle
<1> QED
  BY <1>1, <1>2, <1>3, <1>4, <1>5

LEMMA NothingDueIds ==
  ASSUME TypeInv, TypeInv', IdInv, NEW w \in Maintainers, NoneDue(w) \/ NoPacksDue(w) \/ NextPass(w) \/ EndPasses(w)
  PROVE  IdInv'
<1>1. CASE NoneDue(w)
  BY <1>1, MaintainGotoIds DEF NoneDue
<1>2. CASE NoPacksDue(w)
  BY <1>2, MaintainGotoIds DEF NoPacksDue
<1>3. CASE NextPass(w)
  <2>1. PICK pc \in {"layers", "sweep"} : process' = [process EXCEPT ![w] = At(pc)]
    BY <1>3 DEF NextPass
  <2> QED
    BY <1>3, <2>1, MaintainAtIds DEF NextPass
<1>4. CASE EndPasses(w)
  BY <1>4, MaintainAtIds DEF EndPasses
<1> QED
  BY <1>1, <1>2, <1>3, <1>4

\* Every name in use is below the next one.
LEMMA Below ==
  ASSUME TypeInv, IdInv
  PROVE  /\ next.id \in Nat
         /\ \A id \in Visible : id < next.id /\ id \in Ids
         /\ Unlisted(next.id) \/ next.id \notin Ids
         /\ PackFree(next.id) \/ next.id \notin Ids
         /\ \A p \in Plans : \A l \in Results(plans[p]) : l.id < next.id /\ l.id \in Nat /\ l.id # next.id
         /\ \A x \in Workers : Changing(process[x]) => \A l \in process[x].change.newLayers :
               l.id < next.id /\ l.id \in Nat /\ l.id # next.id
<1>1. next.id \in Nat /\ next.id > N /\ N \in Nat
  BY Constants DEF TypeInv, Types
<1>2. \A c \in Commits : c < next.id /\ c \in Ids /\ c \in Nat
  BY <1>1, Constants
<1>3. manifest.layers \subseteq LayerRec /\ manifest.packs \subseteq PackRec
  BY DEF TypeInv, Types, ManifestOK, ManifestRec
<1>4. \A id \in Visible : id < next.id /\ id \in Ids
  BY <1>2, <1>3, NamesApart DEF Visible, IdInv, Names, LayerIds, LayerRec
<1>5. Unlisted(next.id) \/ next.id \notin Ids
  <2>1. next.id \notin Visible
    BY <1>1, <1>4
  <2>2. next.id \in Ids => Layer(next.id) \notin manifest.retired
    BY <1>1 DEF IdInv, Names
  <2> QED
    BY <2>1, <2>2 DEF Unlisted
<1>6. PackFree(next.id) \/ next.id \notin Ids
  <2>1. \A pk \in manifest.packs : pk.id < next.id
    BY DEF IdInv, Packs
  <2>2. next.id \notin PackIds(manifest)
    BY <1>1, <2>1 DEF PackIds
  <2>3. next.id \in Ids => Pack(next.id) \notin manifest.retired
    BY <1>1 DEF IdInv, Packs
  <2> QED
    BY <2>2, <2>3 DEF PackFree
<1>7. ASSUME NEW p \in Plans, NEW l \in Results(plans[p]) PROVE l.id < next.id /\ l.id \in Nat /\ l.id # next.id
  <2>1. l.id < next.id
    BY DEF IdInv, Ownership, PlanInv
  <2>2. l.id \in Nat
    BY ResultsIs, Constants DEF LayerRec
  <2> QED
    BY <1>1, <2>1, <2>2
<1>8. ASSUME NEW x \in Workers, Changing(process[x]), NEW l \in process[x].change.newLayers
      PROVE  l.id < next.id /\ l.id \in Nat /\ l.id # next.id
  <2>1. x \in Processes
    BY Disjoint DEF Workers
  <2>2. ChangeIds(x, process[x]) /\ process[x] \in ProcRec
    BY <1>8, <2>1, ProcBelow DEF IdInv, ProcIds
  <2>3. l \in LayerRec
    BY <2>2 DEF ProcRec, ChangeRec
  <2>4. l.id \in Nat /\ l.id < next.id
    BY <2>2, <2>3, Constants DEF LayerRec, ChangeIds
  <2> QED
    BY <1>1, <2>4
<1> QED
  BY <1>1, <1>4, <1>5, <1>6, <1>7, <1>8

LEMMA FreshPair ==
  ASSUME TypeInv, IdInv, NEW x \in Workers, NEW y \in Workers, x # y, NEW r, process'[x] = r, process'[y] = process[y],
         r.pc = "update", \A l \in r.change.newLayers : l.id = next.id, next.id \in Plans, x \in Maintainers
  PROVE  Pair(x, y)' /\ Pair(y, x)'
<1>1. Changing(process[y]) => \A l \in process[y].change.newLayers : l.id # next.id
  BY Below
<1>2. y \in Processes /\ x \notin Mergers
  BY Disjoint DEF Workers
<1>3. process[y].pc = "dropping" => Layer(next.id) \notin process[y].listed
  <2>1. ProcIds(y, process[y]) /\ next.id \in Nat
    BY <1>2, ProcBelow DEF IdInv
  <2> QED
    BY <2>1 DEF ProcIds
<1>4. IdsOf(r.change.newLayers) \subseteq {next.id}
  BY DEF IdsOf
<1>5. Changing(process[y]) => next.id \notin IdsOf(process[y].change.newLayers)
  BY <1>1 DEF IdsOf
<1>6. Pair(x, y)'
  BY <1>2, <1>4, <1>5 DEF Pair
<1>7. Pair(y, x)'
  BY <1>2, <1>3, <1>4, <1>5 DEF Pair
<1> QED
  BY <1>6, <1>7

\* A maintain job begins a change, its new layer under the next name.
LEMMA BeginsIds ==
  ASSUME TypeInv, TypeInv', IdInv, UNCHANGED <<manifest, pending, plans, named, queue>>, next.id <= next'.id,
         files \subseteq files', \A f \in files' : f \in files \/ f = Layer(next.id) \/ f = Pack(next.id),
         NEW x \in Maintainers, NEW r, process' = [process EXCEPT ![x] = r], r.pc = "update", r.job = Message(0, 0),
         r.listed = {}, NEW n \in Plans, n = next.id,
         \A l \in r.change.newLayers : l.id = n /\ Layer(n) \in files' /\ n < next'.id,
         \A l, j \in r.change.newLayers : l = j,
         \A pk \in r.change.newPacks : pk.id = n,
         r.change.oldLayers \subseteq Visible, r.change.forget = {}
  PROVE  IdInv'
<1>1. x \in Processes /\ x \notin Mergers /\ x \in Workers /\ Message(0, 0).plan = 0
  BY Disjoint DEF Workers, Message
<1>2. process'[x] = r /\ (\A y \in Processes \ {x} : process'[y] = process[y]) /\ next'.id \in Nat
  BY <1>1 DEF TypeInv, Types
<1>3. Unlisted(n)' /\ PackFree(n)' /\ PackFree(n)
  BY Below, GrowsIs, Constants
<1>4. \A id \in r.change.oldLayers : Seen(id)' /\ id < next'.id
  <2>1. \A id \in r.change.oldLayers : id \in Visible' /\ id < next.id /\ id \in Nat /\ next.id \in Nat
    BY Below, GrowsIs, Constants
  <2> QED
    BY <1>2, <2>1 DEF Seen
<1>5. ChangeIds(x, r)'
  <2>1. \A l \in r.change.newLayers : Unlisted(l.id)' /\ l.id < next'.id /\ Layer(l.id) \in files'
    BY <1>3
  <2>2. \A p \in Plans : \A l \in r.change.newLayers, j \in Results(plans'[p]) : l.id # j.id
    BY Below
  <2> QED
    BY <1>1, <1>4, <2>1, <2>2 DEF ChangeIds
<1>6. ProcIds(x, r)'
  BY <1>1, <1>2, <1>5, QueueBelow DEF ProcIds, Holds, Dropping
<1>7. \A y \in Workers \ {x} : Pair(x, y)' /\ Pair(y, x)'
  <2> SUFFICES ASSUME NEW y \in Workers \ {x} PROVE Pair(x, y)' /\ Pair(y, x)'
    OBVIOUS
  <2>1. process'[y] = process[y]
    BY <1>2, Disjoint DEF Workers
  <2> QED
    BY <1>1, <1>2, <2>1, FreshPair
<1>8. \A pk \in r.change.newPacks : PackFree(pk.id)
  BY <1>3
<1>9. \A m \in queue' : m.plan < next'.id
  <2>1. \A m \in queue : m.plan < next.id /\ m.plan \in Nat /\ next.id \in Nat
    BY QueueBelow, Constants
  <2> QED
    BY <1>2, <2>1
<1>10. r.pc \notin {"put", "claim"}
  OBVIOUS
<1> QED
  BY <1>1, <1>6, <1>7, <1>8, <1>9, <1>10, QueueBelow, StillStep

LEMMA MergeLayersIds ==
  ASSUME TypeInv, TypeInv', IdInv, NEW w \in Maintainers, MergeLayers(w)
  PROVE  IdInv'
<1>1. PICK ls \in Stretches(Latest.layers), r \in ProcRec :
               /\ process' = [process EXCEPT ![w] = r]
               /\ r.pc = "update" /\ r.listed = {} /\ r.job = Message(0, 0)
               /\ r.change = [NoChange EXCEPT !.oldLayers = {l.id : l \in ls}, !.newLayers = {MergedRun(next.id, ls)}]
               /\ LayersMerged(r.change)
               /\ r.change.oldLayers = {l.id : l \in ls} /\ r.change.newLayers = {MergedRun(next.id, ls)} /\ next.id \in Plans
  BY MergeLayersIs
<1>2. r.change.newPacks = {} /\ r.change.forget = {}
  BY <1>1 DEF LayersMerged
<1>3. MergedRun(next.id, ls).id = next.id
  BY DEF MergedRun
<1>4. r.change.oldLayers \subseteq Visible
  <2>1. ls \subseteq Latest.layers
    BY StretchIs
  <2> QED
    BY <1>1, <2>1, LatestIs DEF LayerIds, IdInv
<1>5. UNCHANGED <<manifest, pending, plans, named, queue>> /\ files' = files \cup {Layer(next.id)} /\ next'.id = next.id + 1
  <2>1. next \in [id : Nat, key : Nat]
    BY DEF TypeInv, Types
  <2> QED
    BY <2>1 DEF MergeLayers
<1>6. next.id \in Nat /\ next.id <= next'.id /\ next.id < next'.id
  BY <1>5, Below
<1> QED
  BY <1>1, <1>2, <1>3, <1>4, <1>5, <1>6, BeginsIds

LEMMA MergePacksIds ==
  ASSUME TypeInv, TypeInv', IdInv, NEW w \in Maintainers, MergePacks(w)
  PROVE  IdInv'
<1>1. \A S, tier : PackLayer(next.id, S).id = next.id /\ MergedPack(next.id, tier, S).id = next.id
  BY DEF PackLayer, MergedPack
<1>2. PICK r \in ProcRec :
               /\ process' = [process EXCEPT ![w] = r] /\ next.id \in Plans
               /\ r.pc = "update" /\ r.listed = {} /\ r.job = Message(0, 0)
               /\ (\E pk : r.change.newPacks = {pk} /\ pk.id = next.id)
               /\ (\E l : r.change.newLayers = {l} /\ l.id = next.id) /\ r.change.oldLayers = {}
               /\ r.change.forget = {}
  <2> DEFINE Goal == \E r \in ProcRec :
               /\ process' = [process EXCEPT ![w] = r] /\ next.id \in Plans
               /\ r.pc = "update" /\ r.listed = {} /\ r.job = Message(0, 0)
               /\ (\E pk : r.change.newPacks = {pk} /\ pk.id = next.id)
               /\ (\E l : r.change.newLayers = {l} /\ l.id = next.id) /\ r.change.oldLayers = {}
               /\ r.change.forget = {}
  <2>1. ASSUME NEW tier, NEW S, NEW r \in ProcRec,
               process' = [process EXCEPT ![w] = r], next.id \in Plans,
               r.pc = "update", r.listed = {}, r.job = Message(0, 0),
               r.change.newPacks = {MergedPack(next.id, tier, S)},
               r.change.newLayers = {PackLayer(next.id, S)}, r.change.oldLayers = {}, r.change.forget = {}
        PROVE  Goal
    <3>1. \E pk : r.change.newPacks = {pk} /\ pk.id = next.id
      BY <1>1, <2>1
    <3>2. \E l : r.change.newLayers = {l} /\ l.id = next.id
      BY <1>1, <2>1
    <3> QED
      BY <2>1, <3>1, <3>2
  <2> HIDE DEF Goal
  <2>2. Goal
    BY <2>1, MergePacksIs
  <2> QED
    BY <2>2 DEF Goal
<1>3. UNCHANGED <<manifest, pending, plans, named, queue>> /\ files' = files \cup {Layer(next.id), Pack(next.id)} /\ next'.id = next.id + 1
  <2>1. next \in [id : Nat, key : Nat]
    BY DEF TypeInv, Types
  <2> QED
    BY <2>1 DEF MergePacks
<1>4. next.id \in Nat /\ next.id <= next'.id /\ next.id < next'.id
  BY <1>3, Below
<1> QED
  BY <1>2, <1>3, <1>4, BeginsIds

\* A step of one process that changes one plan.
LEMMA PlanStepIds ==
  ASSUME TypeInv, TypeInv', IdInv, UNCHANGED <<manifest, pending, named>>, next.id <= next'.id,
         files \subseteq files', \A f \in files' : f \in files \/ f = Layer(next.id) \/ f = Pack(next.id),
         NEW x \in Processes, NEW r, process' = [process EXCEPT ![x] = r], r.pc \notin {"put", "claim"},
         x \in Workers => ~Changing(r),
         ProcIds(x, r)', Evolves,
         x \in Workers => \A y \in Workers \ {x} : Pair(x, y)' /\ Pair(y, x)',
         \A m \in queue' : m.plan < next'.id,
         NEW p \in Plans, NEW P, plans' = [plans EXCEPT ![p] = P], PlanInv(p, P)',
         \A q \in Plans \ {p} : plans[q].old => (\A m \in queue' : m.plan # q) /\ (x \in Mergers => r.job.plan # q),
         \A l \in Results(P) : l \in Results(plans[p]) \/ Unlisted(l.id)
  PROVE  IdInv'
<1>1. Names' /\ Packs'
  BY GrowsNames DEF IdInv
<1>2. process \in [Processes -> ProcRec] /\ process'[x] = r /\ \A y \in Processes \ {x} : process'[y] = process[y]
  BY DEF TypeInv, Types
<1>3. plans'[p] = P /\ \A q \in Plans \ {p} : plans'[q] = plans[q]
  BY DEF TypeInv, Types
<1>4. ASSUME NEW q \in Plans PROVE PlanInv(q, plans[q])'
  <2>1. CASE q = p
    BY <1>3, <2>1
  <2>2. ASSUME q # p, NEW Q, Q = plans[q] PROVE PlanInv(q, Q)'
    <3>1. PlanInv(q, Q)
      BY <2>2 DEF IdInv, Ownership
    <3>2. Results(Q) \subseteq LayerRec /\ \A l \in Results(Q) : l.id < next.id
      BY <2>2, <3>1, ResultsIs DEF PlanInv
    <3>3. LivePlan(Q) => \A l \in Results(Q) : Layer(l.id) \in files'
      BY <3>1 DEF PlanInv
    <3>4. LivePlan(Q) \/ ~Q.claimed => \A l \in Results(Q) : Unlisted(l.id)'
      BY <3>1, GrowsIs DEF PlanInv
    <3>5. Q.old => (\A m \in queue' : m.plan # q) /\ \A g \in Mergers : process'[g].job.plan # q
      BY <1>2, <2>2, <3>1, Disjoint DEF PlanInv
    <3>6. plans'[q] = Q
      BY <1>3, <2>2
    <3> QED
      BY <2>2, <3>3, <3>4, <3>5, <3>6, PlanInvKept DEF IdInv
  <2> QED
    BY <1>3, <2>1, <2>2
<1>5. \A y \in Workers \ {x} : Changing(process[y]) =>
            /\ \A l \in process[y].change.newLayers : Unlisted(l.id)'
            /\ process[y].change.forget \cap files' = {}
            /\ LiveChange(process[y].change) => \A l \in process[y].change.newLayers : Layer(l.id) \in files'
  BY OthersGrow
<1>6. ASSUME NEW y \in Mergers \ {x}, process[y].pc = "results", NEW l \in Results(plans'[process[y].job.plan]) PROVE Unlisted(l.id)'
  <2>1. ProcIds(y, process[y]) /\ ProcShape(y, process[y])
    BY Disjoint, ProcBelow, ProcessTyped DEF IdInv
  <2>2. process[y].job.plan \in Plans
    BY <1>6, <2>1 DEF ProcShape, MergeShape
  <2>3. \A j \in Results(plans[process[y].job.plan]) : Unlisted(j.id)
    BY <1>6, <2>1 DEF ProcIds
  <2>4. Unlisted(l.id)
    BY <1>3, <1>6, <2>2, <2>3
  <2> QED
    BY <2>4, GrowsIs
<1>7. Ownership'
  BY <1>4, <1>5, <1>6, OwnershipKept DEF IdInv
<1> QED
  BY <1>1, <1>7 DEF IdInv

LEMMA SplitMergeIds ==
  ASSUME TypeInv, TypeInv', IdInv, NEW w \in Maintainers, SplitMerge(w)
  PROVE  IdInv'
<1>1. PICK ls \in Stretches(Latest.layers), P \in PlanRec :
               /\ plans' = [plans EXCEPT ![next.id] = P] /\ next.id \in Plans
               /\ P.layers = ls /\ P.there = TRUE /\ P.old = FALSE /\ P.claimed = FALSE
               /\ P.result = [i \in DOMAIN Ranges |-> {}]
  BY SplitMergeIs
<1>2. /\ UNCHANGED <<manifest, pending, named, files>> /\ next'.id = next.id + 1
      /\ queue' = queue \cup {Message(next.id, i) : i \in DOMAIN Ranges}
      /\ process[w].pc = "layers" /\ process' = [process EXCEPT ![w].pc = "packs", ![w].more = TRUE]
  <2>1. next \in [id : Nat, key : Nat]
    BY DEF TypeInv, Types
  <2> QED
    BY <2>1 DEF SplitMerge
<1>3. w \in Processes /\ w \in Workers /\ w \notin Mergers
  BY Disjoint DEF Workers
<1>4. PICK r \in ProcRec : process' = [process EXCEPT ![w] = r] /\ r.pc = "packs" /\ r.job = process[w].job /\ r.listed = process[w].listed
  <2> DEFINE r == [process[w] EXCEPT !.pc = "packs", !.more = TRUE]
  <2>a. "packs" \in Steps
    BY DEF Steps
  <2>1. process[w] \in ProcRec
    BY <1>3, ProcessTyped
  <2>2. r \in ProcRec /\ r.pc = "packs" /\ r.job = process[w].job /\ r.listed = process[w].listed
    BY <2>a, <2>1 DEF ProcRec
  <2>3. process' = [process EXCEPT ![w] = r]
    BY <1>2, <1>3 DEF TypeInv, Types
  <2> HIDE DEF r
  <2> QED
    BY <2>2, <2>3
<1>5. next.id \in Nat /\ next.id <= next'.id /\ next.id < next'.id
  BY <1>2, Below
<1>6. Plain(w, r) /\ r.job.plan < next'.id /\ process'[w] = r
  <2>1. process[w].listed = {} /\ process[w].job.plan < next.id /\ process[w].job.plan \in Nat
    BY <1>2, <1>3, ProcBelow DEF IdInv, ProcIds
  <2>2. process'[w] = r
    BY <1>3, <1>4 DEF TypeInv, Types
  <2> QED
    BY <1>2, <1>3, <1>4, <1>5, <2>1, <2>2 DEF Plain
<1>7. ProcIds(w, r)' /\ \A y \in Workers \ {w} : Pair(w, y)' /\ Pair(y, w)'
  BY <1>3, <1>6, PlainIds, PlainPair
<1>8. \A q \in Plans : q # next.id => plans'[q] = plans[q]
  BY <1>1 DEF TypeInv, Types
<1>9. plans'[next.id] = P /\ Results(P) = {}
  <2>1. plans'[next.id] = P
    BY <1>1 DEF TypeInv, Types
  <2>2. \A i \in DOMAIN Ranges : P.result[i] = {}
    BY <1>1
  <2> QED
    BY <2>1, <2>2 DEF Results
<1>10. Evolves
  <2>1. \A id \in Ids : id < next.id => (Seen(id)' <=> Seen(id))
    BY <1>2, <1>5, GrowsIs
  <2>2. Visible' = Visible
    BY <1>2, <1>5, GrowsIs
  <2>3. ASSUME NEW p \in Plans, p < next.id PROVE plans'[p] = plans[p]
    BY <1>5, <1>8, <2>3, Constants
  <2>4. ASSUME NEW p \in Plans, p >= next.id PROVE Results(plans'[p]) = {}
    <3>1. CASE p = next.id
      BY <1>9, <3>1
    <3>2. CASE p # next.id
      <4>1. ~plans[p].there
        BY <1>5, <2>4, QueueBelow, Constants
      <4> QED
        BY <1>8, <3>2, <4>1, PlanNot
    <3> QED
      BY <3>1, <3>2
  <2>5. \A p \in Plans : \A l \in Results(plans'[p]) : l.id # next.id
    <3> SUFFICES ASSUME NEW p \in Plans, NEW l \in Results(plans'[p]) PROVE l.id # next.id
      OBVIOUS
    <3>1. p < next.id
      BY <1>5, <2>4, Constants
    <3> QED
      BY <2>3, <3>1, Below
  <2> QED
    BY <1>5, <2>1, <2>2, <2>3, <2>4, <2>5 DEF Evolves, PlanKept
<1>11. \A p : p = next.id => PlanInv(p, P)'
  <2> SUFFICES ASSUME NEW p, p = next.id PROVE PlanInv(p, P)'
    OBVIOUS
  <2>1. \A l \in P.layers : Seen(l.id)' /\ l.id < next'.id
    <3> SUFFICES ASSUME NEW l \in P.layers PROVE Seen(l.id)' /\ l.id < next'.id
      OBVIOUS
    <3>1. l.id \in Visible
      BY <1>1, StretchIs, LatestIs DEF LayerIds, IdInv
    <3>2. l.id < next.id /\ l.id \in Nat /\ next'.id \in Nat
      BY <1>5, <3>1, Below, Constants, <1>2
    <3>3. l.id \in Visible'
      BY <1>2, <1>5, <3>1, GrowsIs
    <3> QED
      BY <1>5, <3>2, <3>3 DEF Seen
  <2> QED
    BY <1>1, <1>5, <1>9, <2>1 DEF PlanInv
<1>12. \A m \in queue' : m.plan < next'.id
  <2>1. \A m \in queue : m.plan < next.id /\ m.plan \in Nat
    BY QueueBelow, Constants
  <2>2. \A i \in DOMAIN Ranges : Message(next.id, i).plan = next.id
    BY DEF Message
  <2> QED
    BY <1>2, <1>5, <2>1, <2>2
<1>13. \A q \in Plans : q # next.id /\ plans[q].old => (\A m \in queue' : m.plan # q)
  <2>2. \A i \in DOMAIN Ranges : Message(next.id, i).plan = next.id
    BY DEF Message
  <2> QED
    BY <1>2, <2>2, QueueBelow
<1>14. ~Changing(r) /\ r.pc \notin {"put", "claim"}
  BY <1>4 DEF Changing
<1>15. \A p : p = next.id => IdInv'
  <2> SUFFICES ASSUME NEW p, p = next.id PROVE IdInv'
    OBVIOUS
  <2>1. p \in Plans /\ plans' = [plans EXCEPT ![p] = P] /\ PlanInv(p, P)'
    BY <1>1, <1>11
  <2>2. files \subseteq files' /\ (\A f \in files' : f \in files \/ f = Layer(next.id) \/ f = Pack(next.id))
        /\ UNCHANGED <<manifest, pending, named>>
    BY <1>2
  <2>3. \A q \in Plans \ {p} : plans[q].old => (\A m \in queue' : m.plan # q) /\ (w \in Mergers => r.job.plan # q)
    BY <1>3, <1>13
  <2>4. \A l \in Results(P) : l \in Results(plans[p]) \/ Unlisted(l.id)
    BY <1>9
  <2> QED
    BY <1>3, <1>4, <1>5, <1>7, <1>10, <1>12, <1>14, <2>1, <2>2, <2>3, <2>4, PlanStepIds
<1> QED
  BY <1>15

LEMMA AbandonIds ==
  ASSUME TypeInv, TypeInv', IdInv, NEW w \in Maintainers, Abandon(w)
  PROVE  IdInv'
<1>1. w \in Processes /\ w \in Workers /\ w \notin Mergers
  BY Disjoint DEF Workers
<1>2. PICK p \in InFlight : plans[p].old /\ process' = [process EXCEPT ![w].pc = "dropAll", ![w].job = Message(p, 0)]
  BY DEF Abandon
<1>3. p \in Plans /\ plans[p].there /\ p \in Nat
  BY Constants DEF InFlight
<1>4. PICK r \in ProcRec : process' = [process EXCEPT ![w] = r] /\ r.pc = "dropAll" /\ r.job.plan = p /\ r.listed = process[w].listed
  <2> DEFINE r == [process[w] EXCEPT !.pc = "dropAll", !.job = Message(p, 0)]
  <2>a. "dropAll" \in Steps
    BY DEF Steps
  <2>b. Message(p, 0) \in JobRec /\ Message(p, 0).plan = p
    BY <1>3 DEF Message, JobRec
  <2>1. process[w] \in ProcRec
    BY <1>1, ProcessTyped
  <2>2. r \in ProcRec /\ r.pc = "dropAll" /\ r.job.plan = p /\ r.listed = process[w].listed
    BY <2>a, <2>b, <2>1 DEF ProcRec
  <2>3. process' = [process EXCEPT ![w] = r]
    BY <1>1, <1>2 DEF TypeInv, Types
  <2> HIDE DEF r
  <2> QED
    BY <2>2, <2>3
<1>5. UNCHANGED <<manifest, pending, files, plans, named, next, queue>> /\ process[w].pc = "layers"
  BY DEF Abandon
<1>6. process'[w] = r /\ \A y \in Processes \ {w} : process'[y] = process[y]
  BY <1>1, <1>4 DEF TypeInv, Types
<1>7. process[w].listed = {}
  BY <1>1, <1>5, ProcBelow DEF IdInv, ProcIds
<1>8. ProcIds(w, r)'
  <2>1. r.job.plan < next'.id /\ plans'[r.job.plan].old
    BY <1>2, <1>3, <1>4, <1>5, QueueBelow
  <2> QED
    BY <1>1, <1>4, <1>7, <2>1 DEF ProcIds, Changing, Holds
<1>9. \A y \in Workers \ {w} : Pair(w, y)' /\ Pair(y, w)'
  BY <1>1, <1>4, <1>6 DEF Pair, Changing
<1>10. next.id <= next'.id /\ r.pc \notin {"put", "claim"} /\ ~Changing(r) /\ \A m \in queue' : m.plan < next'.id
  BY <1>4, <1>5, QueueBelow DEF Changing
<1>11. files \subseteq files' /\ \A f \in files' : f \in files
  BY <1>5
<1>12. \A q \in Plans : plans[q].old => (\A m \in queue' : m.plan # q) /\ (w \in Mergers => r.job.plan # q)
  BY <1>1, <1>5, QueueBelow
<1> QED
  BY <1>1, <1>4, <1>5, <1>8, <1>9, <1>10, <1>11, <1>12, StillStep

-----------------------------------------------------------------------------
(* Steps that delete files.                                                *)

LEMMA ShrinkStep ==
  ASSUME TypeInv, TypeInv', IdInv, UNCHANGED <<manifest, pending, named, next>>,
         NEW D, files' = files \ D, \A c \in Commits : Layer(c) \in D => Seen(c),
         NEW x \in Processes, NEW r, process' = [process EXCEPT ![x] = r], r.pc \notin {"put", "claim"},
         x \in Workers /\ Changing(r) => \A pk \in r.change.newPacks : PackFree(pk.id),
         ProcIds(x, r)',
         x \in Workers => \A y \in Workers \ {x} : Pair(x, y)' /\ Pair(y, x)',
         queue' \subseteq queue,
         \A y \in Workers \ {x} : Changing(process[y]) /\ LiveChange(process[y].change) =>
             \A l \in process[y].change.newLayers : Layer(l.id) \notin D,
         \A q \in Plans : plans'[q] = plans[q] \/
             (plans'[q] = NoPlan /\ (~LivePlan(plans[q]) \/ \A g \in Mergers : process[g].job.plan # q)),
         \A q \in Plans : LivePlan(plans[q]) /\ plans'[q] = plans[q] => \A l \in Results(plans[q]) : Layer(l.id) \notin D,
         \A q \in Plans : plans[q].old => (x \in Mergers => r.job.plan # q)
  PROVE  IdInv'
<1>1. process \in [Processes -> ProcRec] /\ process'[x] = r /\ \A y \in Processes \ {x} : process'[y] = process[y]
  BY DEF TypeInv, Types
<1>2. Late' = Late /\ Visible' = Visible /\ (\A id : Unlisted(id)' <=> Unlisted(id)) /\ (\A id : PackFree(id)' <=> PackFree(id))
  BY DEF Late, Visible, Unlisted, PackFree
<1>3. \A id : Seen(id) => Seen(id)'
  BY <1>2 DEF Seen
<1>4. \A c \in Commits : Seen(c)' => Seen(c)
  BY <1>2 DEF Seen
<1>5. Names'
  <2>1. \A c \in Commits : Putting(c)' => Putting(c)
    BY <1>1, Disjoint DEF Putting
  <2>2. ASSUME NEW y \in Processes, Matching(y)'
        PROVE  Applies(WithPending(manifest, process[y].listed), process[y].change)'
    <3>1. y # x /\ process'[y] = process[y] /\ Matching(y)
      BY <1>1, <2>2 DEF Matching
    <3>2. Applies(WithPending(manifest, process[y].listed), process[y].change)
      BY <3>1 DEF IdInv, Names
    <3>3. WithPending(manifest, process[y].listed)' = WithPending(manifest, process[y].listed)
      BY <3>1 DEF WithPending, Unfolded
    <3> QED
      BY <3>1, <3>2, <3>3 DEF Applies
  <2> QED
    BY <1>2, <1>3, <1>4, <2>1, <2>2 DEF IdInv, Names
<1>6. Packs'
  <2>1. ASSUME NEW y \in Workers, Changing(process'[y]), NEW pk \in process'[y].change.newPacks PROVE PackFree(pk.id)'
    <3>1. y \in Processes
      BY Disjoint DEF Workers
    <3>2. PackFree(pk.id)
      BY <1>1, <2>1, <3>1 DEF IdInv, Packs
    <3> QED
      BY <1>2, <3>2
  <2> QED
    BY <1>2, <2>1 DEF IdInv, Packs
<1>7. \A q \in Plans : plans'[q] = plans[q] \/ (plans'[q] = NoPlan /\ Results(plans'[q]) = {} /\ ~plans'[q].there)
  BY NoPlanIs
<1>8. Evolves
  <2>1. \A q \in Plans : \A l \in Results(plans'[q]) : l \in Results(plans[q]) /\ l.id # next.id
    BY <1>7, Below
  <2>2. next.id \in Nat /\ next'.id = next.id
    BY Below
  <2>3. ASSUME NEW p \in Plans, p >= next.id PROVE Results(plans'[p]) = {}
    <3>1. ~plans[p].there
      BY <2>2, <2>3, QueueBelow, Constants
    <3> QED
      BY <1>7, <3>1, PlanNot
  <2>4. \A p \in Plans : PlanKept(plans[p], plans'[p])
    BY <1>7 DEF PlanKept
  <2>5. \A p \in Plans : plans[p].there /\ ~plans'[p].there => ~LivePlan(plans[p]) \/ \A g \in Mergers : process[g].job.plan # p
    OBVIOUS
  <2> QED
    BY <1>2, <1>3, <2>1, <2>2, <2>3, <2>4, <2>5 DEF Evolves
<1>9. ASSUME NEW q \in Plans PROVE PlanInv(q, plans[q])'
  <2>1. CASE plans'[q] = NoPlan
    <3>1. PlanInv(q, NoPlan)'
      BY NoPlanIs DEF PlanInv, LivePlan
    <3> QED
      BY <2>1, <3>1
  <2>2. ASSUME plans'[q] = plans[q], NEW Q, Q = plans[q] PROVE PlanInv(q, Q)'
    <3>1. PlanInv(q, Q)
      BY <2>2 DEF IdInv, Ownership
    <3>3. LivePlan(Q) => \A l \in Results(Q) : Layer(l.id) \in files'
      BY <2>2, <3>1 DEF PlanInv
    <3>4. LivePlan(Q) \/ ~Q.claimed => \A l \in Results(Q) : Unlisted(l.id)'
      BY <1>2, <3>1 DEF PlanInv
    <3>5. Q.old => (\A m \in queue' : m.plan # q) /\ \A g \in Mergers : process'[g].job.plan # q
      BY <1>1, <2>2, <3>1, Disjoint DEF PlanInv
    <3>6. plans'[q] = Q
      BY <2>2
    <3> QED
      BY <1>8, <2>2, <3>3, <3>4, <3>5, <3>6, PlanInvKept DEF IdInv
  <2> QED
    BY <2>1, <2>2
<1>10. ASSUME NEW y \in Workers \ {x}, Changing(process[y])
       PROVE  /\ \A l \in process[y].change.newLayers : Unlisted(l.id)'
              /\ process[y].change.forget \cap files' = {}
              /\ LiveChange(process[y].change) => \A l \in process[y].change.newLayers : Layer(l.id) \in files'
  <2>1. ChangeIds(y, process[y])
    BY <1>10, Disjoint, ProcBelow DEF Workers, IdInv, ProcIds
  <2> QED
    BY <1>2, <1>10, <2>1 DEF ChangeIds
<1>11. ASSUME NEW y \in Mergers \ {x}, process[y].pc = "results", NEW l \in Results(plans'[process[y].job.plan]) PROVE Unlisted(l.id)'
  <2>1. ProcIds(y, process[y]) /\ ProcShape(y, process[y])
    BY Disjoint, ProcBelow, ProcessTyped DEF IdInv
  <2>2. process[y].job.plan \in Plans
    BY <1>11, <2>1 DEF ProcShape, MergeShape
  <2>3. \A j \in Results(plans[process[y].job.plan]) : Unlisted(j.id)
    BY <1>11, <2>1 DEF ProcIds
  <2> QED
    BY <1>2, <1>7, <1>11, <2>2, <2>3
<1>12. \A m \in queue' : m.plan < next'.id
  BY QueueBelow
<1>13. Ownership'
  BY <1>8, <1>9, <1>10, <1>11, <1>12, OwnershipKept DEF IdInv
<1> QED
  BY <1>5, <1>6, <1>13 DEF IdInv

LEMMA SweepRetiredIds ==
  ASSUME TypeInv, TypeInv', IdInv, NEW w \in Maintainers, SweepRetired(w)
  PROVE  IdInv'
<1>1. UNCHANGED <<manifest, pending, plans, queue, named, next>> /\ process[w].pc = "sweep"
  BY DEF SweepRetired
<1>2. w \in Processes /\ w \in Workers /\ w \notin Mergers
  BY Disjoint DEF Workers
<1>3. CASE Goto(w, "release") /\ files' = files
  BY <1>1, <1>3, MaintainGotoIds
<1>4. ASSUME NEW r \in ProcRec, process' = [process EXCEPT ![w] = r], files' = files \ manifest.retired,
             r.pc = "update", r.listed = {}, r.job = Message(0, 0), r.change.forget = manifest.retired, Forgetting(r.change)
      PROVE  IdInv'
  <2>1. process'[w] = r /\ \A y \in Processes \ {w} : process'[y] = process[y]
    BY <1>2, <1>4 DEF TypeInv, Types
  <2>2. /\ r.change.oldLayers = {} /\ r.change.newLayers = {} /\ r.change.newPacks = {} /\ r.change.forget = manifest.retired
    BY <1>4 DEF Forgetting
  <2>3. Message(0, 0).plan = 0
    BY DEF Message
  <2>4. ProcIds(w, r)'
    <3>1. ChangeIds(w, r)'
      <4>1. \A id \in Ids : Layer(id) \in manifest.retired \/ Pack(id) \in manifest.retired => id < next.id
        BY DEF IdInv, Names, Packs
      <4> QED
        BY <1>1, <1>2, <1>4, <2>2, <4>1 DEF ChangeIds
    <3> QED
      BY <1>1, <1>2, <1>4, <2>3, <3>1, QueueBelow DEF ProcIds, Holds, Dropping
  <2>5. \A y \in Workers \ {w} : Pair(w, y)' /\ Pair(y, w)'
    BY <1>2, <1>4, <2>1, <2>2 DEF Pair, IdsOf
  <2>6. \A c \in Commits : Layer(c) \in manifest.retired => Seen(c)
    BY DEF Seen
  <2>7. ASSUME NEW y \in Workers \ {w}, Changing(process[y]), NEW l \in process[y].change.newLayers
        PROVE  Layer(l.id) \notin manifest.retired
    <3>1. ChangeIds(y, process[y])
      BY <2>7, Disjoint, ProcBelow DEF Workers, IdInv, ProcIds
    <3> QED
      BY <2>7, <3>1 DEF ChangeIds, Unlisted
  <2>8. \A q \in Plans : LivePlan(plans[q]) => \A l \in Results(plans[q]) : Layer(l.id) \notin manifest.retired
    BY DEF IdInv, Ownership, PlanInv, Unlisted
  <2>9. r.pc \notin {"put", "claim"} /\ queue' \subseteq queue
    BY <1>1, <1>4
  <2>10. \A q \in Plans : plans'[q] = plans[q]
    BY <1>1
  <2>11. UNCHANGED <<manifest, pending, named, next>>
    BY <1>1
  <2>12. \A m : m = manifest.retired => IdInv'
    <3> SUFFICES ASSUME NEW D, D = manifest.retired PROVE IdInv'
      OBVIOUS
    <3>1. files' = files \ D /\ \A c \in Commits : Layer(c) \in D => Seen(c)
      BY <1>4, <2>6
    <3>2. \A y \in Workers \ {w} : Changing(process[y]) /\ LiveChange(process[y].change) =>
             \A l \in process[y].change.newLayers : Layer(l.id) \notin D
      BY <2>7
    <3>3. \A q \in Plans : LivePlan(plans[q]) /\ plans'[q] = plans[q] => \A l \in Results(plans[q]) : Layer(l.id) \notin D
      BY <2>8
    <3>4. w \in Workers /\ Changing(r) => \A pk \in r.change.newPacks : PackFree(pk.id)
      BY <2>2
    <3> QED
      BY <1>2, <1>4, <2>4, <2>5, <2>9, <2>10, <2>11, <3>1, <3>2, <3>3, <3>4, ShrinkStep
  <2> QED
    BY <2>12
<1> QED
  BY <1>3, <1>4, SweepIs

\* What is dropped was not to be put in the view by anyone.
LEMMA DropMergeIds ==
  ASSUME TypeInv, TypeInv', IdInv, NEW x \in Workers, DropMerge(x)
  PROVE  IdInv'
<1> DEFINE p == process[x].job.plan
           pc == IF x \in Maintainers THEN "layers" ELSE "idle"
           r == At(pc)
<1>1. /\ process[x].pc = "dropping" /\ plans' = [plans EXCEPT ![p] = NoPlan] /\ files' = files \ process[x].listed
      /\ process' = [process EXCEPT ![x] = r] /\ UNCHANGED <<manifest, pending, queue, named, next>>
  BY DEF DropMerge
<1>2. x \in Processes /\ ProcShape(x, process[x])
  BY Disjoint, ProcessTyped DEF Workers
<1>3. p \in Plans
  BY <1>1, <1>2 DEF Workers, ProcShape, MaintainShape, MergeShape
<1>4. pc \in Steps /\ pc \in {"layers", "idle"}
  BY DEF Steps
<1>5. ProcIds(x, process[x])
  BY <1>2, ProcBelow DEF IdInv
<1> HIDE DEF p, pc
<1>6. r.pc = pc /\ r.listed = {} /\ r.job = Message(0, 0) /\ Message(0, 0).plan = 0
  BY <1>4, AtIs DEF Message
<1> HIDE DEF r
<1>7. Plain(x, r) /\ r.job.plan < next'.id /\ process'[x] = r /\ r.pc \notin {"put", "claim"} /\ ~Changing(r)
  <2>1. process'[x] = r
    BY <1>1, <1>2 DEF TypeInv, Types
  <2>2. r.job.plan < next'.id
    BY <1>1, <1>6, QueueBelow
  <2> QED
    BY <1>4, <1>6, <2>1, <2>2 DEF Plain, Changing
<1>8. ProcIds(x, r)' /\ \A y \in Workers \ {x} : Pair(x, y)' /\ Pair(y, x)'
  BY <1>2, <1>7, PlainIds, PlainPair
<1>9. ~LivePlan(plans[p]) \/ \A g \in Mergers : process[g].job.plan # p
  <2>1. ~LivePlan(plans[p]) \/ plans[p].old
    BY <1>1, <1>5 DEF ProcIds, Dropping, p
  <2> QED
    BY <1>3, <2>1, QueueBelow
<1>10. \A f \in process[x].listed : \E id \in Plans : f = Layer(id)
  BY <1>1, <1>5 DEF ProcIds
<1>11. \A c \in Commits : Layer(c) \notin process[x].listed
  <2> SUFFICES ASSUME NEW c \in Commits, Layer(c) \in process[x].listed PROVE FALSE
    OBVIOUS
  <2>1. PICK id \in Plans : Layer(c) = Layer(id)
    BY <1>10
  <2>2. c = id
    BY <2>1 DEF Layer
  <2> QED
    BY <2>2, Constants
<1>12. ASSUME NEW y \in Workers \ {x}, Changing(process[y]), LiveChange(process[y].change),
              NEW l \in process[y].change.newLayers, Layer(l.id) \in process[x].listed
       PROVE  FALSE
  <2>1. y \in Mergers /\ process[y].job.plan = p
    BY <1>1, <1>12 DEF IdInv, Ownership, Pair, p
  <2>2. ChangeIds(y, process[y])
    BY <1>12, Disjoint, ProcBelow DEF Workers, IdInv, ProcIds
  <2>3. plans[p].there /\ process[y].change.oldLayers = IdsOf(plans[p].layers)
    BY <1>12, <2>1, <2>2 DEF ChangeIds
  <2>4. LivePlan(plans[p])
    BY <1>12, <2>3 DEF LivePlan, LiveChange
  <2> QED
    BY <1>9, <2>1, <2>4
<1>13. plans'[p] = NoPlan /\ \A q \in Plans \ {p} : plans'[q] = plans[q]
  BY <1>1, <1>3 DEF TypeInv, Types
<1>14. ASSUME NEW q \in Plans, LivePlan(plans[q]), plans'[q] = plans[q], NEW l \in Results(plans[q])
       PROVE  Layer(l.id) \notin process[x].listed
  <2>1. CASE q = p
    BY <1>13, <1>14, <2>1, NoPlanIs
  <2>2. CASE q # p
    <3>1. l.id \in Plans
      BY ResultsIs
    <3>2. l.id \in IdsOf(Results(plans[q]))
      BY <1>14 DEF IdsOf
    <3> QED
      BY <1>1, <1>5, <2>2, <3>1, <3>2 DEF ProcIds, p
  <2> QED
    BY <2>1, <2>2
<1>15. \A q \in Plans : plans[q].old => r.job.plan # q
  BY <1>6, QueueBelow
<1>16. \A q \in Plans : plans'[q] = plans[q] \/ (plans'[q] = NoPlan /\ (~LivePlan(plans[q]) \/ \A g \in Mergers : process[g].job.plan # q))
  BY <1>9, <1>13
<1>17. \A D : D = process[x].listed => IdInv'
  <2> SUFFICES ASSUME NEW D, D = process[x].listed PROVE IdInv'
    OBVIOUS
  <2>1. files' = files \ D /\ (\A c \in Commits : Layer(c) \in D => Seen(c)) /\ queue' \subseteq queue
        /\ UNCHANGED <<manifest, pending, named, next>>
    BY <1>1, <1>11
  <2>2. \A y \in Workers \ {x} : Changing(process[y]) /\ LiveChange(process[y].change) =>
             \A l \in process[y].change.newLayers : Layer(l.id) \notin D
    BY <1>12
  <2>3. \A q \in Plans : LivePlan(plans[q]) /\ plans'[q] = plans[q] => \A l \in Results(plans[q]) : Layer(l.id) \notin D
    BY <1>14
  <2>4. \A rr : rr = r => IdInv'
    <3> SUFFICES ASSUME NEW rr, rr = r PROVE IdInv'
      OBVIOUS
    <3>1. process' = [process EXCEPT ![x] = rr] /\ ProcIds(x, rr)' /\ rr.pc \notin {"put", "claim"} /\ ~Changing(rr)
          /\ \A q \in Plans : plans[q].old => rr.job.plan # q
      BY <1>1, <1>7, <1>8, <1>15
    <3>2. x \in Workers /\ Changing(rr) => \A pk \in rr.change.newPacks : PackFree(pk.id)
      BY <3>1
    <3>3. \A q \in Plans : plans[q].old => (x \in Mergers => rr.job.plan # q)
      BY <3>1
    <3>4. x \in Workers => \A y \in Workers \ {x} : Pair(x, y)' /\ Pair(y, x)'
      BY <1>8
    <3> HIDE DEF r
    <3> QED
      BY <1>2, <1>16, <2>1, <2>2, <2>3, <3>1, <3>2, <3>3, <3>4, ShrinkStep
  <2> QED
    BY <2>4
<1> QED
  BY <1>17

LEMMA ListMergeIds ==
  ASSUME TypeInv, TypeInv', IdInv, NEW x \in Workers, ListMerge(x)
  PROVE  IdInv'
<1> DEFINE p == process[x].job.plan
           r == [process[x] EXCEPT !.pc = "dropping", !.listed = {Layer(l.id) : l \in Results(plans[p])}]
<1>1. x \in Processes /\ process[x] \in ProcRec /\ ProcShape(x, process[x]) /\ ProcIds(x, process[x]) /\ p < next.id
  BY Disjoint, ProcessTyped, ProcBelow DEF Workers, IdInv
<1>2. process[x].pc = "dropAll" /\ UNCHANGED <<manifest, pending, files, plans, queue, named, next>>
  BY DEF ListMerge
<1>3. process' = [process EXCEPT ![x] = r]
  BY <1>1 DEF ListMerge, PlanOf, TypeInv, Types
<1>4. r.pc = "dropping" /\ r.job = process[x].job /\ r.listed = {Layer(l.id) : l \in Results(plans[p])}
  BY <1>1 DEF ProcRec
<1>5. p \in Plans
  BY <1>1, <1>2 DEF Workers, ProcShape, MaintainShape, MergeShape
<1>6. \A s, n : s = r /\ n = p => IdInv'
  <2> SUFFICES ASSUME NEW s, s = r, NEW n, n = p PROVE IdInv'
    OBVIOUS
  <2>0. n \in Plans /\ n < next.id
    BY <1>1, <1>5
  <2>1. process' = [process EXCEPT ![x] = s] /\ s.pc = "dropping" /\ s.job.plan = n
        /\ s.listed = {Layer(l.id) : l \in Results(plans[n])} /\ s.job = process[x].job
    BY <1>3, <1>4
  <2>a. n = process[x].job.plan
    OBVIOUS
  <2> HIDE DEF r, p
  <2>2. process'[x] = s /\ \A y \in Processes \ {x} : process'[y] = process[y]
    BY <1>1, <2>1 DEF TypeInv, Types
  <2>3. \A id : Layer(id) \in s.listed <=> id \in IdsOf(Results(plans[n]))
    BY <2>1 DEF IdsOf, Layer
  <2>4. \A f \in s.listed : \E id \in Plans : f = Layer(id)
    BY <2>0, <2>1, ResultsIs
  <2>5. ASSUME NEW id \in Plans, Layer(id) \in s.listed
        PROVE  id < next'.id /\ \A q \in Plans : id \in IdsOf(Results(plans'[q])) => q = n
    <3>1. id \in IdsOf(Results(plans[n]))
      BY <2>3, <2>5
    <3>2. id < next.id
      BY <2>0, <3>1, Below DEF IdsOf
    <3>3. \A q \in Plans : id \in IdsOf(Results(plans[q])) => q = n
      BY <2>0, <3>1 DEF IdInv, Ownership
    <3> QED
      BY <1>2, <3>2, <3>3
  <2>6. ~LivePlan(plans[n])' \/ (x \in Maintainers /\ plans'[n].old)
    <3>1. ~LivePlan(plans[n]) \/ (x \in Maintainers /\ plans[n].old)
      BY <1>1, <1>2, <2>a DEF ProcIds, Dropping
    <3> QED
      BY <1>2, <3>1 DEF LivePlan, Visible, Late, LayerIds
  <2>7. n < next'.id
    BY <1>2, <2>0
  <2>8. ProcIds(x, s)'
    BY <1>2, <2>1, <2>4, <2>5, <2>6, <2>7 DEF ProcIds, Changing, Holds
  <2>9. ASSUME NEW y \in Workers \ {x} PROVE Pair(x, y)' /\ Pair(y, x)'
    <3>1. y \in Processes /\ process'[y] = process[y]
      BY <2>2, Disjoint DEF Workers
    <3>2. ASSUME Changing(process[y]), NEW l \in process[y].change.newLayers, Layer(l.id) \in s.listed
          PROVE  y \in Mergers /\ process[y].job.plan = n
      <4>1. ChangeIds(y, process[y])
        BY <2>9, <3>1, <3>2, ProcBelow DEF IdInv, ProcIds
      <4>2. PICK j \in Results(plans[n]) : j.id = l.id
        BY <2>3, <3>2 DEF IdsOf
      <4> QED
        BY <2>0, <3>2, <4>1, <4>2 DEF ChangeIds
    <3> QED
      BY <2>1, <2>2, <3>1, <3>2 DEF Pair, Changing, Holds
  <2>10. \A m \in queue' : m.plan < next'.id
    BY <1>2, QueueBelow
  <2>11. \A q \in Plans : plans[q].old => (\A m \in queue' : m.plan # q) /\ (x \in Mergers => s.job.plan # q)
    BY <1>2, <2>1, QueueBelow
  <2>12. next.id <= next'.id /\ files \subseteq files' /\ (\A f \in files' : f \in files \/ f = Layer(next.id) \/ f = Pack(next.id))
         /\ UNCHANGED <<manifest, pending, plans, named>>
    BY <1>2, Below
  <2>13. s.pc \notin {"put", "claim"} /\ ~Changing(s)
    BY <2>1 DEF Changing
  <2> QED
    BY <1>1, <2>1, <2>8, <2>9, <2>10, <2>11, <2>12, <2>13, StillStep
<1> QED
  BY <1>6

LEMMA SameIds ==
  ASSUME TypeInv, TypeInv', IdInv, UNCHANGED <<manifest, pending, files, plans, next>>,
         NEW x \in Processes, NEW q, q = process[x], NEW r, process' = [process EXCEPT ![x] = r],
         Changing(q), Changing(r), r.change = q.change, r.job = q.job, r.pc = "update" => r.listed = {}
  PROVE  ProcIds(x, r)' /\ (x \in Workers => \A y \in Workers \ {x} : Pair(x, y)' /\ Pair(y, x)')
<1>1. ProcIds(x, q)
  BY ProcBelow DEF IdInv
<1>2. \A id : (Seen(id)' <=> Seen(id)) /\ (Unlisted(id)' <=> Unlisted(id))
  BY DEF Seen, Unlisted, Visible, Late, LayerIds
<1>3. LiveChange(r.change)' <=> LiveChange(q.change)
  BY DEF LiveChange, Visible, Late, LayerIds
<1>4. \A p \in Plans : LivePlan(plans[p])' <=> LivePlan(plans[p])
  BY DEF LivePlan, Visible, Late, LayerIds
<1>5. x \in Workers => ChangeIds(x, r)'
  <2> HAVE x \in Workers
  <2>1. ChangeIds(x, q)
    BY <1>1 DEF ProcIds
  <2> QED
    BY <1>2, <1>3, <2>1 DEF ChangeIds
<1>6. ProcIds(x, r)'
  <2>1. ~Dropping(x, r) /\ r.pc \notin {"swap", "results", "dropping"} /\ (Holds(r) <=> Holds(q))
    BY DEF Changing, Dropping, Holds
  <2>2. r.job.plan < next'.id
    BY <1>1 DEF ProcIds
  <2>3. x \in Mergers /\ Holds(r) => (plans'[r.job.plan].there => plans'[r.job.plan].claimed)
    BY <1>1, <2>1 DEF ProcIds
  <2>4. r.pc \notin {"claim", "clear", "dropping"} => r.listed = {}
    BY DEF Changing
  <2> QED
    BY <1>5, <2>1, <2>2, <2>3, <2>4 DEF ProcIds, Changing
<1>7. ASSUME x \in Workers, NEW y \in Workers \ {x} PROVE Pair(x, y)' /\ Pair(y, x)'
  <2>1. process'[x] = r /\ process'[y] = process[y] /\ y \in Processes
    BY <1>7, Disjoint DEF Workers, TypeInv, Types
  <2>2. Pair(x, y) /\ Pair(y, x)
    BY <1>7 DEF IdInv, Ownership
  <2>3. r.pc # "dropping" /\ q.pc # "dropping" /\ (Holds(r) <=> Holds(q))
    BY DEF Changing, Holds
  <2> QED
    BY <2>1, <2>2, <2>3 DEF Pair, Changing, Holds
<1> QED
  BY <1>6, <1>7

LEMMA ReadsIds ==
  ASSUME TypeInv, TypeInv', IdInv, NEW x \in Processes, ReadNewest(x), Applies(Latest, process[x].change)
  PROVE  IdInv'
<1> DEFINE q == process[x]
           r == [q EXCEPT !.pc = "claim", !.base.seq = manifest.seq, !.listed = DOMAIN pending]
<1>1. /\ q.pc = "update" /\ process' = [process EXCEPT ![x] = r]
      /\ UNCHANGED <<manifest, pending, files, plans, queue, named, next>>
  BY DEF ReadNewest, TypeInv, Types
<1>2. q \in ProcRec
  BY ProcessTyped
<1>3. r.pc = "claim" /\ r.change = q.change /\ r.listed = DOMAIN pending /\ r.job = q.job
  BY <1>2 DEF ProcRec
<1> HIDE DEF r
<1>5. \A s : s = r => IdInv'
  <2> SUFFICES ASSUME NEW s, s = r PROVE IdInv'
    OBVIOUS
  <2>1. process' = [process EXCEPT ![x] = s] /\ s.pc # "put" /\ s.job = q.job /\ s.change = q.change
    BY <1>1, <1>3
  <2>2. s.pc = "claim" => Applies(WithPending(manifest, s.listed), s.change)
    BY <1>3 DEF Latest
  <2>3. Changing(q) /\ Changing(s)
    BY <1>1, <1>3 DEF Changing
  <2>4. x \in Workers /\ Changing(s) => \A pk \in s.change.newPacks : PackFree(pk.id)
    BY <2>1, <2>3 DEF IdInv, Packs
  <2>7. ProcIds(x, s)' /\ (x \in Workers => \A y \in Workers \ {x} : Pair(x, y)' /\ Pair(y, x)')
    <3>1. \A n : n = q => (ProcIds(x, s)' /\ (x \in Workers => \A y \in Workers \ {x} : Pair(x, y)' /\ Pair(y, x)'))
      <4> SUFFICES ASSUME NEW n, n = q
                   PROVE  ProcIds(x, s)' /\ (x \in Workers => \A y \in Workers \ {x} : Pair(x, y)' /\ Pair(y, x)')
        OBVIOUS
      <4>1. n = process[x] /\ Changing(n) /\ s.change = n.change /\ s.job = n.job /\ (s.pc = "update" => s.listed = {})
        BY <1>3, <2>1, <2>3
      <4> HIDE DEF q
      <4> QED
        BY <1>1, <2>1, <2>3, <4>1, SameIds
    <3> QED
      BY <3>1
  <2>5. (\A m \in queue' : m.plan < next'.id)
        /\ \A p \in Plans : plans[p].old => (\A m \in queue' : m.plan # p) /\ (x \in Mergers => s.job.plan # p)
    BY <1>1, <2>1, QueueBelow
  <2>6. next.id <= next'.id /\ files \subseteq files' /\ (\A f \in files' : f \in files \/ f = Layer(next.id) \/ f = Pack(next.id))
    BY <1>1, Below
  <2> QED
    BY <1>1, <2>1, <2>2, <2>4, <2>5, <2>6, <2>7, StillStep
<1> QED
  BY <1>5

LEMMA RetryIds ==
  ASSUME TypeInv, TypeInv', IdInv, NEW x \in Processes, ClaimNumber(x), manifest.seq # process[x].base.seq
  PROVE  IdInv'
<1> DEFINE q == process[x]
           r == [q EXCEPT !.pc = "update", !.base = EmptyManifest, !.listed = {}]
<1>1. /\ q.pc = "claim" /\ process' = [process EXCEPT ![x] = r]
      /\ UNCHANGED <<manifest, pending, files, plans, queue, named, next>>
  BY DEF ClaimNumber, TypeInv, Types
<1>2. q \in ProcRec
  BY ProcessTyped
<1>3. r.pc = "update" /\ r.change = q.change /\ r.listed = {} /\ r.job = q.job
  BY <1>2 DEF ProcRec
<1> HIDE DEF r
<1>5. \A s : s = r => IdInv'
  <2> SUFFICES ASSUME NEW s, s = r PROVE IdInv'
    OBVIOUS
  <2>1. process' = [process EXCEPT ![x] = s] /\ s.pc \notin {"put", "claim"} /\ s.job = q.job /\ s.change = q.change
    BY <1>1, <1>3
  <2>3. Changing(q) /\ Changing(s)
    BY <1>1, <1>3 DEF Changing
  <2>4. x \in Workers /\ Changing(s) => \A pk \in s.change.newPacks : PackFree(pk.id)
    BY <2>1, <2>3 DEF IdInv, Packs
  <2>7. ProcIds(x, s)' /\ (x \in Workers => \A y \in Workers \ {x} : Pair(x, y)' /\ Pair(y, x)')
    <3>1. \A n : n = q => (ProcIds(x, s)' /\ (x \in Workers => \A y \in Workers \ {x} : Pair(x, y)' /\ Pair(y, x)'))
      <4> SUFFICES ASSUME NEW n, n = q
                   PROVE  ProcIds(x, s)' /\ (x \in Workers => \A y \in Workers \ {x} : Pair(x, y)' /\ Pair(y, x)')
        OBVIOUS
      <4>1. n = process[x] /\ Changing(n) /\ s.change = n.change /\ s.job = n.job /\ (s.pc = "update" => s.listed = {})
        BY <1>3, <2>1, <2>3
      <4> HIDE DEF q
      <4> QED
        BY <1>1, <2>1, <2>3, <4>1, SameIds
    <3> QED
      BY <3>1
  <2>5. (\A m \in queue' : m.plan < next'.id)
        /\ \A p \in Plans : plans[p].old => (\A m \in queue' : m.plan # p) /\ (x \in Mergers => s.job.plan # p)
    BY <1>1, <2>1, QueueBelow
  <2>6. next.id <= next'.id /\ files \subseteq files' /\ (\A f \in files' : f \in files \/ f = Layer(next.id) \/ f = Pack(next.id))
    BY <1>1, Below
  <2> QED
    BY <1>1, <2>1, <2>4, <2>5, <2>6, <2>7, StillStep
<1> QED
  BY <1>5

LEMMA ChangePlans ==
  ASSUME TypeInv, NEW x \in Workers, Changing(process[x])
  PROVE  /\ \A l \in process[x].change.newLayers : l.id \in Plans
         /\ \A pk \in process[x].change.newPacks : \E l \in process[x].change.newLayers : l.id = pk.id
         /\ \A pk, qk \in process[x].change.newPacks : pk = qk
<1> DEFINE ch == process[x].change
<1>1. ProcShape(x, process[x])
  BY ProcessTyped, Disjoint DEF Workers
<1>2. CASE x \in Maintainers
  <2>1. LayersMerged(ch) \/ PacksMerged(ch) \/ Forgetting(ch)
    BY <1>1, <1>2 DEF ProcShape, MaintainShape
  <2> HIDE DEF ch
  <2>2. (\A l \in ch.newLayers : l.id \in Plans) /\ (\A pk \in ch.newPacks : \E l \in ch.newLayers : l.id = pk.id)
        /\ \A pk, qk \in ch.newPacks : pk = qk
    BY <2>1 DEF LayersMerged, PacksMerged, Forgetting
  <2> QED
    BY <2>2 DEF ch
<1>3. CASE x \in Mergers
  <2>1. RunSwapped(ch, process[x].job.plan)
    BY <1>1, <1>3 DEF ProcShape, MergeShape
  <2> QED
    BY <2>1 DEF RunSwapped
<1> QED
  BY <1>2, <1>3 DEF Workers

LEMMA OutputsIs ==
  ASSUME TypeInv, NEW x \in Processes, process[x].pc = "update"
  PROVE  LET ch == process[x].change IN
         /\ \A id : Layer(id) \in Outputs(ch) <=> id \in IdsOf(ch.newLayers)
         /\ \A l \in ch.newLayers : l.id \in Plans
         /\ x \notin Workers => Outputs(ch) = {}
<1> DEFINE ch == process[x].change
<1>1. ProcShape(x, process[x]) /\ Changing(process[x])
  BY ProcessTyped DEF Changing
<1>2. \A id : Layer(id) \in Outputs(ch) <=> id \in IdsOf(ch.newLayers)
  BY DEF Outputs, IdsOf, Layer, Pack
<1>3. CASE x \in Workers
  BY <1>1, <1>2, <1>3, ChangePlans
<1>5. CASE x \in Committers
  <2>1. PICK c \in Commits : x = Committer(c)
    BY <1>5, Disjoint
  <2>2. Adopting(ch, c)
    BY <1>1, <2>1 DEF ProcShape, CommitShape, Changing
  <2>3. ch.newLayers = {} /\ ch.newPacks = {}
    BY <2>2 DEF Adopting, NoChange
  <2>4. Outputs(ch) = {}
    BY <2>3 DEF Outputs
  <2> QED
    BY <1>2, <2>3, <2>4
<1> QED
  BY <1>3, <1>5, Disjoint DEF Workers

LEMMA PutOffIds ==
  ASSUME TypeInv, TypeInv', IdInv, NEW x \in Processes, ReadNewest(x), ~Applies(Latest, process[x].change)
  PROVE  IdInv'
<1> DEFINE q == process[x]
           ch == q.change
           r == [q EXCEPT !.pc = q.then]
<1>1. /\ q.pc = "update" /\ process' = [process EXCEPT ![x] = r] /\ files' = files \ Outputs(ch)
      /\ UNCHANGED <<manifest, pending, plans, queue, named, next>>
  <2>1. process' = [process EXCEPT ![x].pc = q.then]
    BY DEF ReadNewest, Goto
  <2> QED
    BY <2>1 DEF ReadNewest, TypeInv, Types
<1>2. q \in ProcRec /\ ProcShape(x, q) /\ ProcIds(x, q) /\ q.job.plan < next.id
  BY ProcessTyped, ProcBelow DEF IdInv
<1>3. r.pc = q.then /\ r.listed = q.listed /\ r.job = q.job /\ r.change = ch
  BY <1>2 DEF ProcRec
<1>4. r.pc \in {"done", "packs", "pass", "release", "dropping"}
  BY <1>1, <1>2, <1>3, ThenShaped
<1>5. x \in Mergers => r.pc = "dropping"
  BY <1>1, <1>2, <1>3 DEF ProcShape, MergeShape
<1>6. x \in Maintainers => r.pc \in {"packs", "pass", "release"}
  BY <1>1, <1>2, <1>3 DEF ProcShape, MaintainShape
<1>7. x \in Workers => r.listed = {}
  BY <1>1, <1>2, <1>3 DEF ProcIds
<1>8. x \in Mergers => ~LivePlan(plans[q.job.plan])
  <2> SUFFICES ASSUME x \in Mergers, LivePlan(plans[q.job.plan]) PROVE FALSE
    OBVIOUS
  <2>1. ChangeIds(x, q) /\ RunSwapped(ch, q.job.plan)
    BY <1>1, <1>2 DEF ProcIds, Changing, Workers, ProcShape, MergeShape
  <2>2. ch.oldLayers = IdsOf(plans[q.job.plan].layers)
    BY <2>1 DEF ChangeIds, LivePlan
  <2>3. ch.oldLayers \subseteq LayerIds(Latest)
    BY <2>2, LatestIs DEF LivePlan, IdInv
  <2>4. ch.oldPacks = {} /\ ch.adopts = {}
    BY <2>1 DEF RunSwapped
  <2> QED
    BY <2>3, <2>4 DEF Applies
<1>9. ASSUME NEW y \in Workers \ {x}, Changing(process[y]), NEW l \in process[y].change.newLayers
      PROVE  Layer(l.id) \notin Outputs(ch)
  <2> SUFFICES ASSUME Layer(l.id) \in Outputs(ch) PROVE FALSE
    OBVIOUS
  <2>1. x \in Workers /\ l.id \in IdsOf(ch.newLayers)
    BY <1>1, OutputsIs
  <2>2. Pair(x, y) /\ Changing(q)
    BY <1>1, <1>9, <2>1 DEF IdInv, Ownership, Changing
  <2>3. IdsOf(ch.newLayers) \cap IdsOf(process[y].change.newLayers) = {}
    BY <1>9, <2>2 DEF Pair
  <2> QED
    BY <2>1, <2>3 DEF IdsOf
<1>10. ASSUME NEW p \in Plans, LivePlan(plans[p]), NEW l \in Results(plans[p])
       PROVE  Layer(l.id) \notin Outputs(ch)
  <2> SUFFICES ASSUME Layer(l.id) \in Outputs(ch) PROVE FALSE
    OBVIOUS
  <2>1. x \in Workers /\ l.id \in IdsOf(ch.newLayers)
    BY <1>1, OutputsIs
  <2>2. ChangeIds(x, q)
    BY <1>1, <1>2, <2>1 DEF ProcIds, Changing
  <2>3. x \in Mergers /\ q.job.plan = p
    BY <2>1, <2>2 DEF ChangeIds, IdsOf
  <2> QED
    BY <1>8, <1>10, <2>3
<1>11. \A c \in Commits : Layer(c) \notin Outputs(ch)
  BY <1>1, OutputsIs, Constants DEF IdsOf
<1> HIDE DEF r
<1>12. \A s, D : s = r /\ D = Outputs(ch) => IdInv'
  <2> SUFFICES ASSUME NEW s, s = r, NEW D, D = Outputs(ch) PROVE IdInv'
    OBVIOUS
  <2>1. process' = [process EXCEPT ![x] = s] /\ s.pc \notin {"put", "claim"} /\ ~Changing(s) /\ s.job = q.job
        /\ (x \in Workers => s.listed = {}) /\ (x \in Mergers => s.pc = "dropping")
        /\ (x \in Maintainers => s.pc \in {"packs", "pass", "release"})
    BY <1>1, <1>3, <1>4, <1>5, <1>6, <1>7 DEF Changing
  <2>2. files' = files \ D /\ \A c \in Commits : Layer(c) \in D => Seen(c)
    BY <1>1, <1>11
  <2>3. x \in Workers /\ Changing(s) => \A pk \in s.change.newPacks : PackFree(pk.id)
    BY <2>1
  <2>4. process'[x] = s /\ \A y \in Workers \ {x} : process'[y] = process[y]
    BY <2>1, Disjoint DEF TypeInv, Types, Workers
  <2>5. x \in Maintainers \/ x \notin Workers => ProcIds(x, s)' /\ (x \in Workers => \A y \in Workers \ {x} : Pair(x, y)' /\ Pair(y, x)')
    <3> HAVE x \in Maintainers \/ x \notin Workers
    <3>1. x \in Workers => Plain(x, s)
      BY <2>1, Disjoint DEF Plain, Workers
    <3>2. s.job.plan < next'.id
      BY <1>1, <1>2, <2>1
    <3> QED
      BY <2>4, <3>1, <3>2, PlainIds, PlainPair
  <2>6. x \in Mergers => ProcIds(x, s)' /\ \A y \in Workers \ {x} : Pair(x, y)' /\ Pair(y, x)'
    <3> HAVE x \in Mergers
    <3>1. ~LivePlan(plans[s.job.plan])'
      <4>1. ~LivePlan(plans[s.job.plan])
        BY <1>8, <2>1
      <4> QED
        BY <1>1, <4>1 DEF LivePlan, Visible, Late, LayerIds
    <3>2. ProcIds(x, s)'
      BY <1>1, <1>2, <2>1, <3>1 DEF ProcIds, Changing, Holds, Workers
    <3>3. ASSUME NEW y \in Workers \ {x} PROVE Pair(x, y)' /\ Pair(y, x)'
      BY <2>1, <2>4, <3>3 DEF Pair, Changing, Holds, Workers
    <3> QED
      BY <3>2, <3>3
  <2>7. ProcIds(x, s)' /\ (x \in Workers => \A y \in Workers \ {x} : Pair(x, y)' /\ Pair(y, x)')
    BY <2>5, <2>6 DEF Workers
  <2>8. \A y \in Workers \ {x} : Changing(process[y]) /\ LiveChange(process[y].change) =>
            \A l \in process[y].change.newLayers : Layer(l.id) \notin D
    BY <1>9
  <2>9. \A p \in Plans : plans'[p] = plans[p] \/
            (plans'[p] = NoPlan /\ (~LivePlan(plans[p]) \/ \A g \in Mergers : process[g].job.plan # p))
    BY <1>1
  <2>10. \A p \in Plans : LivePlan(plans[p]) /\ plans'[p] = plans[p] => \A l \in Results(plans[p]) : Layer(l.id) \notin D
    BY <1>10
  <2>11. \A p \in Plans : plans[p].old => (x \in Mergers => s.job.plan # p)
    BY <2>1, QueueBelow
  <2>12. UNCHANGED <<manifest, pending, named, next>> /\ queue' \subseteq queue
    BY <1>1
  <2> QED
    <3>1. process' = [process EXCEPT ![x] = s] /\ s.pc \notin {"put", "claim"}
      BY <2>1
    <3> HIDE DEF q
    <3> QED
      BY <2>2, <2>3, <2>7, <2>8, <2>9, <2>10, <2>11, <2>12, <3>1, ShrinkStep
<1> QED
  BY <1>12

LEMMA ReadNewestIds ==
  ASSUME TypeInv, TypeInv', IdInv, NEW x \in Processes, ReadNewest(x)
  PROVE  IdInv'
BY ReadsIds, PutOffIds

\* What a change that is about to be made puts in the view is new there, and stored.
LEMMA ChangeOf ==
  ASSUME TypeInv, IdInv, NEW x \in Processes, Matching(x)
  PROVE  LET ch == process[x].change IN
         /\ \A l \in ch.newLayers : l.id \in Plans /\ Unlisted(l.id) /\ l.id < next.id /\ Layer(l.id) \in files
         /\ ch.newLayers # {} \/ ch.newPacks # {} => x \in Workers
         /\ \A l, j \in ch.newLayers : l.id = j.id => l = j
         /\ ch.forget \cap files = {}
         /\ \A id \in Ids : Layer(id) \in ch.forget \/ Pack(id) \in ch.forget => id < next.id
         /\ \A pk \in ch.newPacks : PackFree(pk.id) /\ \E l \in ch.newLayers : l.id = pk.id
         /\ \A pk, qk \in ch.newPacks : pk = qk
         /\ ch.adopts \subseteq Placed /\ ch.adopts \cap manifest.adopted = {}
         /\ x \in Workers => ChangeIds(x, process[x])
         /\ LiveChange(ch)
<1> DEFINE ch == process[x].change
<1>1. ProcShape(x, process[x]) /\ Changing(process[x]) /\ process[x] \in ProcRec /\ ProcIds(x, process[x])
  BY ProcessTyped, ProcBelow DEF Changing, Matching, IdInv
<1>2. ch \in ChangeRec /\ ch.adopts \subseteq Placed
  BY <1>1 DEF ProcRec, ChangeRec
<1>3. LiveChange(ch) /\ ch.adopts \cap manifest.adopted = {}
  <2>1. Applies(Target(x), ch)
    <3>1. \A y \in Processes : Matching(y) => Applies(WithPending(manifest, process[y].listed), process[y].change)
      BY DEF IdInv, Names
    <3> QED
      BY <3>1 DEF Target
  <2>2. LayerIds(Target(x)) \subseteq Visible
    <3>1. Names
      BY DEF IdInv
    <3>2. Pick(x) \subseteq Late /\ LayerIds(Target(x)) = LayerIds(manifest) \cup {pending[k] : k \in Pick(x)}
      BY <3>1, ListedIs DEF Target, Pick
    <3> QED
      BY <3>2 DEF Visible
  <2>3. Target(x).adopted = manifest.adopted
    BY ClaimView DEF Target
  <2> QED
    BY <2>1, <2>2, <2>3 DEF Applies, LiveChange
<1>4. CASE x \in Committers
  <2>1. PICK c \in Commits : x = Committer(c)
    BY <1>4, Disjoint
  <2>2. Adopting(ch, c)
    BY <1>1, <2>1 DEF ProcShape, CommitShape, Changing
  <2>3. ch.newLayers = {} /\ ch.newPacks = {} /\ ch.forget = {} /\ x \notin Workers
    BY <1>4, <2>2, Disjoint DEF Adopting, NoChange, Workers
  <2> QED
    BY <1>2, <1>3, <2>3
<1>5. CASE x \in Workers
  <2>1. ChangeIds(x, process[x])
    BY <1>1, <1>5 DEF ProcIds
  <2>2. \A pk \in ch.newPacks : PackFree(pk.id)
    BY <1>1, <1>5 DEF IdInv, Packs
  <2>3. (\A l \in ch.newLayers : l.id \in Plans) /\ (\A pk \in ch.newPacks : \E l \in ch.newLayers : l.id = pk.id)
        /\ \A pk, qk \in ch.newPacks : pk = qk
    BY <1>1, <1>5, ChangePlans
  <2>4. /\ \A l \in ch.newLayers : Unlisted(l.id) /\ l.id < next.id /\ Layer(l.id) \in files
        /\ \A l, j \in ch.newLayers : l.id = j.id => l = j
        /\ ch.forget \cap files = {}
        /\ \A id \in Ids : Layer(id) \in ch.forget \/ Pack(id) \in ch.forget => id < next.id
    BY <1>3, <2>1 DEF ChangeIds
  <2> QED
    BY <1>2, <1>3, <1>5, <2>1, <2>2, <2>3, <2>4
<1> QED
  BY <1>4, <1>5, Disjoint DEF Workers

\* A view lists no layer twice.
LEMMA ViewApart ==
  ASSUME TypeInv, Names, NEW ks, ks \subseteq Late
  PROVE  \A l, j \in manifest.layers \cup Stacked(TopSeq(manifest), pending, ks) : l.id = j.id => l = j
<1> DEFINE T == Stacked(TopSeq(manifest), pending, ks)
<1>1. IsFiniteSet(ks) /\ ks \subseteq Nat /\ \A k \in ks : pending[k] \in Commits
  BY NamesApart, LatestIs, FS_Subset
<1>2. TopSeq(manifest) \in Nat
  BY LatestOK
<1>3. \A l \in T : \E k \in ks : l.id = pending[k] /\ l = [CommitLayer(pending[k]) EXCEPT !.seq = TopSeq(manifest) + Rank(ks, k)]
  BY <1>1, <1>2, StackedIs
<1> HIDE DEF T
<1>4. ASSUME NEW l \in T, NEW j \in T, l.id = j.id PROVE l = j
  <2>1. PICK k \in ks : l.id = pending[k] /\ l = [CommitLayer(pending[k]) EXCEPT !.seq = TopSeq(manifest) + Rank(ks, k)]
    BY <1>3
  <2>2. PICK i \in ks : j.id = pending[i] /\ j = [CommitLayer(pending[i]) EXCEPT !.seq = TopSeq(manifest) + Rank(ks, i)]
    BY <1>3
  <2>3. i = k
    BY <1>4, <2>1, <2>2 DEF Names, Late
  <2> QED
    BY <2>1, <2>2, <2>3
<1>5. \A l \in manifest.layers, j \in T : l.id # j.id
  BY <1>3 DEF Names, LayerIds
<1>6. \A l, j \in manifest.layers : l.id = j.id => l = j
  BY DEF Names
<1> QED
  BY <1>4, <1>5, <1>6 DEF T

LEMMA WinNames ==
  ASSUME TypeInv, TypeInv', IdInv, NEW x \in Processes, Matching(x), manifest' = Claimed(x), Goto(x, "clear"),
         UNCHANGED <<pending, files, plans, queue, named, next>>
  PROVE  /\ Names'
         /\ \A id : Seen(id) => Seen(id)' /\ (id \in Visible' => id \in Visible)
         /\ \A id : id \in Visible' => id \in Visible \/ id \in IdsOf(process[x].change.newLayers)
         /\ \A id : Unlisted(id) /\ id \notin IdsOf(process[x].change.newLayers) => Unlisted(id)'
         /\ \A id \in process[x].change.oldLayers : id \notin Visible'
<1> DEFINE ch == process[x].change
<1>1. pending' = pending /\ files' = files /\ named' = named /\ next' = next
  OBVIOUS
<1>2. /\ ch.oldLayers \subseteq LayerIds(Target(x)) /\ LayerIds(Target(x)) \subseteq Visible
      /\ Late' \subseteq Late
      /\ \A k \in Late' : pending[k] \notin LayerIds(Target(x))
      /\ LayerIds(manifest)' = (LayerIds(Target(x)) \ ch.oldLayers) \cup IdsOf(ch.newLayers)
      /\ Visible' = (Visible \ ch.oldLayers) \cup IdsOf(ch.newLayers)
      /\ \A id : Layer(id) \in manifest'.retired <=>
                   (Layer(id) \in manifest.retired /\ Layer(id) \notin ch.forget) \/ id \in ch.oldLayers
  BY LandsIs DEF IdInv
<1>3. /\ \A l \in ch.newLayers : l.id \in Plans /\ Unlisted(l.id) /\ l.id < next.id /\ Layer(l.id) \in files
      /\ \A l, j \in ch.newLayers : l.id = j.id => l = j
      /\ ch.forget \cap files = {}
  BY ChangeOf
<1> HIDE DEF ch
<1>4. \A id \in IdsOf(ch.newLayers) : id \in Plans /\ Unlisted(id) /\ id < next.id /\ Layer(id) \in files /\ ~Seen(id)
  BY <1>3 DEF IdsOf, Unlisted, Seen
<1>5. \A id : Seen(id) => Seen(id)' /\ (id \in Visible' => id \in Visible)
  <2> SUFFICES ASSUME NEW id, Seen(id) PROVE Seen(id)' /\ (id \in Visible' => id \in Visible)
    OBVIOUS
  <2>1. id \notin IdsOf(ch.newLayers)
    BY <1>4
  <2>2. id \in Visible' \/ Layer(id) \in manifest'.retired \/ Layer(id) \notin files'
    BY <1>1, <1>2, <1>3 DEF Seen
  <2> QED
    BY <1>2, <2>1, <2>2 DEF Seen
<1>6. \A id : Unlisted(id) /\ id \notin IdsOf(ch.newLayers) => Unlisted(id)'
  BY <1>2 DEF Unlisted
<1>7. \A id \in ch.oldLayers : id \notin Visible'
  BY <1>2, <1>4 DEF Unlisted
<1>8. \A k \in Late : pending[k] \in Visible /\ pending[k] \in Commits /\ pending[k] \notin IdsOf(ch.newLayers)
  BY <1>4, NamesApart DEF IdInv, Visible, Unlisted
<1>9. \A k \in Late' : pending'[k] \notin LayerIds(manifest)' /\ Layer(pending'[k]) \notin manifest'.retired
  BY <1>1, <1>2, <1>8 DEF IdInv, Names
<1>10. \A c \in Commits : c \in named' <=> Seen(c)'
  <2> SUFFICES ASSUME NEW c \in Commits PROVE c \in named <=> Seen(c)'
    BY <1>1
  <2>1. c \in named <=> Seen(c)
    BY DEF IdInv, Names
  <2>2. c \notin IdsOf(ch.newLayers)
    BY <1>4, Constants
  <2>3. Seen(c)' => Seen(c)
    BY <1>1, <1>2, <2>2 DEF Seen
  <2> QED
    BY <1>5, <2>1, <2>3
<1>11. \A y \in Processes : process'[y].pc \in {"put", "claim"} => y # x /\ process'[y] = process[y]
  <2>1. process[x] \in ProcRec
    BY ProcessTyped
  <2>2. process'[x].pc = "clear" /\ \A y \in Processes \ {x} : process'[y] = process[y]
    BY <2>1 DEF Goto, TypeInv, Types, ProcRec
  <2> QED
    BY <2>2
<1>12. \A c \in Commits : Putting(c)' => c \notin named'
  BY <1>1, <1>11, Disjoint DEF Putting, IdInv, Names
<1>13. \A y \in Processes : ~Matching(y)'
  <2> SUFFICES ASSUME NEW y \in Processes, Matching(y)' PROVE FALSE
    OBVIOUS
  <2>1. process'[y] = process[y] /\ process'[y].base.seq = manifest'.seq
    BY <1>11 DEF Matching
  <2>2. manifest'.seq = manifest.seq + 1
    BY ClaimedIs
  <2>3. process[y].base.seq <= manifest.seq /\ manifest.seq \in Nat
    BY DEF TypeInv, KeyFacts, Types, ManifestOK, ManifestRec
  <2> QED
    BY <2>1, <2>2, <2>3
<1>14. \A l \in manifest'.layers : Layer(l.id) \notin manifest'.retired /\ l.id < next'.id
  <2> SUFFICES ASSUME NEW l \in manifest'.layers PROVE Layer(l.id) \notin manifest'.retired /\ l.id < next.id
    BY <1>1
  <2>1. l.id \in (LayerIds(Target(x)) \ ch.oldLayers) \/ l.id \in IdsOf(ch.newLayers)
    BY <1>2 DEF LayerIds
  <2>2. CASE l.id \in LayerIds(Target(x)) \ ch.oldLayers
    <3>1. l.id \in Visible
      BY <1>2, <2>2
    <3>2. Layer(l.id) \notin manifest.retired
      BY <3>1 DEF IdInv, Names, Visible, LayerIds
    <3> QED
      BY <1>2, <2>2, <3>1, <3>2, Below
  <2>3. CASE l.id \in IdsOf(ch.newLayers)
    BY <1>2, <1>4, <2>3 DEF Unlisted
  <2> QED
    BY <2>1, <2>2, <2>3
<1>15. \A id \in Ids : Layer(id) \in manifest'.retired => id < next'.id
  BY <1>1, <1>2, Below DEF IdInv, Names
<1>16. \A l, j \in manifest'.layers : l.id = j.id => l = j
  <2> DEFINE v == Target(x)
             new(l) == Appended(Kept(v, ch), l, NewSeq(v, ch, l))
  <2>1. manifest'.layers = Kept(v, ch) \cup {new(l) : l \in ch.newLayers} /\ \A l \in ch.newLayers : new(l).id = l.id
    <3>1. Claimed(x).layers = Kept(v, ch) \cup {new(l) : l \in ch.newLayers} /\ \A l \in ch.newLayers : new(l).id = l.id
      BY ClaimedIs DEF Target, ch
    <3> QED
      BY <3>1
  <2>2. \A l, j \in v.layers : l.id = j.id => l = j
    <3>1. Names
      BY DEF IdInv
    <3>2. Pick(x) \subseteq Late /\ v.layers = manifest.layers \cup Stacked(TopSeq(manifest), pending, Pick(x))
      BY <3>1, ListedIs DEF Target, Pick
    <3> QED
      BY <3>1, <3>2, ViewApart
  <2>3. Kept(v, ch) \subseteq v.layers /\ \A l \in Kept(v, ch) : l.id \in Visible
    BY <1>2 DEF Kept, LayerIds
  <2> HIDE DEF v, new
  <2>4. \A l \in Kept(v, ch), j \in ch.newLayers : l.id # j.id
    BY <1>3, <2>3 DEF Unlisted
  <2> QED
    BY <1>3, <2>1, <2>2, <2>3, <2>4
<1>17. \A j, k \in DOMAIN pending' : pending'[j] = pending'[k] => j = k
  BY <1>1 DEF IdInv, Names
<1>18. \A k \in DOMAIN pending' : pending'[k] \in named'
  BY <1>1 DEF IdInv, Names
<1>19. Names'
  BY <1>9, <1>10, <1>12, <1>13, <1>14, <1>15, <1>16, <1>17, <1>18 DEF Names
<1> QED
  BY <1>2, <1>5, <1>6, <1>7, <1>19 DEF ch

LEMMA WinPacks ==
  ASSUME TypeInv, TypeInv', IdInv, NEW x \in Processes, Matching(x), manifest' = Claimed(x), Goto(x, "clear"),
         UNCHANGED <<pending, files, plans, queue, named, next>>
  PROVE  Packs'
<1> DEFINE ch == process[x].change
           new == {pk.id : pk \in ch.newPacks}
           folded == {pending[k] : k \in Pick(x)} \ Placed
<1>1. pending' = pending /\ files' = files /\ named' = named /\ next' = next
  OBVIOUS
<1>2. /\ ch.oldPacks \subseteq PackIds(Target(x)) /\ Late' = Late \ Pick(x) /\ Pick(x) \subseteq Late
      /\ \A id : Pack(id) \in manifest'.retired <=>
                   (Pack(id) \in manifest.retired /\ Pack(id) \notin ch.forget) \/ id \in ch.oldPacks
      /\ \A id : id \in PackIds(manifest)' <=>
                   \/ id \in PackIds(Target(x)) \ ch.oldPacks
                   \/ \E pk \in ch.newPacks : pk.id = id /\ ~Final(pk)
                   \/ id \in ch.adopts
  BY LandsIs DEF IdInv
<1>3. PackIds(Target(x)) = PackIds(manifest) \cup folded
  <2>1. Names
    BY DEF IdInv
  <2> QED
    BY <2>1, ListedIs DEF Target, Pick
<1>4. /\ \A pk \in ch.newPacks : PackFree(pk.id) /\ \E l \in ch.newLayers : l.id = pk.id
      /\ \A pk, qk \in ch.newPacks : pk = qk
      /\ ch.adopts \subseteq Placed /\ ch.adopts \cap manifest.adopted = {}
      /\ \A l \in ch.newLayers : l.id \in Plans /\ l.id < next.id
      /\ ch.newLayers # {} \/ ch.newPacks # {} => x \in Workers
  BY ChangeOf
<1>5. /\ manifest'.adopted = manifest.adopted \cup ch.adopts
      /\ manifest'.packs = {p \in Target(x).packs : p.id \notin ch.oldPacks} \cup {p \in ch.newPacks : ~Final(p)}
                           \cup {CommitPack(c) : c \in ch.adopts}
  <2>1. /\ Claimed(x).adopted = Target(x).adopted \cup ch.adopts
        /\ Claimed(x).packs = {p \in Target(x).packs : p.id \notin ch.oldPacks} \cup {p \in ch.newPacks : ~Final(p)}
                           \cup {CommitPack(c) : c \in ch.adopts}
    BY ClaimedIs DEF Target
  <2>2. Target(x).adopted = manifest.adopted
    BY ClaimView DEF Target
  <2> QED
    BY <2>1, <2>2
<1>6. Target(x).packs = manifest.packs \cup NewPacks(pending, Unfolded(manifest, process[x].listed))
  BY ClaimView DEF Target
<1>7. Unfolded(manifest, process[x].listed) = Pick(x)
  <2>1. Names
    BY DEF IdInv
  <2> QED
    BY <2>1, ListedIs DEF Pick
<1>8. Target(x).packs = manifest.packs \cup {CommitPack(c) : c \in folded}
  BY <1>6, <1>7 DEF NewPacks
<1>9. \A c \in folded : c \in Commits /\ c \notin Placed /\ PackFree(c) /\ \E k \in Pick(x) : pending[k] = c
  <2>1. \A k \in Late : pending[k] \in Commits /\ (pending[k] \notin Placed => PackFree(pending[k]))
    BY NamesApart DEF IdInv, Packs
  <2> QED
    BY <1>2, <2>1
<1>10. \A c \in ch.adopts : c \in Commits /\ c \in Placed /\ PackFree(c)
  BY <1>4, Constants DEF IdInv, Packs
<1>11. \A id \in new : id \in Plans /\ PackFree(id) /\ id < next.id /\ id \notin Commits
  BY <1>4, Constants
<1> HIDE DEF folded, new, ch
<1>12. \A id \in PackIds(Target(x)) : id \in PackIds(manifest) \/ id \in folded
  BY <1>3
<1>13. \A id \in PackIds(manifest)' : id \in (PackIds(Target(x)) \ ch.oldPacks) \/ id \in new \/ id \in ch.adopts
  BY <1>2 DEF new
<1>14. \A id : PackFree(id) /\ id \notin folded /\ id \notin new /\ id \notin ch.adopts => PackFree(id)'
  BY <1>2, <1>12, <1>13 DEF PackFree
<1>15. \A id \in PackIds(Target(x)) : Pack(id) \notin manifest.retired /\ id < next.id
  <2>1. \A id \in PackIds(manifest) : Pack(id) \notin manifest.retired /\ id < next.id
    BY DEF IdInv, Packs, PackIds
  <2>2. \A c \in Commits : c < next.id
    BY Constants DEF TypeInv, Types
  <2> QED
    BY <1>9, <1>12, <2>1, <2>2 DEF PackFree
<1>16. \A pk, qk \in manifest'.packs : pk.id = qk.id => pk = qk
  <2>1. \A c : CommitPack(c).id = c
    BY DEF CommitPack
  <2>2. \A pk, qk \in Target(x).packs : pk.id = qk.id => pk = qk
    <3>1. \A pk, qk \in manifest.packs : pk.id = qk.id => pk = qk
      BY DEF IdInv, Packs
    <3>2. \A pk \in manifest.packs, c \in folded : pk.id # c
      BY <1>9 DEF PackFree, PackIds
    <3> QED
      BY <1>8, <2>1, <3>1, <3>2
  <2>3. \A pk \in Target(x).packs : pk.id \in PackIds(manifest) \/ pk.id \in folded
    BY <1>12 DEF PackIds
  <2>4. \A pk \in Target(x).packs, qk \in ch.newPacks : pk.id # qk.id
    BY <1>9, <1>11, <2>3 DEF PackFree, new
  <2>5. \A pk \in Target(x).packs, c \in ch.adopts : pk.id # c
    BY <1>9, <1>10, <2>3 DEF PackFree
  <2>6. \A pk \in ch.newPacks, c \in ch.adopts : pk.id # c
    BY <1>10, <1>11 DEF new
  <2>7. \A pk, qk \in ch.newPacks : pk = qk
    BY <1>4
  <2> QED
    BY <1>5, <2>1, <2>2, <2>4, <2>5, <2>6, <2>7
<1>17. \A pk \in manifest'.packs : Pack(pk.id) \notin manifest'.retired /\ pk.id < next'.id
  <2> SUFFICES ASSUME NEW id \in PackIds(manifest)' PROVE Pack(id) \notin manifest'.retired /\ id < next.id
    BY <1>1 DEF PackIds
  <2>1. CASE id \in PackIds(Target(x)) \ ch.oldPacks
    BY <1>2, <1>15, <2>1
  <2>2. CASE id \in new
    BY <1>2, <1>9, <1>11, <1>12, <2>2 DEF PackFree
  <2>3. CASE id \in ch.adopts
    <3>1. id < next.id
      BY <1>10, <2>3, Constants DEF TypeInv, Types
    <3> QED
      BY <1>2, <1>9, <1>10, <1>12, <2>3, <3>1 DEF PackFree
  <2> QED
    BY <1>13, <2>1, <2>2, <2>3
<1>18. \A id \in Ids : Pack(id) \in manifest'.retired => id < next'.id
  <2>1. \A id \in Ids : Pack(id) \in manifest.retired => id < next.id
    BY DEF IdInv, Packs
  <2> QED
    BY <1>1, <1>2, <1>15, <2>1
<1>19. \A c \in Placed \ manifest'.adopted : PackFree(c)'
  <2> SUFFICES ASSUME NEW c \in Placed, c \notin manifest'.adopted PROVE PackFree(c)'
    OBVIOUS
  <2>1. PackFree(c) /\ c \notin ch.adopts /\ c \in Commits
    BY <1>5, Constants DEF IdInv, Packs
  <2> QED
    BY <1>9, <1>11, <1>14, <2>1
<1>20. \A c \in Commits \ (Placed \cup named') : PackFree(c)'
  <2> SUFFICES ASSUME NEW c \in Commits, c \notin Placed, c \notin named PROVE PackFree(c)'
    BY <1>1
  <2>1. PackFree(c)
    BY DEF IdInv, Packs
  <2>2. c \notin folded
    BY <1>2, <1>9 DEF IdInv, Names, Late
  <2> QED
    BY <1>10, <1>11, <1>14, <2>1, <2>2
<1>21. \A k \in Late' : pending'[k] \notin Placed => PackFree(pending[k])'
  <2> SUFFICES ASSUME NEW k \in Late', pending[k] \notin Placed PROVE PackFree(pending[k])'
    BY <1>1
  <2>1. k \in Late /\ k \notin Pick(x)
    BY <1>2
  <2>2. PackFree(pending[k]) /\ pending[k] \in Commits
    BY <2>1, NamesApart DEF IdInv, Packs
  <2>3. pending[k] \notin folded
    BY <1>2, <1>9, <2>1 DEF IdInv, Names, Late
  <2>4. pending[k] \notin new /\ pending[k] \notin ch.adopts
    BY <1>10, <1>11, <2>2
  <2> QED
    BY <1>1, <1>14, <2>2, <2>3, <2>4 DEF PackFree
<1>22. \A y \in Workers : Changing(process'[y]) => \A pk \in process'[y].change.newPacks : PackFree(pk.id)'
  <2> SUFFICES ASSUME NEW y \in Workers, Changing(process'[y]), NEW pk \in process'[y].change.newPacks PROVE PackFree(pk.id)'
    OBVIOUS
  <2>1. y \in Processes
    BY Disjoint DEF Workers
  <2>2. process[x] \in ProcRec
    BY ProcessTyped
  <2>3. process'[x].pc = "clear" /\ (y # x => process'[y] = process[y])
    BY <2>1, <2>2 DEF Goto, TypeInv, Types, ProcRec
  <2>4. y # x /\ process'[y] = process[y]
    BY <2>3 DEF Changing
  <2>5. PackFree(pk.id)
    BY <2>4 DEF IdInv, Packs
  <2>6. pk.id \in Plans /\ pk.id \in IdsOf(process[y].change.newLayers)
    BY <2>4, ChangePlans DEF IdsOf
  <2>7. pk.id \notin new
    <3> SUFFICES ASSUME pk.id \in new PROVE FALSE
      OBVIOUS
    <3>1. x \in Workers /\ pk.id \in IdsOf(ch.newLayers)
      BY <1>4 DEF new, IdsOf
    <3>2. Pair(x, y)
      BY <2>4, <3>1 DEF IdInv, Ownership
    <3>3. Changing(process[x]) /\ Changing(process[y])
      BY <2>4 DEF Matching, Changing
    <3> QED
      BY <2>6, <3>1, <3>2, <3>3 DEF Pair, ch
  <2> QED
    BY <1>9, <1>10, <1>14, <2>5, <2>6, <2>7, Constants
<1> QED
  BY <1>16, <1>17, <1>18, <1>19, <1>20, <1>21, <1>22 DEF Packs, Changing

LEMMA WinIds ==
  ASSUME TypeInv, TypeInv', IdInv, NEW x \in Processes, Matching(x), manifest' = Claimed(x), Goto(x, "clear"),
         UNCHANGED <<pending, files, plans, queue, named, next>>
  PROVE  IdInv'
<1> DEFINE ch == process[x].change
           P(p) == plans[p]
<1>1. pending' = pending /\ files' = files /\ named' = named /\ next' = next /\ plans' = plans /\ queue' = queue
  OBVIOUS
<1>2. /\ Names'
      /\ \A id : Seen(id) => Seen(id)' /\ (id \in Visible' => id \in Visible)
      /\ \A id : id \in Visible' => id \in Visible \/ id \in IdsOf(ch.newLayers)
      /\ \A id : Unlisted(id) /\ id \notin IdsOf(ch.newLayers) => Unlisted(id)'
      /\ \A id \in ch.oldLayers : id \notin Visible'
  BY WinNames
<1>3. Packs'
  BY WinPacks
<1>4. x \in Workers \/ ch.newLayers = {}
  BY ChangeOf
<1>5. process[x] \in ProcRec /\ ProcShape(x, process[x]) /\ ProcIds(x, process[x]) /\ Changing(process[x])
  BY ProcessTyped, ProcBelow DEF IdInv, Changing, Matching
<1>6. x \in Workers => ChangeIds(x, process[x])
  BY <1>5 DEF ProcIds
<1>7. Evolves
  <2>1. \A p, q \in Plans : \A l \in Results(plans'[p]), j \in Results(plans'[q]) : l.id = next.id /\ j.id = next.id => p = q
    BY <1>1, Below
  <2>2. \A p \in Plans : p >= next.id => Results(plans'[p]) = {}
    <3>1. \A p \in Plans : p >= next.id => ~plans[p].there
      BY QueueBelow, Constants DEF TypeInv, Types
    <3> QED
      BY <1>1, <3>1, PlanNot
  <2>3. next.id <= next'.id
    BY <1>1, Below
  <2>4. \A p \in Plans : PlanKept(plans[p], plans'[p])
    BY <1>1 DEF PlanKept
  <2> QED
    BY <1>1, <1>2, <2>1, <2>2, <2>3, <2>4 DEF Evolves
<1>8. \A p \in Plans : plans[p].there => IdsOf(plans[p].layers) # {}
  BY DEF TypeInv, Shapes, PlanShape, IdsOf
<1>9. \A n : x \in Mergers /\ n = process[x].job.plan => ~LivePlan(plans[n])'
  <2> SUFFICES ASSUME x \in Mergers, NEW n, n = process[x].job.plan, LivePlan(plans[n])' PROVE FALSE
    OBVIOUS
  <2>1. n \in Plans
    BY <1>5 DEF ProcShape, MergeShape, Changing
  <2>2. plans[n].there /\ IdsOf(plans[n].layers) \subseteq Visible'
    BY <1>1 DEF LivePlan
  <2>3. ch.oldLayers = IdsOf(plans[n].layers)
    BY <1>6, <2>2 DEF ChangeIds, Workers
  <2> QED
    BY <1>2, <1>8, <2>1, <2>2, <2>3
<1>10. \A p \in Plans : \A l \in Results(plans[p]) : l.id \in IdsOf(ch.newLayers) => x \in Mergers /\ process[x].job.plan = p
  BY <1>4, <1>6 DEF ChangeIds, IdsOf
<1>11. ASSUME NEW p \in Plans, NEW n, n = plans[p] PROVE PlanInv(p, n)'
  <2>1. PlanInv(p, n)
    BY <1>11 DEF IdInv, Ownership
  <2>2. LivePlan(n)' => LivePlan(n)
    BY <1>2, <2>1 DEF LivePlan, PlanInv, IdsOf
  <2>3. \A l \in n.layers : Seen(l.id)'
    BY <1>2, <2>1 DEF PlanInv
  <2>4. ASSUME LivePlan(n)' \/ ~n.claimed, NEW l \in Results(n) PROVE Unlisted(l.id)'
    <3>1. Unlisted(l.id)
      BY <2>1, <2>2, <2>4 DEF PlanInv
    <3>2. l.id \notin IdsOf(ch.newLayers)
      <4> SUFFICES ASSUME l.id \in IdsOf(ch.newLayers) PROVE FALSE
        OBVIOUS
      <4>1. x \in Mergers /\ process[x].job.plan = p
        BY <1>10, <1>11, <2>4
      <4>2. n.there
        BY <1>11, <2>4, PlanNot
      <4>3. Holds(process[x])
        BY <1>5 DEF Holds, IdsOf
      <4>4. n.claimed
        BY <1>5, <1>11, <4>1, <4>2, <4>3 DEF ProcIds
      <4>5. ~LivePlan(n)'
        BY <1>1, <1>9, <1>11, <4>1 DEF LivePlan
      <4> QED
        BY <2>4, <4>4, <4>5
    <3> QED
      BY <1>2, <3>1, <3>2
  <2>5. \A g \in Mergers : process'[g].job.plan = process[g].job.plan
    BY <1>5, Disjoint DEF Goto, TypeInv, Types, ProcRec
  <2> QED
    BY <1>1, <2>1, <2>2, <2>3, <2>4, <2>5 DEF PlanInv
<1>12. \A y \in Workers \ {x} : Changing(process[y]) =>
          /\ \A l \in process[y].change.newLayers : Unlisted(l.id)'
          /\ process[y].change.forget \cap files' = {}
          /\ LiveChange(process[y].change) => \A l \in process[y].change.newLayers : Layer(l.id) \in files'
  <2> SUFFICES ASSUME NEW y \in Workers \ {x}, Changing(process[y])
               PROVE  /\ \A l \in process[y].change.newLayers : Unlisted(l.id)'
                      /\ process[y].change.forget \cap files = {}
                      /\ LiveChange(process[y].change) => \A l \in process[y].change.newLayers : Layer(l.id) \in files
    BY <1>1
  <2>1. ChangeIds(y, process[y])
    BY Disjoint, ProcBelow DEF Workers, IdInv, ProcIds
  <2>2. IdsOf(ch.newLayers) \cap IdsOf(process[y].change.newLayers) = {}
    <3>1. CASE x \in Workers
      BY <1>5, <3>1 DEF IdInv, Ownership, Pair
    <3>2. CASE x \notin Workers
      BY <1>4, <3>2 DEF IdsOf
    <3> QED
      BY <3>1, <3>2
  <2>3. \A l \in process[y].change.newLayers : Unlisted(l.id) /\ l.id \notin IdsOf(ch.newLayers)
    BY <2>1, <2>2 DEF ChangeIds, IdsOf
  <2> QED
    BY <1>2, <2>1, <2>3 DEF ChangeIds
<1>13. \A y \in Mergers \ {x} : process[y].pc = "results" => \A l \in Results(plans'[process[y].job.plan]) : Unlisted(l.id)'
  <2> SUFFICES ASSUME NEW y \in Mergers \ {x}, process[y].pc = "results", NEW l \in Results(plans[process[y].job.plan])
               PROVE  Unlisted(l.id)'
    BY <1>1
  <2>1. y \in Processes /\ ProcIds(y, process[y]) /\ process[y].job.plan \in Plans
    BY JobTyped, ProcBelow DEF IdInv
  <2>2. Unlisted(l.id)
    BY <2>1 DEF ProcIds
  <2>3. l.id \notin IdsOf(ch.newLayers)
    <3> SUFFICES ASSUME l.id \in IdsOf(ch.newLayers) PROVE FALSE
      OBVIOUS
    <3>1. x \in Mergers /\ process[x].job.plan = process[y].job.plan
      BY <1>10, <2>1
    <3>2. Holds(process[x]) /\ Holds(process[y])
      BY <1>5 DEF Holds, IdsOf
    <3>3. ~plans[process[x].job.plan].there
      BY <3>1, <3>2 DEF IdInv, Ownership, Pair, Workers
    <3> QED
      BY <2>1, <3>1, <3>3, PlanNot
  <2> QED
    BY <1>2, <2>2, <2>3
<1>14. \A s : s = [process[x] EXCEPT !.pc = "clear"] => Ownership'
  <2> SUFFICES ASSUME NEW s, s = [process[x] EXCEPT !.pc = "clear"] PROVE Ownership'
    OBVIOUS
  <2>1. process' = [process EXCEPT ![x] = s] /\ s.pc = "clear" /\ s.job = process[x].job
    BY <1>5 DEF Goto, TypeInv, Types, ProcRec
  <2>2. process'[x] = s /\ s.job.plan < next'.id
    BY <1>1, <1>5, <2>1 DEF TypeInv, Types, ProcIds
  <2>3. x \in Mergers => ~LivePlan(plans[s.job.plan])'
    BY <1>1, <1>9, <2>1 DEF LivePlan
  <2>4. ProcIds(x, s)'
    BY <2>1, <2>2, <2>3, Disjoint DEF ProcIds, Changing, Holds, Dropping, Workers
  <2>5. x \in Workers => \A y \in Workers \ {x} : Pair(x, y)' /\ Pair(y, x)'
    BY <2>1, <2>2 DEF Pair, Changing, Holds
  <2>6. \A p \in Plans : PlanInv(p, plans[p])'
    BY <1>1, <1>11
  <2>7. \A m \in queue' : m.plan < next'.id
    BY <1>1, QueueBelow
  <2>8. Ownership
    BY DEF IdInv
  <2> QED
    BY <1>7, <1>12, <1>13, <2>1, <2>4, <2>5, <2>6, <2>7, <2>8, OwnershipKept
<1> QED
  BY <1>2, <1>3, <1>14 DEF IdInv

LEMMA ClaimNumberIds ==
  ASSUME TypeInv, TypeInv', IdInv, NEW x \in Processes, ClaimNumber(x)
  PROVE  IdInv'
BY RetryIds, WinIs, WinIds

\* A view depends on the pending objects it takes in, and no others.
LEMMA SameView ==
  ASSUME manifest' = manifest, NEW keys, \A k \in keys \ manifest.folded : pending'[k] = pending[k]
  PROVE  \A m : m = manifest => WithPending(m, keys)' = WithPending(m, keys)
<1> SUFFICES ASSUME NEW m, m = manifest PROVE WithPending(m, keys)' = WithPending(m, keys)
  OBVIOUS
<1>1. Unfolded(m, keys)' = Unfolded(m, keys)
  BY DEF Unfolded
<1>2. \A n : n = Unfolded(m, keys) => WithPending(m, keys)' = WithPending(m, keys)
  <2> SUFFICES ASSUME NEW ks, ks = Unfolded(m, keys) PROVE WithPending(m, keys)' = WithPending(m, keys)
    OBVIOUS
  <2>1. \A k \in ks : pending'[k] = pending[k]
    BY DEF Unfolded
  <2>2. WithPending(m, keys) = Viewed(m, pending, ks)
    BY PendingView
  <2>3. WithPending(m, keys)' = Viewed(m, pending', ks)
    <3>1. WithPending(m, keys)' = Viewed(m, pending', Unfolded(m, keys)')
      BY DEF WithPending, Viewed, Stacked, NewPacks, Rank, Unfolded
    <3> QED
      BY <1>1, <3>1
  <2>4. Stacked(TopSeq(m), pending', ks) = Stacked(TopSeq(m), pending, ks)
    BY <2>1 DEF Stacked
  <2>5. NewPacks(pending', ks) = NewPacks(pending, ks)
    BY <2>1 DEF NewPacks
  <2> QED
    BY <2>2, <2>3, <2>4, <2>5 DEF Viewed
<1> QED
  BY <1>2

LEMMA ClearsIs ==
  ASSUME TypeInv, Names, NEW x \in Processes, ClearPending(x)
  PROVE  /\ Late' = Late /\ Visible' = Visible /\ manifest' = manifest
         /\ DOMAIN pending' \subseteq DOMAIN pending /\ \A k \in DOMAIN pending' : pending'[k] = pending[k]
         /\ \A k \in Late : k \in DOMAIN pending' /\ pending'[k] = pending[k]
<1>1. manifest' = manifest /\ pending' = [k \in DOMAIN pending \ process[x].listed |-> pending[k]] /\ process[x].pc = "clear"
  BY DEF ClearPending
<1>2. process[x].listed \cap DOMAIN pending \subseteq manifest.folded
  BY <1>1 DEF TypeInv, KeyFacts
<1>3. Late' = Late
  BY <1>1, <1>2 DEF Late
<1>4. \A k \in Late : k \in DOMAIN pending' /\ pending'[k] = pending[k]
  BY <1>1, <1>2 DEF Late
<1>5. Visible' = Visible
  BY <1>1, <1>3, <1>4 DEF Visible, LayerIds
<1> QED
  BY <1>1, <1>3, <1>4, <1>5

LEMMA ClearPendingIds ==
  ASSUME TypeInv, TypeInv', IdInv, NEW x \in Processes, ClearPending(x)
  PROVE  IdInv'
<1> DEFINE q == process[x]
           r == [q EXCEPT !.pc = q.then, !.base = EmptyManifest, !.listed = {}]
<1>1. /\ q.pc = "clear" /\ process' = [process EXCEPT ![x] = r]
      /\ manifest' = manifest /\ files' = files /\ plans' = plans /\ queue' = queue /\ named' = named /\ next' = next
  BY DEF ClearPending, TypeInv, Types
<1>2. /\ Late' = Late /\ Visible' = Visible
      /\ DOMAIN pending' \subseteq DOMAIN pending /\ \A k \in DOMAIN pending' : pending'[k] = pending[k]
      /\ \A k \in Late : k \in DOMAIN pending' /\ pending'[k] = pending[k]
  BY ClearsIs DEF IdInv
<1>3. q \in ProcRec /\ ProcShape(x, q) /\ ProcIds(x, q) /\ q.job.plan < next.id
  BY ProcessTyped, ProcBelow DEF IdInv
<1>4. r.pc = q.then /\ r.listed = {} /\ r.job = q.job
  BY <1>3 DEF ProcRec
<1>5. r.pc \in {"done", "packs", "pass", "release", "dropping"}
  BY <1>1, <1>3, <1>4, ThenShaped
<1>6. x \in Mergers => r.pc = "dropping"
  BY <1>1, <1>3, <1>4 DEF ProcShape, MergeShape
<1>7. x \in Maintainers => r.pc \in {"packs", "pass", "release"}
  BY <1>1, <1>3, <1>4 DEF ProcShape, MaintainShape
<1> HIDE DEF r
<1>8. process'[x] = r /\ \A y \in Processes \ {x} : process'[y] = process[y]
  BY <1>1 DEF TypeInv, Types
<1>9. \A id : (Seen(id)' <=> Seen(id)) /\ (Unlisted(id)' <=> Unlisted(id)) /\ (PackFree(id)' <=> PackFree(id))
  BY <1>1, <1>2 DEF Seen, Unlisted, PackFree, PackIds
<1>10. \A y \in Processes : Matching(y)' => Applies(WithPending(manifest, process[y].listed), process[y].change)'
  <2> SUFFICES ASSUME NEW y \in Processes, Matching(y)'
               PROVE  Applies(WithPending(manifest, process[y].listed), process[y].change)'
    OBVIOUS
  <2>1. y # x /\ process'[y] = process[y]
    BY <1>5, <1>8 DEF Matching
  <2>2. Matching(y)
    BY <1>1, <2>1 DEF Matching
  <2>3. Applies(WithPending(manifest, process[y].listed), process[y].change)
    BY <2>2 DEF IdInv, Names
  <2>4. process[y].listed \ manifest.folded \subseteq Late
    BY <2>2 DEF TypeInv, KeyFacts, Late
  <2>5. \A n, ch, m : n = process[y].listed /\ ch = process[y].change /\ m = manifest =>
            Applies(WithPending(m, n), ch)'
    <3> SUFFICES ASSUME NEW n, n = process[y].listed, NEW ch, ch = process[y].change, NEW m, m = manifest
                 PROVE  Applies(WithPending(m, n), ch)'
      OBVIOUS
    <3>1. WithPending(m, n)' = WithPending(m, n)
      <4>1. \A k \in n \ manifest.folded : pending'[k] = pending[k]
        BY <1>2, <2>4
      <4>2. manifest' = manifest
        BY <1>1
      <4> QED
        BY <4>1, <4>2, SameView
    <3>2. Applies(WithPending(m, n), ch)
      BY <2>3
    <3> QED
      BY <3>1, <3>2 DEF Applies, LayerIds, PackIds
  <2> QED
    BY <1>1, <2>1, <2>5
<1>11. Names'
  <2>1. \A k \in Late' : pending'[k] \notin LayerIds(manifest)' /\ Layer(pending'[k]) \notin manifest'.retired
    BY <1>1, <1>2 DEF IdInv, Names, LayerIds
  <2>2. \A j, k \in DOMAIN pending' : pending'[j] = pending'[k] => j = k
    BY <1>2 DEF IdInv, Names
  <2>3. \A k \in DOMAIN pending' : pending'[k] \in named'
    BY <1>1, <1>2 DEF IdInv, Names
  <2>4. \A c \in Commits : c \in named' <=> Seen(c)'
    BY <1>1, <1>9 DEF IdInv, Names
  <2>5. \A c \in Commits : Putting(c)' => c \notin named'
    BY <1>1, <1>5, <1>8, Disjoint DEF IdInv, Names, Putting
  <2>6. \A l, j \in manifest'.layers : l.id = j.id => l = j
    BY <1>1 DEF IdInv, Names
  <2>7. \A l \in manifest'.layers : Layer(l.id) \notin manifest'.retired /\ l.id < next'.id
    BY <1>1 DEF IdInv, Names
  <2>8. \A id \in Ids : Layer(id) \in manifest'.retired => id < next'.id
    BY <1>1 DEF IdInv, Names
  <2> QED
    BY <1>10, <2>1, <2>2, <2>3, <2>4, <2>5, <2>6, <2>7, <2>8 DEF Names
<1>12. Packs'
  <2>1. \A y \in Workers : Changing(process'[y]) => \A pk \in process'[y].change.newPacks : PackFree(pk.id)'
    <3> SUFFICES ASSUME NEW y \in Workers, Changing(process'[y]), NEW pk \in process'[y].change.newPacks PROVE PackFree(pk.id)'
      OBVIOUS
    <3>1. y \in Processes
      BY Disjoint DEF Workers
    <3>2. y # x /\ process'[y] = process[y]
      BY <1>5, <1>8, <3>1 DEF Changing
    <3> QED
      BY <1>9, <3>2 DEF IdInv, Packs
  <2>2. \A k \in Late' : pending'[k] \notin Placed => PackFree(pending[k])'
    <3> SUFFICES ASSUME NEW k \in Late, pending[k] \notin Placed, NEW n, n = pending[k] PROVE PackFree(n)'
      BY <1>2
    <3> QED
      BY <1>9 DEF IdInv, Packs
  <2>3. /\ \A pk, qk \in manifest'.packs : pk.id = qk.id => pk = qk
        /\ \A pk \in manifest'.packs : Pack(pk.id) \notin manifest'.retired /\ pk.id < next'.id
        /\ \A id \in Ids : Pack(id) \in manifest'.retired => id < next'.id
    BY <1>1 DEF IdInv, Packs
  <2>4. /\ \A c \in Placed \ manifest'.adopted : PackFree(c)'
        /\ \A c \in Commits \ (Placed \cup named') : PackFree(c)'
    BY <1>1, <1>9 DEF IdInv, Packs
  <2> QED
    BY <2>1, <2>2, <2>3, <2>4 DEF Packs, Changing
<1>13. Evolves
  <2>1. \A p, j \in Plans : \A l \in Results(plans'[p]), k \in Results(plans'[j]) : l.id = next.id /\ k.id = next.id => p = j
    BY <1>1, Below
  <2>2. \A p \in Plans : p >= next.id => Results(plans'[p]) = {}
    <3>1. \A p \in Plans : p >= next.id => ~plans[p].there
      BY QueueBelow, Constants DEF TypeInv, Types
    <3> QED
      BY <1>1, <3>1, PlanNot
  <2>3. next.id <= next'.id
    BY <1>1, Below
  <2>4. \A p \in Plans : PlanKept(plans[p], plans'[p])
    BY <1>1 DEF PlanKept
  <2> QED
    BY <1>1, <1>2, <1>9, <2>1, <2>2, <2>3, <2>4 DEF Evolves
<1>14. ASSUME NEW y \in Workers \ {x}, Changing(process[y])
       PROVE  /\ \A l \in process[y].change.newLayers : Unlisted(l.id)'
              /\ process[y].change.forget \cap files' = {}
              /\ LiveChange(process[y].change) => \A l \in process[y].change.newLayers : Layer(l.id) \in files'
  <2>1. ChangeIds(y, process[y])
    BY <1>14, Disjoint, ProcBelow DEF Workers, IdInv, ProcIds
  <2> QED
    BY <1>1, <1>9, <2>1 DEF ChangeIds
<1>15. \A y \in Mergers \ {x} : process[y].pc = "results" => \A l \in Results(plans'[process[y].job.plan]) : Unlisted(l.id)'
  BY <1>1, <1>9, ProcBelow, Disjoint DEF IdInv, ProcIds
<1>16. ASSUME NEW p \in Plans, NEW n, n = plans[p] PROVE PlanInv(p, n)'
  <2>1. PlanInv(p, n)
    BY <1>16 DEF IdInv, Ownership
  <2>2. LivePlan(n)' <=> LivePlan(n)
    BY <1>2 DEF LivePlan
  <2>3. \A g \in Mergers : process'[g].job.plan = process[g].job.plan
    BY <1>4, <1>8, Disjoint
  <2> QED
    BY <1>1, <1>9, <2>1, <2>2, <2>3 DEF PlanInv
<1>17. \A s : s = r => Ownership'
  <2> SUFFICES ASSUME NEW s, s = r PROVE Ownership'
    OBVIOUS
  <2>1. process' = [process EXCEPT ![x] = s] /\ process'[x] = s /\ s.listed = {} /\ s.job = q.job
        /\ (x \in Mergers => s.pc = "dropping") /\ (x \in Maintainers => s.pc \in {"packs", "pass", "release"})
        /\ s.job.plan < next'.id
    BY <1>1, <1>3, <1>4, <1>6, <1>7, <1>8
  <2>2. ProcIds(x, s)' /\ (x \in Workers => \A y \in Workers \ {x} : Pair(x, y)' /\ Pair(y, x)')
    <3>1. CASE x \in Mergers
      <4>1. \A n : n = s.job.plan => ~LivePlan(plans[n])'
        <5> SUFFICES ASSUME NEW n, n = s.job.plan PROVE ~LivePlan(plans[n])'
          OBVIOUS
        <5>1. ~LivePlan(plans[n])
          BY <1>1, <1>3, <2>1, <3>1, Disjoint DEF ProcIds, Dropping, Workers
        <5> QED
          BY <1>1, <1>2, <5>1 DEF LivePlan
      <4>2. ProcIds(x, s)'
        BY <2>1, <3>1, <4>1 DEF ProcIds, Changing, Holds, Workers
      <4>3. ASSUME NEW y \in Workers \ {x} PROVE Pair(x, y)' /\ Pair(y, x)'
        BY <2>1, <3>1, <4>3 DEF Pair, Changing, Holds
      <4> QED
        BY <4>2, <4>3
    <3>2. CASE x \notin Mergers
      <4>1. x \in Workers => Plain(x, s)
        BY <2>1, <3>2 DEF Plain, Workers
      <4> QED
        BY <2>1, <4>1, PlainIds, PlainPair
    <3> QED
      BY <3>1, <3>2
  <2>3. \A p \in Plans : PlanInv(p, plans[p])'
    BY <1>1, <1>16
  <2>4. \A m \in queue' : m.plan < next'.id
    BY <1>1, QueueBelow
  <2>5. Ownership
    BY DEF IdInv
  <2>6. \A y \in Workers \ {x} : Changing(process[y]) =>
          /\ \A l \in process[y].change.newLayers : Unlisted(l.id)'
          /\ process[y].change.forget \cap files' = {}
          /\ LiveChange(process[y].change) => \A l \in process[y].change.newLayers : Layer(l.id) \in files'
    BY <1>14
  <2> HIDE DEF q
  <2> QED
    BY <1>13, <1>15, <2>1, <2>2, <2>3, <2>4, <2>5, <2>6, OwnershipKept
<1> QED
  BY <1>11, <1>12, <1>17 DEF IdInv

-----------------------------------------------------------------------------
(* Commits.                                                                *)

\* A step of a commit that changes nothing but what it is in the middle of.
LEMMA CommitIds ==
  ASSUME TypeInv, TypeInv', IdInv, NEW c \in Commits, NEW r, process' = [process EXCEPT ![Committer(c)] = r],
         UNCHANGED <<manifest, pending, files, plans, queue, named>>, next'.id = next.id,
         r.pc # "claim", r.pc = "put" => c \notin named, r.job.plan < next.id
  PROVE  IdInv'
<1> DEFINE y == Committer(c)
<1>1. y \in Processes /\ y \notin Workers /\ y \notin Mergers
  BY Disjoint DEF Workers
<1>2. \A x : x = y => IdInv'
  <2> SUFFICES ASSUME NEW x, x = y PROVE IdInv'
    OBVIOUS
  <2>1. x \in Processes /\ x \notin Workers /\ x \notin Mergers /\ process' = [process EXCEPT ![x] = r]
    BY <1>1
  <2>2. r.pc = "put" => \A d \in Commits : x = Committer(d) => d \notin named
    BY Disjoint
  <2>3. r.job.plan < next'.id
    OBVIOUS
  <2>4. ProcIds(x, r)'
    BY <2>1, <2>3, PlainIds
  <2>5. /\ next.id <= next'.id /\ files \subseteq files'
        /\ \A f \in files' : f \in files \/ f = Layer(next.id) \/ f = Pack(next.id)
        /\ UNCHANGED <<manifest, pending, plans, named>>
    BY Below
  <2>6. (\A m \in queue' : m.plan < next'.id)
        /\ \A p \in Plans : plans[p].old => (\A m \in queue' : m.plan # p) /\ (x \in Mergers => r.job.plan # p)
    BY <2>1, QueueBelow
  <2>7. r.pc = "claim" => Applies(WithPending(manifest, r.listed), r.change)
    OBVIOUS
  <2> QED
    BY <2>1, <2>2, <2>4, <2>5, <2>6, <2>7, StillStep
<1> QED
  BY <1>2

LEMMA ReadManifestIds ==
  ASSUME TypeInv, TypeInv', IdInv, NEW c \in Commits, ReadManifest(c)
  PROVE  IdInv'
<1> DEFINE q == process[Committer(c)]
           r == [q EXCEPT !.pc = "list", !.base = manifest]
<1>1. process' = [process EXCEPT ![Committer(c)] = r] /\ UNCHANGED <<manifest, pending, files, plans, queue, named, next>>
  BY DEF ReadManifest, TypeInv, Types
<1>2. q \in ProcRec /\ q.job.plan < next.id
  BY Disjoint, ProcBelow DEF IdInv
<1>3. r.pc = "list" /\ r.job.plan < next.id
  BY <1>2 DEF ProcRec
<1>4. \A s : s = r => IdInv'
  <2> SUFFICES ASSUME NEW s, s = r PROVE IdInv'
    OBVIOUS
  <2>1. process' = [process EXCEPT ![Committer(c)] = s] /\ s.pc = "list" /\ s.job.plan < next.id
    BY <1>1, <1>3
  <2> HIDE DEF r, q
  <2>2. UNCHANGED <<manifest, pending, files, plans, queue, named>> /\ next'.id = next.id
    BY <1>1
  <2> QED
    BY <2>1, <2>2, CommitIds
<1> QED
  BY <1>4

LEMMA CommitAtIds ==
  ASSUME TypeInv, TypeInv', IdInv, NEW c \in Commits, NEW r, process' = [process EXCEPT ![Committer(c)] = r],
         r = At("append") \/ r = At("save") \/ r = AdoptPacks(c),
         UNCHANGED <<manifest, pending, files, plans, queue, named, next>>
  PROVE  IdInv'
<1>1. r.pc \in {"append", "save", "update", "done"} /\ r.job = Message(0, 0)
  BY AtIs, AdoptPacksIs DEF Steps
<1>2. Message(0, 0).plan = 0
  BY DEF Message
<1>3. r.job.plan < next.id
  BY <1>1, <1>2, QueueBelow
<1> QED
  BY <1>1, <1>3, CommitIds

LEMMA SaveTreeIds ==
  ASSUME TypeInv, TypeInv', IdInv, NEW c \in Commits, SaveTree(c)
  PROVE  IdInv'
BY CommitAtIds DEF SaveTree

LEMMA CommitDiesIds ==
  ASSUME TypeInv, TypeInv', IdInv, NEW c \in Commits, CommitDies(c)
  PROVE  IdInv'
<1>1. UNCHANGED <<manifest, pending, files, plans, queue, named, next>>
  BY DEF CommitDies
<1>2. process' = [process EXCEPT ![Committer(c)] = AdoptPacks(c)] \/ process' = [process EXCEPT ![Committer(c)] = At("append")]
  BY DEF CommitDies
<1> QED
  BY <1>1, <1>2, CommitAtIds

\* With the manifest and the objects read in one, the runs are named only by a commit that
\* did not name them.
LEMMA ListPendingIds ==
  ASSUME TypeInv, TypeInv', IdInv, NEW c \in Commits, ListPending(c), ~TornReads
  PROVE  IdInv'
<1> DEFINE x == Committer(c)
<1>1. UNCHANGED <<manifest, pending, files, plans, queue, named>> /\ process[x].pc = "list" /\ process[x].base.seq = manifest.seq
  BY DEF ListPending
<1>2. process[x].base = manifest
  BY <1>1, Disjoint DEF TypeInv, KeyFacts
<1>3. CASE process' = [process EXCEPT ![x] = At("save")] /\ UNCHANGED next
  BY <1>1, <1>3, CommitAtIds
<1>4. CASE /\ c \notin Known(process[x].base) /\ Layer(c) \in files
           /\ process' = [process EXCEPT ![x] = [At("put") EXCEPT !.job.range = next.key]]
           /\ next' = [next EXCEPT !.key = @ + 1]
  <2> DEFINE a == At("put")
             j == [a.job EXCEPT !.range = next.key]
             r == [a EXCEPT !.job = j]
  <2>1. a \in ProcRec /\ a.pc = "put" /\ a.job = Message(0, 0)
    BY AtIs DEF Steps
  <2>2. j.plan = 0
    BY <2>1 DEF Message
  <2>3. process' = [process EXCEPT ![x] = r]
    BY <1>4, <2>1 DEF ProcRec
  <2> HIDE DEF a, j
  <2>4. r.pc = "put" /\ r.job.plan = 0
    BY <2>1, <2>2 DEF ProcRec
  <2>5. c \notin named
    <3>1. Known(manifest) = LayerIds(Latest) \cup {id \in Ids : Layer(id) \in manifest.retired}
      BY DEF Known, Latest
    <3>2. c \notin Visible /\ c \notin {id \in Ids : Layer(id) \in manifest.retired}
      BY <1>2, <1>4, <3>1, LatestIs DEF IdInv
    <3>3. ~Seen(c)
      BY <1>4, <3>2, Constants DEF Seen
    <3> QED
      BY <3>3 DEF IdInv, Names
  <2>6. next'.id = next.id
    BY <1>4 DEF TypeInv, Types
  <2>7. \A s : s = r => IdInv'
    <3> SUFFICES ASSUME NEW s, s = r PROVE IdInv'
      OBVIOUS
    <3>1. process' = [process EXCEPT ![x] = s] /\ s.pc = "put" /\ s.job.plan < next.id
      BY <2>3, <2>4, QueueBelow
    <3> HIDE DEF r
    <3> QED
      BY <1>1, <2>5, <2>6, <3>1, CommitIds
  <2> QED
    BY <2>7
<1> QED
  BY <1>3, <1>4 DEF ListPending

LEMMA AppendsIs ==
  ASSUME TypeInv, IdInv, NEW c \in Commits, AppendRuns(c), NEW key, key = KeyOf(c)
  PROVE  /\ key \notin DOMAIN pending /\ key \notin manifest.folded /\ ~Seen(c) /\ c \notin named
         /\ DOMAIN pending' = DOMAIN pending \cup {key} /\ pending'[key] = c
         /\ \A k \in DOMAIN pending : pending'[k] = pending[k]
         /\ Late' = Late \cup {key} /\ Visible' = Visible \cup {c}
         /\ \A y \in Processes : Listing(y) => key \notin process[y].listed
         /\ process' = [process EXCEPT ![Committer(c)] = At("save")] /\ named' = named \cup {c}
         /\ UNCHANGED <<manifest, files, plans, queue, next>>
<1>1. /\ Putting(c) /\ pending' = [k \in DOMAIN pending \cup {key} |-> IF k = key THEN c ELSE pending[k]]
      /\ process' = [process EXCEPT ![Committer(c)] = At("save")] /\ named' = named \cup {c}
      /\ UNCHANGED <<manifest, files, plans, queue, next>>
  BY DEF AppendRuns, Putting, KeyOf
<1>2. key \notin DOMAIN pending /\ key \notin manifest.folded /\ \A y \in Processes : Listing(y) => key \notin process[y].listed
  BY <1>1 DEF TypeInv, KeyFacts
<1>3. c \notin named /\ ~Seen(c)
  BY <1>1 DEF IdInv, Names
<1>4. DOMAIN pending' = DOMAIN pending \cup {key} /\ pending'[key] = c /\ \A k \in DOMAIN pending : pending'[k] = pending[k]
  BY <1>1, <1>2
<1>5. Late' = Late \cup {key} /\ \A k \in Late : pending'[k] = pending[k]
  BY <1>1, <1>2, <1>4 DEF Late
<1>6. Visible' = Visible \cup {c}
  <2>1. LayerIds(manifest)' = LayerIds(manifest)
    BY <1>1 DEF LayerIds
  <2>2. Visible' = LayerIds(manifest)' \cup {pending'[k] : k \in Late'}
    BY DEF Visible
  <2> HIDE DEF Late
  <2>3. {pending'[k] : k \in Late'} = {pending[k] : k \in Late} \cup {c}
    BY <1>4, <1>5
  <2> QED
    BY <2>1, <2>2, <2>3 DEF Visible
<1> QED
  BY <1>1, <1>2, <1>3, <1>4, <1>5, <1>6

LEMMA AppendNames ==
  ASSUME TypeInv, TypeInv', IdInv, NEW c \in Commits, AppendRuns(c)
  PROVE  Names' /\ Packs'
<1> DEFINE x == Committer(c)
<1> SUFFICES ASSUME NEW key, key = KeyOf(c) PROVE Names' /\ Packs'
  OBVIOUS
<1>1. /\ key \notin DOMAIN pending /\ key \notin manifest.folded /\ ~Seen(c) /\ c \notin named
      /\ DOMAIN pending' = DOMAIN pending \cup {key} /\ pending'[key] = c
      /\ \A k \in DOMAIN pending : pending'[k] = pending[k]
      /\ Late' = Late \cup {key} /\ Visible' = Visible \cup {c}
      /\ \A y \in Processes : Listing(y) => key \notin process[y].listed
      /\ process' = [process EXCEPT ![x] = At("save")] /\ named' = named \cup {c}
      /\ manifest' = manifest /\ files' = files /\ plans' = plans /\ queue' = queue /\ next' = next
  BY AppendsIs
<1>2. process'[x] = At("save") /\ (\A y \in Processes \ {x} : process'[y] = process[y]) /\ x \in Processes /\ x \notin Workers
  BY <1>1, Disjoint DEF TypeInv, Types, Workers
<1>3. At("save").pc = "save"
  BY DEF At
<1>4. \A id : PackFree(id)' <=> PackFree(id)
  BY <1>1 DEF PackFree, PackIds
<1>5. c \notin LayerIds(manifest) /\ Layer(c) \notin manifest.retired
  BY <1>1 DEF Seen, Visible
<1>6. Late \subseteq DOMAIN pending
  BY DEF Late
<1>7. \A k \in Late' : pending'[k] \notin LayerIds(manifest)' /\ Layer(pending'[k]) \notin manifest'.retired
  BY <1>1, <1>5, <1>6 DEF IdInv, Names, LayerIds
<1>8. \A j, k \in DOMAIN pending' : pending'[j] = pending'[k] => j = k
  BY <1>1 DEF IdInv, Names
<1>9. \A k \in DOMAIN pending' : pending'[k] \in named'
  BY <1>1 DEF IdInv, Names
<1>10. \A d \in Commits : d \in named' <=> Seen(d)'
  BY <1>1 DEF IdInv, Names, Seen
<1>11. \A d \in Commits : Putting(d)' => d \notin named'
  <2> SUFFICES ASSUME NEW d \in Commits, Putting(d)' PROVE d \notin named'
    OBVIOUS
  <2>1. process'[Committer(d)].pc = "put"
    BY DEF Putting
  <2>2. d # c /\ process'[Committer(d)] = process[Committer(d)]
    BY <1>2, <1>3, <2>1, Disjoint
  <2>3. d \notin named
    BY <2>1, <2>2 DEF IdInv, Names, Putting
  <2> QED
    BY <1>1, <2>2, <2>3
<1>12. /\ \A l, j \in manifest'.layers : l.id = j.id => l = j
       /\ \A l \in manifest'.layers : Layer(l.id) \notin manifest'.retired /\ l.id < next'.id
       /\ \A id \in Ids : Layer(id) \in manifest'.retired => id < next'.id
  BY <1>1 DEF IdInv, Names
<1>13. \A y \in Processes : Matching(y)' => Applies(WithPending(manifest, process[y].listed), process[y].change)'
  <2> SUFFICES ASSUME NEW y \in Processes, Matching(y)'
               PROVE  Applies(WithPending(manifest, process[y].listed), process[y].change)'
    OBVIOUS
  <2>1. y # x /\ process'[y] = process[y]
    BY <1>2, <1>3 DEF Matching
  <2>2. Matching(y) /\ Listing(y)
    BY <1>1, <2>1 DEF Matching, Listing
  <2>3. Applies(WithPending(manifest, process[y].listed), process[y].change)
    BY <2>2 DEF IdInv, Names
  <2>4. process[y].listed \ manifest.folded \subseteq DOMAIN pending
    BY <2>2 DEF TypeInv, KeyFacts
  <2>5. \A n, ch, m : n = process[y].listed /\ ch = process[y].change /\ m = manifest =>
            Applies(WithPending(m, n), ch)'
    <3> SUFFICES ASSUME NEW n, n = process[y].listed, NEW ch, ch = process[y].change, NEW m, m = manifest
                 PROVE  Applies(WithPending(m, n), ch)'
      OBVIOUS
    <3>1. WithPending(m, n)' = WithPending(m, n)
      <4>1. \A k \in n \ manifest.folded : pending'[k] = pending[k]
        BY <1>1, <2>4
      <4>2. manifest' = manifest
        BY <1>1
      <4> QED
        BY <4>1, <4>2, SameView
    <3>2. Applies(WithPending(m, n), ch)
      BY <2>3
    <3> QED
      BY <3>1, <3>2 DEF Applies, LayerIds, PackIds
  <2> QED
    BY <1>1, <2>1, <2>5
<1>14. Names'
  BY <1>7, <1>8, <1>9, <1>10, <1>11, <1>12, <1>13 DEF Names
<1>15. \A k \in Late' : pending'[k] \notin Placed => PackFree(pending[k])'
  <2> SUFFICES ASSUME NEW k \in Late \cup {key}, NEW n, n = pending'[k], n \notin Placed PROVE PackFree(n)'
    BY <1>1
  <2>1. PackFree(n)
    BY <1>1, <1>6 DEF IdInv, Packs
  <2> QED
    BY <1>4, <2>1
<1>16. \A y \in Workers : Changing(process'[y]) => \A pk \in process'[y].change.newPacks : PackFree(pk.id)'
  <2>1. \A y \in Workers : process'[y] = process[y]
    BY <1>2, Disjoint DEF Workers
  <2> QED
    BY <1>4, <2>1 DEF IdInv, Packs
<1>17. /\ \A pk, qk \in manifest'.packs : pk.id = qk.id => pk = qk
       /\ \A pk \in manifest'.packs : Pack(pk.id) \notin manifest'.retired /\ pk.id < next'.id
       /\ \A id \in Ids : Pack(id) \in manifest'.retired => id < next'.id
       /\ \A d \in Placed \ manifest'.adopted : PackFree(d)'
       /\ \A d \in Commits \ (Placed \cup named') : PackFree(d)'
  BY <1>1, <1>4 DEF IdInv, Packs
<1>18. Packs'
  BY <1>15, <1>16, <1>17 DEF Packs, Changing
<1> QED
  BY <1>14, <1>18

LEMMA AppendRunsIds ==
  ASSUME TypeInv, TypeInv', IdInv, NEW c \in Commits, AppendRuns(c)
  PROVE  IdInv'
<1> DEFINE x == Committer(c)
<1>1. /\ ~Seen(c) /\ Visible' = Visible \cup {c}
      /\ process' = [process EXCEPT ![x] = At("save")]
      /\ manifest' = manifest /\ files' = files /\ plans' = plans /\ queue' = queue /\ next' = next
  BY AppendsIs
<1>2. x \in Processes /\ x \notin Workers /\ x \notin Mergers
  BY Disjoint DEF Workers
<1>3. \A id : Seen(id) => Seen(id)' /\ (id \in Visible' => id \in Visible)
  BY <1>1 DEF Seen
<1>4. \A id \in Plans : Unlisted(id) => Unlisted(id)'
  BY <1>1, Constants DEF Unlisted
<1>5. Evolves
  <2>1. \A p, j \in Plans : \A l \in Results(plans'[p]), k \in Results(plans'[j]) : l.id = next.id /\ k.id = next.id => p = j
    BY <1>1, Below
  <2>2. \A p \in Plans : p >= next.id => Results(plans'[p]) = {}
    <3>1. \A p \in Plans : p >= next.id => ~plans[p].there
      BY QueueBelow, Constants DEF TypeInv, Types
    <3> QED
      BY <1>1, <3>1, PlanNot
  <2>3. next.id <= next'.id
    BY <1>1, Below
  <2>4. \A p \in Plans : PlanKept(plans[p], plans'[p])
    BY <1>1 DEF PlanKept
  <2> QED
    BY <1>1, <1>3, <2>1, <2>2, <2>3, <2>4 DEF Evolves
<1>6. ASSUME NEW y \in Workers, Changing(process[y])
      PROVE  /\ \A l \in process[y].change.newLayers : Unlisted(l.id)'
             /\ process[y].change.forget \cap files' = {}
             /\ LiveChange(process[y].change) => \A l \in process[y].change.newLayers : Layer(l.id) \in files'
  <2>1. ChangeIds(y, process[y])
    BY <1>6, Disjoint, ProcBelow DEF Workers, IdInv, ProcIds
  <2>2. \A l \in process[y].change.newLayers : l.id \in Plans
    BY <1>6, ChangePlans
  <2> QED
    BY <1>1, <1>4, <2>1, <2>2 DEF ChangeIds
<1>7. \A y \in Mergers : process[y].pc = "results" => \A l \in Results(plans'[process[y].job.plan]) : Unlisted(l.id)'
  <2> SUFFICES ASSUME NEW y \in Mergers, process[y].pc = "results", NEW l \in Results(plans[process[y].job.plan])
               PROVE  Unlisted(l.id)'
    BY <1>1
  <2>1. y \in Processes /\ ProcIds(y, process[y]) /\ process[y].job.plan \in Plans
    BY JobTyped, ProcBelow DEF IdInv
  <2>2. Unlisted(l.id) /\ l.id \in Plans
    BY <2>1, ResultsIs DEF ProcIds
  <2> QED
    BY <1>4, <2>2
<1>8. ASSUME NEW p \in Plans, NEW n, n = plans[p] PROVE PlanInv(p, n)'
  <2>1. PlanInv(p, n)
    BY <1>8 DEF IdInv, Ownership
  <2>2. LivePlan(n)' => LivePlan(n)
    BY <1>3, <2>1 DEF LivePlan, PlanInv, IdsOf
  <2>3. \A g \in Mergers : process'[g].job.plan = process[g].job.plan
    BY <1>1, <1>2, Disjoint DEF TypeInv, Types
  <2>4. \A l \in Results(n) : l.id \in Plans
    BY <1>8, ResultsIs
  <2> QED
    BY <1>1, <1>3, <1>4, <2>1, <2>2, <2>3, <2>4 DEF PlanInv
<1>9. \A y, s : y = x /\ s = At("save") => Ownership'
  <2> SUFFICES ASSUME NEW y, y = x, NEW s, s = At("save") PROVE Ownership'
    OBVIOUS
  <2>1. process' = [process EXCEPT ![y] = s] /\ y \in Processes /\ y \notin Workers
    BY <1>1, <1>2
  <2>2. s.job.plan < next'.id
    <3>1. s.job = Message(0, 0)
      BY DEF At
    <3> QED
      BY <1>1, <3>1, QueueBelow DEF Message
  <2>3. ProcIds(y, s)'
    BY <2>1, <2>2, PlainIds
  <2>4. \A p \in Plans : PlanInv(p, plans[p])'
    BY <1>1, <1>8
  <2>5. \A m \in queue' : m.plan < next'.id
    BY <1>1, QueueBelow
  <2>6. Ownership
    BY DEF IdInv
  <2>7. y \in Workers => \A z \in Workers \ {y} : Pair(y, z)' /\ Pair(z, y)'
    BY <2>1
  <2>8. \A z \in Workers \ {y} : Changing(process[z]) =>
          /\ \A l \in process[z].change.newLayers : Unlisted(l.id)'
          /\ process[z].change.forget \cap files' = {}
          /\ LiveChange(process[z].change) => \A l \in process[z].change.newLayers : Layer(l.id) \in files'
    BY <1>6
  <2> QED
    BY <1>5, <1>7, <2>1, <2>3, <2>4, <2>5, <2>6, <2>7, <2>8, OwnershipKept
<1> QED
  BY <1>9, AppendNames DEF IdInv

-----------------------------------------------------------------------------
(* A split merge's jobs.                                                   *)

LEMMA MergeIdleIds ==
  ASSUME TypeInv, TypeInv', IdInv, NEW g \in Mergers, process' = [process EXCEPT ![g] = Idle],
         UNCHANGED <<manifest, pending, files, plans, named, next>>,
         \A m \in queue' : m \in queue \/ (process[g].pc # "idle" /\ m = process[g].job)
  PROVE  IdInv'
<1>1. g \in Processes /\ g \in Workers
  BY Disjoint DEF Workers
<1>2. process[g].pc # "idle" => process[g].job.plan < next.id /\ \A p \in Plans : plans[p].old => process[g].job.plan # p
  BY <1>1, QueueBelow, ProcBelow DEF IdInv
<1>3. \A r : r = Idle => IdInv'
  <2> SUFFICES ASSUME NEW r, r = Idle PROVE IdInv'
    OBVIOUS
  <2>1. process' = [process EXCEPT ![g] = r]
    OBVIOUS
  <2>2. r.pc = "idle" /\ r.listed = {} /\ r.job = Message(0, 0) /\ Message(0, 0).plan = 0
    BY IdleIs DEF Message
  <2>3. Plain(g, r) /\ r.pc \notin {"put", "claim"}
    BY <2>2 DEF Plain
  <2>4. r.job.plan < next'.id /\ next.id <= next'.id
    BY <2>2, QueueBelow
  <2>5. \A m \in queue' : m.plan < next'.id
    BY <1>2, QueueBelow
  <2>6. \A p \in Plans : plans[p].old => (\A m \in queue' : m.plan # p) /\ (g \in Mergers => r.job.plan # p)
    BY <1>2, <2>2, QueueBelow
  <2>7. UNCHANGED <<manifest, pending, files, plans, named>>
    OBVIOUS
  <2> QED
    BY <1>1, <2>1, <2>3, <2>4, <2>5, <2>6, <2>7, PlainStep
<1> QED
  BY <1>3

LEMMA MergeDiesIds ==
  ASSUME TypeInv, TypeInv', IdInv, NEW g \in Mergers, MergeDies(g)
  PROVE  IdInv'
BY MergeIdleIds DEF MergeDies

LEMMA StartRangeIds ==
  ASSUME TypeInv, TypeInv', IdInv, NEW g \in Mergers, NEW m \in queue, StartRange(g, m)
  PROVE  IdInv'
<1>1. UNCHANGED <<manifest, pending, files, plans, named, next>> /\ queue' \subseteq queue
  BY DEF StartRange
<1>2. CASE process' = [process EXCEPT ![g] = Idle]
  BY <1>1, <1>2, MergeIdleIds
<1>3. ASSUME NEW r, process' = [process EXCEPT ![g] = r], r.pc = "range", r.job = m, r.listed = {}
      PROVE  IdInv'
  <2>1. g \in Processes /\ g \in Workers
    BY Disjoint DEF Workers
  <2>2. Plain(g, r) /\ r.pc \notin {"put", "claim"}
    BY <1>3 DEF Plain
  <2>3. r.job.plan < next'.id /\ next.id <= next'.id
    BY <1>1, <1>3, QueueBelow
  <2>4. \A n \in queue' : n.plan < next'.id
    BY <1>1, QueueBelow
  <2>5. \A p \in Plans : plans[p].old => (\A n \in queue' : n.plan # p) /\ (g \in Mergers => r.job.plan # p)
    BY <1>1, <1>3, QueueBelow
  <2>6. UNCHANGED <<manifest, pending, files, plans, named>>
    BY <1>1
  <2> QED
    BY <1>3, <2>1, <2>2, <2>3, <2>4, <2>5, <2>6, PlainStep
<1> QED
  BY <1>2, <1>3, StartRangeIs

\* A job goes on.
LEMMA MergeGotoIds ==
  ASSUME TypeInv, TypeInv', IdInv, NEW g \in Mergers, process[g].pc \in {"range", "count", "results"},
         NEW pc \in {"write", "dropAll", "swap", "dropping"}, Goto(g, pc),
         UNCHANGED <<manifest, pending, files, plans, named, queue, next>>,
         pc \in {"dropAll", "dropping"} => ~LivePlan(plans[process[g].job.plan]),
         pc = "swap" => plans[process[g].job.plan].done = DOMAIN Ranges
  PROVE  IdInv'
<1>1. g \in Processes /\ g \in Workers /\ g \notin Maintainers /\ process[g].pc # "idle" /\ pc \in {"write", "dropAll", "count", "swap", "results", "dropping"}
  BY Disjoint DEF Workers
<1>2. ProcIds(g, process[g]) /\ process[g].job.plan < next.id
  BY <1>1, ProcBelow DEF IdInv
<1>3. process[g].listed = {}
  BY <1>1, <1>2 DEF ProcIds
<1>4. \A s, n : s = [process[g] EXCEPT !.pc = pc] /\ n = process[g].job.plan => IdInv'
  <2> SUFFICES ASSUME NEW s, s = [process[g] EXCEPT !.pc = pc], NEW n, n = process[g].job.plan PROVE IdInv'
    OBVIOUS
  <2>1. process' = [process EXCEPT ![g] = s] /\ s.pc = pc /\ s.job = process[g].job /\ s.listed = {}
    BY <1>1, <1>3, MergeGotoIs
  <2>2. process'[g] = s
    BY <1>1, <2>1 DEF TypeInv, Types
  <2>3. pc \in {"dropAll", "dropping"} => ~LivePlan(plans[n])'
    BY DEF LivePlan, Visible, Late, LayerIds
  <2>4. ProcIds(g, s)'
    BY <1>1, <1>2, <2>1, <2>3 DEF ProcIds, Changing, Holds, Dropping
  <2>5. \A y \in Workers \ {g} : Pair(g, y)' /\ Pair(y, g)'
    BY <2>1, <2>2 DEF Pair, Changing, Holds
  <2>6. s.pc \notin {"put", "claim"} /\ ~Changing(s)
    BY <2>1 DEF Changing
  <2>7. (\A m \in queue' : m.plan < next'.id)
        /\ \A p \in Plans : plans[p].old => (\A m \in queue' : m.plan # p) /\ (g \in Mergers => s.job.plan # p)
    BY <2>1, QueueBelow
  <2>8. next.id <= next'.id /\ files \subseteq files' /\ (\A f \in files' : f \in files \/ f = Layer(next.id) \/ f = Pack(next.id))
        /\ UNCHANGED <<manifest, pending, plans, named>>
    BY Below
  <2> QED
    BY <1>1, <2>1, <2>4, <2>5, <2>6, <2>7, <2>8, StillStep
<1> QED
  BY <1>4

LEMMA CheckInputsIds ==
  ASSUME TypeInv, TypeInv', IdInv, NEW g \in Mergers, CheckInputs(g)
  PROVE  IdInv'
<1>1. UNCHANGED <<manifest, pending, files, plans, named, queue, next>> /\ process[g].pc = "range"
  BY DEF CheckInputs
<1>2. CASE {l.id : l \in PlanOf(g).layers} \subseteq LayerIds(Latest)
  <2>1. Goto(g, "write")
    BY <1>2 DEF CheckInputs
  <2> QED
    BY <1>1, <2>1, MergeGotoIds
<1>3. CASE ~({l.id : l \in PlanOf(g).layers} \subseteq LayerIds(Latest))
  <2>1. Goto(g, "dropAll")
    BY <1>3 DEF CheckInputs
  <2>2. ~LivePlan(plans[process[g].job.plan])
    BY <1>3, LatestIs DEF LivePlan, IdsOf, PlanOf, IdInv
  <2> QED
    BY <1>1, <2>1, <2>2, MergeGotoIds
<1> QED
  BY <1>2, <1>3

LEMMA CountRangesIds ==
  ASSUME TypeInv, TypeInv', IdInv, NEW g \in Mergers, CountRanges(g)
  PROVE  IdInv'
<1>1. UNCHANGED <<manifest, pending, files, plans, named, queue, next>> /\ process[g].pc = "count"
  BY DEF CountRanges
<1>2. CASE PlanOf(g).done = DOMAIN Ranges
  <2>1. Goto(g, "swap") /\ plans[process[g].job.plan].done = DOMAIN Ranges
    BY <1>2 DEF CountRanges, PlanOf
  <2> QED
    BY <1>1, <2>1, MergeGotoIds
<1>3. CASE PlanOf(g).done # DOMAIN Ranges
  BY <1>1, <1>3, MergeIdleIds DEF CountRanges
<1> QED
  BY <1>2, <1>3

LEMMA ClaimSwapIs ==
  ASSUME TypeInv, NEW g \in Mergers, ClaimSwap(g), ~PlanOf(g).claimed
  PROVE  LET p == process[g].job.plan IN
         \E P \in PlanRec :
            /\ plans' = [plans EXCEPT ![p] = P] /\ p \in Plans /\ Goto(g, "results")
            /\ P.layers = plans[p].layers /\ P.there = plans[p].there /\ P.seq = plans[p].seq /\ P.result = plans[p].result
            /\ P.old = plans[p].old /\ P.claimed /\ P.done = plans[p].done
<1> DEFINE p == process[g].job.plan
           P == [plans[p] EXCEPT !.claimed = TRUE]
<1>1. process[g].pc = "swap"
  BY DEF ClaimSwap
<1>2. p \in Plans /\ plans[p] \in PlanRec
  BY <1>1, JobTyped
<1>3. plans' = [plans EXCEPT ![p].claimed = TRUE] /\ Goto(g, "results")
  BY DEF ClaimSwap, PlanOf
<1>4. plans' = [plans EXCEPT ![p] = P]
  BY <1>2, <1>3 DEF TypeInv, Types
<1>5. P \in PlanRec /\ P.claimed /\ P.layers = plans[p].layers /\ P.there = plans[p].there /\ P.seq = plans[p].seq
      /\ P.result = plans[p].result /\ P.old = plans[p].old /\ P.done = plans[p].done
  BY <1>2 DEF PlanRec
<1> QED
  BY <1>2, <1>3, <1>4, <1>5

\* The first to claim the swap is the only one that holds what it wrote.
LEMMA ClaimSwapIds ==
  ASSUME TypeInv, TypeInv', IdInv, NEW g \in Mergers, ClaimSwap(g)
  PROVE  IdInv'
<1>1. UNCHANGED <<manifest, pending, files, named, queue, next>> /\ process[g].pc = "swap"
  BY DEF ClaimSwap
<1>2. CASE PlanOf(g).claimed
  BY <1>1, <1>2, MergeIdleIds DEF ClaimSwap
<1>3. ASSUME ~PlanOf(g).claimed, NEW p, p = process[g].job.plan, NEW P \in PlanRec, plans' = [plans EXCEPT ![p] = P], p \in Plans,
             Goto(g, "results"), P.layers = plans[p].layers, P.there = plans[p].there, P.seq = plans[p].seq,
             P.result = plans[p].result,
             P.old = plans[p].old, P.claimed, P.done = plans[p].done,
             NEW s, s = [process[g] EXCEPT !.pc = "results"]
      PROVE  IdInv'
  <2>1. g \in Processes /\ g \in Workers /\ g \notin Maintainers /\ process[g].pc # "idle"
    BY <1>1, Disjoint DEF Workers
  <2>2. process' = [process EXCEPT ![g] = s] /\ s.pc = "results" /\ s.job = process[g].job /\ s.listed = process[g].listed
    BY <1>3, <2>1, MergeGotoIs
  <2>3. process'[g] = s /\ \A y \in Processes \ {g} : process'[y] = process[y]
    BY <2>1, <2>2 DEF TypeInv, Types
  <2>4. plans'[p] = P /\ \A q \in Plans \ {p} : plans'[q] = plans[q]
    BY <1>3 DEF TypeInv, Types
  <2>5. Results(P) = Results(plans[p])
    BY <1>3 DEF Results
  <2>6. ProcIds(g, process[g]) /\ p < next.id /\ PlanInv(p, plans[p]) /\ ~plans[p].claimed
    BY <1>3, <2>1, ProcBelow DEF IdInv, Ownership, PlanOf
  <2>7. \A l \in Results(plans[p]) : Unlisted(l.id)
    BY <2>6 DEF PlanInv
  <2>8. \A id : (Unlisted(id)' <=> Unlisted(id)) /\ (Seen(id)' <=> Seen(id)) /\ (Visible' = Visible)
    BY <1>1 DEF Unlisted, Seen, Visible, Late, LayerIds
  <2>9. ProcIds(g, s)'
    <3>1. plans'[s.job.plan] = P
      BY <1>3, <2>2, <2>4
    <3>2. P.there => P.done = DOMAIN Ranges
      BY <1>1, <1>3, <2>6 DEF ProcIds
    <3>3. s.listed = {}
      BY <1>1, <2>1, <2>2, <2>6 DEF ProcIds
    <3>4. s.job.plan < next'.id
      BY <1>1, <1>3, <2>2, <2>6
    <3> QED
      BY <1>3, <2>1, <2>2, <2>5, <2>7, <2>8, <3>1, <3>2, <3>3, <3>4 DEF ProcIds, Changing, Holds, Dropping
  <2>10. ASSUME NEW y \in Workers \ {g} PROVE Pair(g, y)' /\ Pair(y, g)'
    <3>1. process'[y] = process[y] /\ y \in Processes
      BY <2>3, <2>10, Disjoint DEF Workers
    <3>2. ASSUME y \in Mergers, Holds(process[y]), process[y].job.plan = p PROVE ~P.there
      <4>1. ProcIds(y, process[y])
        BY <3>1, ProcBelow DEF IdInv
      <4>2. plans[p].there => plans[p].claimed
        BY <3>2, <4>1 DEF ProcIds
      <4> QED
        BY <1>3, <2>6, <4>2
    <3>3. plans'[s.job.plan] = P /\ s.job.plan = p
      BY <1>3, <2>2, <2>4
    <3> QED
      BY <2>2, <2>3, <3>1, <3>2, <3>3 DEF Pair, Changing
  <2>11. PlanInv(p, P)'
    <3>1. \A y \in Mergers : process'[y].job.plan = process[y].job.plan
      BY <2>2, <2>3, Disjoint
    <3>2. LivePlan(P)' <=> LivePlan(plans[p])
      BY <1>3, <2>8 DEF LivePlan
    <3> QED
      BY <1>1, <1>3, <2>5, <2>6, <2>7, <2>8, <3>1, <3>2 DEF PlanInv
  <2>12. Evolves
    <3>1. \A q \in Plans : Results(plans'[q]) = Results(plans[q])
      BY <2>4, <2>5
    <3>2. \A q \in Plans : PlanKept(plans[q], plans'[q]) /\ plans'[q].there = plans[q].there
      BY <1>3, <2>4 DEF PlanKept
    <3>3. \A q, z \in Plans : \A l \in Results(plans'[q]), k \in Results(plans'[z]) : l.id = next.id /\ k.id = next.id => q = z
      BY <3>1, Below
    <3>4. \A q \in Plans : q >= next.id => Results(plans'[q]) = {}
      <4>1. \A q \in Plans : q >= next.id => ~plans[q].there
        BY QueueBelow, Constants DEF TypeInv, Types
      <4> QED
        BY <3>1, <4>1, PlanNot
    <3>5. next.id <= next'.id
      BY <1>1, Below
    <3> QED
      BY <2>8, <3>1, <3>2, <3>3, <3>4, <3>5 DEF Evolves
  <2>13. s.pc \notin {"put", "claim"} /\ ~Changing(s)
    BY <2>2 DEF Changing
  <2>14. (\A m \in queue' : m.plan < next'.id)
         /\ \A q \in Plans \ {p} : plans[q].old => (\A m \in queue' : m.plan # q) /\ (g \in Mergers => s.job.plan # q)
    BY <1>1, <1>3, <2>2, QueueBelow
  <2>15. next.id <= next'.id /\ files \subseteq files' /\ (\A f \in files' : f \in files \/ f = Layer(next.id) \/ f = Pack(next.id))
         /\ UNCHANGED <<manifest, pending, named>>
    BY <1>1, Below
  <2>16. \A l \in Results(P) : l \in Results(plans[p]) \/ Unlisted(l.id)
    BY <2>5
  <2>17. p \in Plans /\ plans' = [plans EXCEPT ![p] = P] /\ process' = [process EXCEPT ![g] = s]
    BY <1>3, <2>2
  <2>18. (g \in Workers => ~Changing(s)) /\ (g \in Workers => \A y \in Workers \ {g} : Pair(g, y)' /\ Pair(y, g)')
    BY <2>10, <2>13
  <2> QED
    BY <2>1, <2>9, <2>11, <2>12, <2>13, <2>14, <2>15, <2>16, <2>17, <2>18, PlanStepIds
<1> QED
  BY <1>2, <1>3, ClaimSwapIs

LEMMA MergeSwapIds ==
  ASSUME TypeInv, TypeInv', IdInv, NEW g \in Mergers, MergeSwap(g)
  PROVE  IdInv'
<1>1. UNCHANGED <<manifest, pending, files, plans, named, queue, next>> /\ process[g].pc = "results"
  BY DEF MergeSwap
<1>2. g \in Processes /\ g \in Workers /\ g \notin Maintainers /\ process[g].pc # "idle" /\ ProcIds(g, process[g])
      /\ process[g].job.plan \in Plans /\ process[g].job.plan < next.id
  BY <1>1, Disjoint, JobTyped, ProcBelow DEF Workers, IdInv
<1>3. CASE PlanOf(g).done # DOMAIN Ranges
  <2>1. ~plans[process[g].job.plan].there
    BY <1>1, <1>2, <1>3 DEF ProcIds, PlanOf
  <2>2. ~LivePlan(plans[process[g].job.plan])
    BY <2>1 DEF LivePlan
  <2>3. Goto(g, "dropping")
    BY <1>3 DEF MergeSwap
  <2> QED
    BY <1>1, <2>2, <2>3, MergeGotoIds
<1>4. ASSUME NEW p, p = process[g].job.plan, NEW r, process' = [process EXCEPT ![g] = r], p \in Plans,
             r.pc = "update", r.listed = {}, r.job = process[g].job,
             r.change = [NoChange EXCEPT !.oldLayers = {l.id : l \in plans[p].layers}, !.newLayers = Results(plans[p])],
             r.change.oldLayers = {l.id : l \in plans[p].layers}, r.change.newLayers = Results(plans[p])
      PROVE  IdInv'
  <2>1. r.change.forget = {} /\ r.change.newPacks = {} /\ r.change.oldLayers = IdsOf(plans[p].layers)
    BY <1>4 DEF NoChange, IdsOf
  <2>2. PlanInv(p, plans[p]) /\ plans[p] \in PlanRec /\ PlanShape(p, plans[p])
    BY <1>4 DEF IdInv, Ownership, TypeInv, Types, Shapes
  <2>3. Results(plans[p]) # {} => plans[p].there
    BY <1>4, PlanNot
  <2>4. \A l \in Results(plans[p]) : Unlisted(l.id)
    BY <1>1, <1>2, <1>4 DEF ProcIds
  <2>5. process'[g] = r /\ \A y \in Processes \ {g} : process'[y] = process[y]
    BY <1>2, <1>4 DEF TypeInv, Types
  <2>6. \A id : (Unlisted(id)' <=> Unlisted(id)) /\ (Seen(id)' <=> Seen(id)) /\ (Visible' = Visible)
    BY <1>1 DEF Unlisted, Seen, Visible, Late, LayerIds
  <2>7. \A q \in Plans : \A l \in Results(plans[p]), j \in Results(plans[q]) : l.id = j.id => q = p
    BY <1>4 DEF IdInv, Ownership, IdsOf
  <2>8. plans[p].there <=> plans[p].layers # {}
    BY <2>2 DEF PlanShape
  <2>9. ChangeIds(g, r)'
    <3>1. \A id \in r.change.oldLayers : Seen(id)' /\ id < next'.id
      BY <1>1, <2>1, <2>2, <2>6 DEF PlanInv, IdsOf
    <3>2. \A l \in r.change.newLayers : Unlisted(l.id)' /\ l.id < next'.id
      BY <1>1, <1>4, <2>2, <2>4, <2>6 DEF PlanInv
    <3>3. LiveChange(r.change)' => \A l \in r.change.newLayers : Layer(l.id) \in files'
      BY <1>1, <1>4, <2>1, <2>2, <2>3, <2>6 DEF PlanInv, LivePlan, LiveChange
    <3>4. \A l, j \in r.change.newLayers : l.id = j.id => l = j
      BY <1>4, <2>2 DEF PlanInv
    <3>5. \A q \in Plans : \A l \in r.change.newLayers, j \in Results(plans'[q]) : l.id = j.id => g \in Mergers /\ r.job.plan = q
      BY <1>1, <1>4, <2>7
    <3>6. r.job.plan = p /\ plans'[p] = plans[p]
      BY <1>1, <1>4
    <3>7. r.change.newLayers # {} => r.change.oldLayers # {}
      BY <1>4, <2>3, <2>8
    <3>8. r.change.oldLayers # {} => plans[p].there
      BY <1>4, <2>8
    <3> QED
      BY <1>1, <2>1, <3>1, <3>2, <3>3, <3>4, <3>5, <3>6, <3>7, <3>8 DEF ChangeIds
  <2>10. ProcIds(g, r)'
    <3>1. r.job.plan = p /\ plans'[p] = plans[p] /\ p < next'.id
      BY <1>1, <1>2, <1>4
    <3>2. plans[p].there => plans[p].claimed
      BY <1>1, <1>2, <1>4 DEF ProcIds, Holds
    <3> QED
      BY <1>2, <1>4, <2>9, <3>1, <3>2 DEF ProcIds, Dropping
  <2>11. ASSUME NEW y \in Workers \ {g} PROVE Pair(g, y)' /\ Pair(y, g)'
    <3>1. process'[y] = process[y] /\ y \in Processes
      BY <2>5, <2>11, Disjoint DEF Workers
    <3>2. r.job.plan = p /\ plans'[p] = plans[p] /\ Holds(process[g])
      BY <1>1, <1>4 DEF Holds
    <3>3. y \in Mergers /\ Holds(process[y]) /\ process[y].job.plan = p => ~plans[p].there
      BY <1>2, <1>4, <2>11, <3>2 DEF IdInv, Ownership, Pair
    <3>4. Changing(process[y]) => IdsOf(r.change.newLayers) \cap IdsOf(process[y].change.newLayers) = {}
      <4> SUFFICES ASSUME Changing(process[y]), NEW l \in Results(plans[p]), NEW j \in process[y].change.newLayers, l.id = j.id
                   PROVE FALSE
        BY <1>4 DEF IdsOf
      <4>1. ChangeIds(y, process[y])
        BY <3>1, ProcBelow DEF IdInv, ProcIds
      <4>2. y \in Mergers /\ process[y].job.plan = p
        BY <1>4, <4>1 DEF ChangeIds
      <4>3. Holds(process[y])
        BY DEF Holds
      <4> QED
        BY <2>3, <3>3, <4>2, <4>3
    <3>5. process[y].pc = "dropping" => \A l \in r.change.newLayers : Layer(l.id) \in process[y].listed => process[y].job.plan = p
      <4> SUFFICES ASSUME process[y].pc = "dropping", NEW l \in Results(plans[p]), Layer(l.id) \in process[y].listed
                   PROVE  process[y].job.plan = p
        BY <1>4
      <4>1. ProcIds(y, process[y])
        BY <3>1, ProcBelow DEF IdInv
      <4>2. l.id \in Plans /\ l.id \in IdsOf(Results(plans[p]))
        BY <1>4, ResultsIs DEF IdsOf
      <4> QED
        BY <1>4, <4>1, <4>2 DEF ProcIds
    <3>6. \A s : s = process[y] => Pair(g, y)' /\ Pair(y, g)'
      <4> SUFFICES ASSUME NEW s, s = process[y] PROVE Pair(g, y)' /\ Pair(y, g)'
        OBVIOUS
      <4>1. process'[y] = s /\ process'[g] = r
        BY <2>5, <3>1
      <4>2. (y \in Mergers /\ Holds(s) /\ s.job.plan = p => ~plans'[p].there)
            /\ (Changing(s) => IdsOf(r.change.newLayers) \cap IdsOf(s.change.newLayers) = {})
            /\ (s.pc = "dropping" => \A l \in r.change.newLayers : Layer(l.id) \in s.listed => s.job.plan = p)
        BY <3>2, <3>3, <3>4, <3>5
      <4>3. r.pc # "dropping" /\ g \in Mergers
        BY <1>4
      <4> QED
        BY <3>2, <4>1, <4>2, <4>3 DEF Pair
    <3> QED
      BY <3>6
  <2>12. r.pc # "put" /\ r.pc # "claim" /\ \A pk \in r.change.newPacks : PackFree(pk.id)
    BY <1>4, <2>1
  <2>13. (\A m \in queue' : m.plan < next'.id)
         /\ \A q \in Plans : plans[q].old => (\A m \in queue' : m.plan # q) /\ (g \in Mergers => r.job.plan # q)
    BY <1>1, <1>4, QueueBelow
  <2>14. next.id <= next'.id /\ files \subseteq files' /\ (\A f \in files' : f \in files \/ f = Layer(next.id) \/ f = Pack(next.id))
         /\ UNCHANGED <<manifest, pending, plans, named>>
    BY <1>1, Below
  <2> QED
    BY <1>2, <1>4, <2>10, <2>11, <2>12, <2>13, <2>14, StillStep
<1> QED
  BY <1>3, <1>4, MergeSwapIs DEF PlanOf

\* A message lost, a plan grown old.
LEMMA OldIds ==
  ASSUME TypeInv, TypeInv', IdInv, UNCHANGED <<manifest, pending, files, process, named, next>>, queue' \subseteq queue,
         \A p \in Plans : /\ plans'[p].layers = plans[p].layers /\ plans'[p].there = plans[p].there
                          /\ plans'[p].result = plans[p].result /\ plans'[p].claimed = plans[p].claimed
                          /\ plans'[p].done = plans[p].done /\ (plans[p].old => plans'[p].old)
                          /\ plans'[p].old => plans[p].old \/ ((\A m \in queue : m.plan # p) /\ \A g \in Mergers : process[g].job.plan # p)
  PROVE  IdInv'
<1>1. /\ manifest' = manifest /\ pending' = pending /\ files' = files /\ process' = process /\ named' = named /\ next' = next
  OBVIOUS
<1>2. \A id : (Unlisted(id)' <=> Unlisted(id)) /\ (Seen(id)' <=> Seen(id)) /\ (PackFree(id)' <=> PackFree(id))
              /\ Visible' = Visible /\ Late' = Late
  BY <1>1 DEF Unlisted, Seen, Visible, Late, LayerIds, PackFree, PackIds
<1>3. \A p \in Plans : Results(plans'[p]) = Results(plans[p])
  BY DEF Results
<1>4. Names'
  <2>1. \A y \in Processes : Matching(y)' => Applies(WithPending(manifest, process[y].listed), process[y].change)'
    <3> SUFFICES ASSUME NEW y \in Processes, Matching(y)'
                 PROVE  Applies(WithPending(manifest, process[y].listed), process[y].change)'
      OBVIOUS
    <3>1. Matching(y)
      BY <1>1 DEF Matching
    <3>2. Applies(WithPending(manifest, process[y].listed), process[y].change)
      BY <3>1 DEF IdInv, Names
    <3>3. \A n, ch, m : n = process[y].listed /\ ch = process[y].change /\ m = manifest => Applies(WithPending(m, n), ch)'
      <4> SUFFICES ASSUME NEW n, n = process[y].listed, NEW ch, ch = process[y].change, NEW m, m = manifest
                   PROVE  Applies(WithPending(m, n), ch)'
        OBVIOUS
      <4>1. WithPending(m, n)' = WithPending(m, n)
        BY <1>1, SameView
      <4> QED
        BY <3>2, <4>1 DEF Applies, LayerIds, PackIds
    <3> QED
      BY <1>1, <3>3
  <2>2. \A c \in Commits : Putting(c)' => c \notin named'
    BY <1>1 DEF IdInv, Names, Putting
  <2> QED
    BY <1>1, <1>2, <2>1, <2>2 DEF IdInv, Names, LayerIds
<1>5. Packs'
  BY <1>1, <1>2 DEF IdInv, Packs, Changing
<1>6. \A p \in Plans : (LivePlan(plans[p])' <=> LivePlan(plans[p]))
  BY <1>2 DEF LivePlan
<1>7. ASSUME NEW x \in Processes, NEW r, r = process[x] PROVE ProcIds(x, r)'
  <2>1. ProcIds(x, r) /\ r.job.plan < next.id
    BY <1>7, ProcBelow DEF IdInv
  <2>2. (x \in Workers /\ (Changing(r) \/ Dropping(x, r))) \/ (x \in Mergers /\ (Holds(r) \/ r.pc \in {"swap", "results"})) =>
           (x \in Maintainers /\ Changing(r)) \/ r.job.plan \in Plans
    <3>1. ProcShape(x, r)
      BY <1>7, ProcessTyped
    <3> QED
      BY <3>1 DEF Workers, ProcShape, MaintainShape, MergeShape, Changing, Dropping, Holds
  <2>3. x \in Workers /\ Changing(r) => ChangeIds(x, r)'
    <3> HAVE x \in Workers /\ Changing(r)
    <3>1. ChangeIds(x, r)
      BY <2>1 DEF ProcIds
    <3>2. LiveChange(r.change)' <=> LiveChange(r.change)
      BY <1>2 DEF LiveChange
    <3>3. x \in Mergers => r.job.plan \in Plans
      BY <2>2, Disjoint
    <3> QED
      BY <1>1, <1>2, <1>3, <3>1, <3>2, <3>3 DEF ChangeIds
  <2>4. x \in Workers /\ Dropping(x, r) => ~LivePlan(plans[r.job.plan])' \/ (x \in Maintainers /\ plans'[r.job.plan].old)
    <3> HAVE x \in Workers /\ Dropping(x, r)
    <3>1. r.job.plan \in Plans
      BY <2>2 DEF Dropping, Changing
    <3> QED
      BY <1>6, <2>1, <3>1 DEF ProcIds
  <2>5. x \in Mergers /\ Holds(r) => (plans'[r.job.plan].there => plans'[r.job.plan].claimed)
    BY <2>1, <2>2, Disjoint DEF ProcIds
  <2>6. x \in Mergers /\ r.pc \in {"swap", "results"} /\ plans'[r.job.plan].there => plans'[r.job.plan].done = DOMAIN Ranges
    BY <2>1, <2>2, Disjoint DEF ProcIds
  <2>7. x \in Mergers /\ r.pc = "results" => \A l \in Results(plans'[r.job.plan]) : Unlisted(l.id)'
    BY <1>2, <1>3, <2>1, <2>2, Disjoint DEF ProcIds
  <2>8. x \in Workers /\ r.pc = "dropping" => \A id \in Plans : Layer(id) \in r.listed =>
          /\ id < next'.id
          /\ \A p \in Plans : id \in IdsOf(Results(plans'[p])) => p = r.job.plan
    BY <1>1, <1>3, <2>1 DEF ProcIds
  <2>9. r.job.plan < next'.id /\ (x \in Workers /\ r.pc \notin {"claim", "clear", "dropping"} => r.listed = {})
        /\ (x \in Workers /\ r.pc = "dropping" => \A f \in r.listed : \E id \in Plans : f = Layer(id))
    BY <1>1, <2>1 DEF ProcIds
  <2> QED
    BY <2>3, <2>4, <2>5, <2>6, <2>7, <2>8, <2>9 DEF ProcIds
<1>8. ASSUME NEW p \in Plans, NEW n, n = plans[p], NEW s, s = plans'[p] PROVE PlanInv(p, s)'
  <2>1. PlanInv(p, n) /\ Results(s) = Results(n)
    BY <1>3, <1>8 DEF IdInv, Ownership
  <2>2. LivePlan(s)' <=> LivePlan(n)
    BY <1>2, <1>8 DEF LivePlan
  <2> QED
    BY <1>1, <1>2, <1>8, <2>1, <2>2 DEF PlanInv
<1>9. \A x, y \in Workers : x # y => Pair(x, y)'
  <2> SUFFICES ASSUME NEW x \in Workers, NEW y \in Workers, x # y PROVE Pair(x, y)'
    OBVIOUS
  <2>1. Pair(x, y)
    BY DEF IdInv, Ownership
  <2>2. x \in Mergers /\ Holds(process[x]) => process[x].job.plan \in Plans
    BY JobTyped DEF Holds, Changing
  <2> QED
    BY <1>1, <2>1, <2>2 DEF Pair
<1>10. \A x \in Processes : ProcIds(x, process[x])'
  <2> SUFFICES ASSUME NEW x \in Processes PROVE ProcIds(x, process[x])'
    OBVIOUS
  <2>1. \A r : r = process[x] => ProcIds(x, r)'
    BY <1>7
  <2> QED
    BY <1>1, <2>1
<1>11. \A p \in Plans : PlanInv(p, plans[p])'
  BY <1>8
<1>12. \A m \in queue' : m.plan < next'.id
  BY <1>1 DEF IdInv, Ownership
<1>13. \A p, q \in Plans : p # q => IdsOf(Results(plans'[p])) \cap IdsOf(Results(plans'[q])) = {}
  BY <1>3 DEF IdInv, Ownership
<1>14. Ownership'
  BY <1>9, <1>10, <1>11, <1>12, <1>13 DEF Ownership
<1> QED
  BY <1>4, <1>5, <1>14 DEF IdInv

LEMMA LoseMessageIds ==
  ASSUME TypeInv, TypeInv', IdInv, NEW m \in queue, LoseMessage(m)
  PROVE  IdInv'
BY OldIds DEF LoseMessage

LEMMA AgeIds ==
  ASSUME TypeInv, TypeInv', IdInv, NEW p \in Plans, Age(p)
  PROVE  IdInv'
<1>1. UNCHANGED <<manifest, pending, files, process, named, next, queue>> /\ plans' = [plans EXCEPT ![p].old = TRUE]
      /\ (\A m \in queue : m.plan # p) /\ \A g \in Mergers : process[g].job.plan # p
  BY DEF Age
<1>2. plans \in [Plans -> PlanRec]
  BY DEF TypeInv, Types
<1>3. ASSUME NEW q \in Plans
      PROVE  /\ plans'[q].layers = plans[q].layers /\ plans'[q].there = plans[q].there
             /\ plans'[q].result = plans[q].result /\ plans'[q].claimed = plans[q].claimed
             /\ plans'[q].done = plans[q].done /\ (plans[q].old => plans'[q].old) /\ (q # p => plans'[q].old = plans[q].old)
  <2>1. plans[q] \in PlanRec
    BY <1>2
  <2> QED
    BY <1>1, <1>2, <2>1 DEF PlanRec
<1> QED
  BY <1>1, <1>3, OldIds

\* A range's part of the run has a fresh name, and is stored.
LEMMA MergeRangeIds ==
  ASSUME TypeInv, TypeInv', IdInv, NEW g \in Mergers, MergeRange(g)
  PROVE  IdInv'
<1>1. UNCHANGED <<manifest, pending, named, queue>> /\ process[g].pc = "write" /\ Goto(g, "count") /\ next.id \in Plans
  BY NextId DEF MergeRange
<1>2. g \in Processes /\ g \in Workers /\ g \notin Maintainers
  BY Disjoint DEF Workers
<1>3. ASSUME NEW p \in Plans, p = process[g].job.plan, NEW i \in DOMAIN Ranges, NEW P \in PlanRec, plans' = [plans EXCEPT ![p] = P],
             P.layers = plans[p].layers, P.seq = plans[p].seq, P.there = plans[p].there, P.old = plans[p].old,
             P.claimed = plans[p].claimed, P.done = plans[p].done \cup {i},
             \A j \in DOMAIN Ranges : j # i => P.result[j] = plans[p].result[j],
             NEW n, n = next.id,
             \A l, j \in P.result[i] : l = j,
             \A l \in P.result[i] : l.id = n /\ Layer(n) \in files' /\ n < next'.id,
             files' = files \/ files' = files \cup {Layer(n)}, n <= next'.id
      PROVE  IdInv'
  <2>1. n \in Plans /\ n \in Nat /\ next'.id \in Nat /\ Unlisted(n) /\ 0 < n
    BY <1>1, <1>3, Below, Constants, NextId, QueueBelow DEF TypeInv, Types
  <2>2. ProcIds(g, process[g]) /\ p < n /\ PlanInv(p, plans[p])
    BY <1>2, <1>3, ProcBelow DEF IdInv, Ownership
  <2>3. \A l : l \in Results(P) => l \in Results(plans[p]) \/ (l \in P.result[i] /\ l.id = n)
    BY <1>3 DEF Results
  <2>4. \A l \in Results(plans[p]) : l.id < n /\ l.id # n /\ l.id \in Nat
    BY <1>3, Below
  <2>5. \A id : (Unlisted(id)' <=> Unlisted(id)) /\ (id \in Ids /\ id < n => (Seen(id)' <=> Seen(id))) /\ Visible' = Visible
    BY <1>1, <1>3, <2>1, GrowsIs
  <2>6. plans'[p] = P /\ \A q \in Plans \ {p} : plans'[q] = plans[q]
    BY <1>3 DEF TypeInv, Types
  <2>7. \A q \in Plans : Results(plans'[q]) = Results(plans[q]) \/ q = p
    BY <2>6
  <2>8. Evolves
    <3>1. next.id <= next'.id
      BY <1>3
    <3>2. \A id \in Ids : id < next.id /\ Seen(id) => Seen(id)' /\ (id \in Visible' => id \in Visible)
      BY <1>3, <2>5
    <3>3. \A q \in Plans : PlanKept(plans[q], plans'[q]) /\ plans'[q].there = plans[q].there
      BY <1>3, <2>6 DEF PlanKept
    <3>4. \A q \in Plans : \A l \in Results(plans'[q]) : l \in Results(plans[q]) \/ (l.id = next.id /\ q = p)
      BY <1>3, <2>3, <2>6
    <3>5. \A q \in Plans : \A l \in Results(plans[q]) : l.id # next.id
      BY Below
    <3>6. \A q \in Plans : q >= next.id => Results(plans'[q]) = {}
      <4>1. \A q \in Plans : q >= next.id => ~plans[q].there /\ q # p
        BY <1>3, <2>1, <2>2, QueueBelow, Constants DEF TypeInv, Types
      <4> QED
        BY <2>7, <4>1, PlanNot
    <3> QED
      BY <3>1, <3>2, <3>3, <3>4, <3>5, <3>6 DEF Evolves
  <2>9. \A l \in Results(P) : l \in Results(plans[p]) \/ Unlisted(l.id)
    BY <2>1, <2>3
  <2>10. PlanInv(p, P)'
    <3>1. LivePlan(P)' <=> LivePlan(plans[p])
      BY <1>3, <2>5 DEF LivePlan
    <3>2. \A l \in P.layers : Seen(l.id)' /\ l.id < next'.id
      <4>1. \A l \in P.layers : Seen(l.id) /\ l.id < n /\ l.id \in Ids /\ l.id \in Nat
        BY <1>3, <2>2, Constants DEF PlanInv, PlanRec, LayerRec
      <4> QED
        BY <1>3, <2>1, <2>5, <4>1
    <3>3. \A l \in Results(P) : l.id < next'.id
      BY <1>3, <2>1, <2>3, <2>4
    <3>4. \A l, j \in Results(P) : l.id = j.id => l = j
      BY <1>3, <2>2, <2>3, <2>4 DEF PlanInv
    <3>5. LivePlan(P)' => \A l \in Results(P) : Layer(l.id) \in files'
      BY <1>3, <2>2, <2>3, <3>1 DEF PlanInv
    <3>6. LivePlan(P)' \/ ~P.claimed => \A l \in Results(P) : Unlisted(l.id)'
      BY <1>3, <2>1, <2>2, <2>3, <2>5, <3>1 DEF PlanInv
    <3>7. P.old => FALSE
      BY <1>2, <1>3, <2>2 DEF PlanInv
    <3>8. P.there => p < next'.id
      BY <1>3, <2>1, <2>2, Constants
    <3> QED
      BY <3>2, <3>3, <3>4, <3>5, <3>6, <3>7, <3>8 DEF PlanInv
  <2>11. \A r : r = [process[g] EXCEPT !.pc = "count"] => IdInv'
    <3> SUFFICES ASSUME NEW r, r = [process[g] EXCEPT !.pc = "count"] PROVE IdInv'
      OBVIOUS
    <3>1. process' = [process EXCEPT ![g] = r] /\ r.pc = "count" /\ r.job = process[g].job /\ r.listed = process[g].listed
      BY <1>1, <1>2, MergeGotoIs
    <3>2. Plain(g, r)
      <4>1. r.listed = {}
        BY <1>1, <1>2, <2>2, <3>1 DEF ProcIds
      <4> QED
        BY <3>1, <4>1 DEF Plain
    <3>3. process'[g] = r
      BY <1>2, <3>1 DEF TypeInv, Types
    <3>4. r.job.plan < next'.id
      BY <1>3, <2>1, <2>2, <3>1, Constants
    <3>5. ProcIds(g, r)' /\ \A y \in Workers \ {g} : Pair(g, y)' /\ Pair(y, g)'
      BY <1>2, <3>2, <3>3, <3>4, PlainIds, PlainPair
    <3>6. (\A m \in queue' : m.plan < next'.id)
          /\ \A q \in Plans \ {p} : plans[q].old => (\A m \in queue' : m.plan # q) /\ (g \in Mergers => r.job.plan # q)
      <4>1. \A m \in queue : m.plan \in Nat
        BY QueueBelow, Constants
      <4> QED
        BY <1>1, <1>3, <2>1, <3>1, <4>1, QueueBelow
    <3>7. next.id <= next'.id /\ files \subseteq files' /\ (\A f \in files' : f \in files \/ f = Layer(next.id) \/ f = Pack(next.id))
          /\ UNCHANGED <<manifest, pending, named>>
      BY <1>1, <1>3
    <3>8. (g \in Workers => ~Changing(r)) /\ r.pc \notin {"put", "claim"}
      BY <3>1 DEF Changing
    <3>9. p \in Plans /\ plans' = [plans EXCEPT ![p] = P] /\ process' = [process EXCEPT ![g] = r] /\ g \in Processes
      BY <1>2, <1>3, <3>1
    <3>10. ProcIds(g, r)' /\ (g \in Workers => \A y \in Workers \ {g} : Pair(g, y)' /\ Pair(y, g)')
      BY <3>5
    <3> QED
      BY <2>8, <2>9, <2>10, <3>6, <3>7, <3>8, <3>9, <3>10, PlanStepIds
  <2> QED
    BY <2>11
<1> DEFINE q == process[g].job.plan
           k == process[g].job.range
           at == Merged(plans[q].layers, Ranges[k])
<1>4. q \in Plans /\ k \in DOMAIN Ranges
  BY MergeRangeIs
<1>5. \E P \in PlanRec :
         /\ plans' = [plans EXCEPT ![q] = P]
         /\ P.layers = plans[q].layers /\ P.seq = plans[q].seq /\ P.there = plans[q].there /\ P.old = plans[q].old
         /\ P.claimed = plans[q].claimed /\ P.done = plans[q].done \cup {k}
         /\ \A j \in DOMAIN Ranges : j # k => P.result[j] = plans[q].result[j]
         /\ \/ DOMAIN at = {} /\ P.result[k] = {} /\ files' = files /\ next' = next
            \/ /\ DOMAIN at # {} /\ P.result[k] = {RangeRun(next.id, q, k)} /\ files' = files \cup {Layer(next.id)}
               /\ next' = [next EXCEPT !.id = @ + 1] /\ RangeRun(next.id, q, k).id = next.id
  <2>1. LET p == process[g].job.plan
            i == process[g].job.range
            at0 == Merged(plans[p].layers, Ranges[i]) IN
        \E P \in PlanRec :
          /\ plans' = [plans EXCEPT ![p] = P]
          /\ P.layers = plans[p].layers /\ P.seq = plans[p].seq /\ P.there = plans[p].there /\ P.old = plans[p].old
          /\ P.claimed = plans[p].claimed /\ P.done = plans[p].done \cup {i}
          /\ P.result = [plans[p].result EXCEPT ![i] = P.result[i]]
          /\ \A j \in DOMAIN Ranges : j # i => P.result[j] = plans[p].result[j]
          /\ PlanShape(p, P)
          /\ \/ DOMAIN at0 = {} /\ P.result[i] = {} /\ files' = files /\ next' = next
             \/ /\ DOMAIN at0 # {} /\ P.result[i] = {RangeRun(next.id, p, i)} /\ files' = files \cup {Layer(next.id)}
                /\ next' = [next EXCEPT !.id = @ + 1] /\ plans[p].layers # {}
                /\ RangeRun(next.id, p, i) \in LayerRec /\ RangeRun(next.id, p, i).id = next.id
                /\ RangeRun(next.id, p, i).at = at0
    BY MergeRangeIs
  <2> QED
    BY <2>1
<1>6. [next EXCEPT !.id = @ + 1].id = next.id + 1 /\ next.id \in Nat
  BY <1>1, NextId, Constants
<1> HIDE DEF at
<1>7. PICK P \in PlanRec :
         /\ plans' = [plans EXCEPT ![q] = P]
         /\ P.layers = plans[q].layers /\ P.seq = plans[q].seq /\ P.there = plans[q].there /\ P.old = plans[q].old
         /\ P.claimed = plans[q].claimed /\ P.done = plans[q].done \cup {k}
         /\ \A j \in DOMAIN Ranges : j # k => P.result[j] = plans[q].result[j]
         /\ \/ DOMAIN at = {} /\ P.result[k] = {} /\ files' = files /\ next' = next
            \/ /\ DOMAIN at # {} /\ P.result[k] = {RangeRun(next.id, q, k)} /\ files' = files \cup {Layer(next.id)}
               /\ next' = [next EXCEPT !.id = @ + 1] /\ RangeRun(next.id, q, k).id = next.id
  BY <1>5
<1> DEFINE n == next.id
<1>8. /\ \A l, j \in P.result[k] : l = j
      /\ \A l \in P.result[k] : l.id = n /\ Layer(n) \in files' /\ n < next'.id
      /\ files' = files \/ files' = files \cup {Layer(n)}
      /\ n <= next'.id /\ n = next.id
  <2>1. CASE P.result[k] = {} /\ files' = files /\ next' = next
    BY <1>6, <2>1
  <2>2. CASE /\ P.result[k] = {RangeRun(next.id, q, k)} /\ files' = files \cup {Layer(next.id)}
             /\ next' = [next EXCEPT !.id = @ + 1] /\ RangeRun(next.id, q, k).id = next.id
    <3> HIDE DEF q, k
    <3>1. next'.id = next.id + 1
      BY <1>6, <2>2
    <3> QED
      BY <1>6, <2>2, <3>1
  <2> QED
    BY <1>7, <2>1, <2>2
<1>9. q = process[g].job.plan
  OBVIOUS
<1>10. /\ plans' = [plans EXCEPT ![q] = P]
       /\ P.layers = plans[q].layers /\ P.seq = plans[q].seq /\ P.there = plans[q].there /\ P.old = plans[q].old
       /\ P.claimed = plans[q].claimed /\ P.done = plans[q].done \cup {k}
       /\ \A j \in DOMAIN Ranges : j # k => P.result[j] = plans[q].result[j]
  BY <1>7
<1> HIDE DEF q, k, n
<1> QED
  BY <1>3, <1>4, <1>8, <1>9, <1>10

LEMMA InitIds ==
  ASSUME Init
  PROVE  IdInv
<1>1. /\ manifest = EmptyManifest /\ DOMAIN pending = {} /\ files = {Layer(c) : c \in Commits} \cup {Pack(c) : c \in Commits}
      /\ plans = [p \in Plans |-> NoPlan] /\ queue = {} /\ named = {} /\ next.id = N + 1
  BY DEF Init, N
<1>2. \A x \in Workers : process[x] = Idle
  BY Disjoint DEF Init, Workers
<1>3. \A x \in Processes : process[x] = At("append") \/ process[x] = Idle
  BY DEF Init
<1>4. At("append").pc = "append" /\ Idle.pc = "idle" /\ Idle.listed = {} /\ At("append").job.plan = 0 /\ Idle.job.plan = 0
  BY DEF Idle, At, Message
<1>5. /\ \A x \in Processes : process[x].pc \in {"append", "idle"} /\ process[x].job.plan = 0
      /\ \A x \in Workers : process[x].pc = "idle" /\ process[x].listed = {}
  BY <1>2, <1>3, <1>4
<1>6. Late = {} /\ manifest.layers = {} /\ manifest.packs = {} /\ manifest.retired = {}
  BY <1>1 DEF Late, EmptyManifest
<1>7. Visible = {} /\ LayerIds(manifest) = {} /\ PackIds(manifest) = {}
  BY <1>6 DEF Visible, LayerIds, PackIds
<1>8. Names
  <2>1. \A c \in Commits : Layer(c) \in files
    BY <1>1
  <2>2. \A x \in Processes : ~Matching(x)
    BY <1>5 DEF Matching
  <2>3. \A c \in Commits : ~Putting(c)
    BY <1>5, Disjoint DEF Putting
  <2> QED
    BY <1>1, <1>6, <1>7, <2>1, <2>2, <2>3 DEF Names, Seen
<1>9. Packs
  <2>1. \A x \in Workers : ~Changing(process[x])
    BY <1>5 DEF Changing
  <2> QED
    BY <1>6, <1>7, <2>1 DEF Packs, PackFree
<1>10. Ownership
  <2>1. NoPlan.layers = {} /\ ~NoPlan.there /\ ~NoPlan.old /\ Results(NoPlan) = {}
    BY DEF NoPlan, Results
  <2>2. \A p \in Plans : plans[p] = NoPlan
    BY <1>1
  <2>3. \A p \in Plans : PlanInv(p, plans[p])
    BY <2>1, <2>2 DEF PlanInv, LivePlan
  <2>4. \A x \in Processes : ProcIds(x, process[x])
    <3>1. N \in Nat
      BY Constants
    <3> QED
      BY <1>1, <1>5, <3>1 DEF ProcIds, Changing, Holds, Dropping
  <2>5. \A x, y \in Workers : Pair(x, y)
    BY <1>5 DEF Pair, Changing, Holds
  <2> QED
    BY <1>1, <2>1, <2>2, <2>3, <2>4, <2>5 DEF Ownership, IdsOf
<1> QED
  BY <1>8, <1>9, <1>10 DEF IdInv

LEMMA IdStep ==
  ASSUME TypeInv, IdInv, [Next]_vars, ~TornReads
  PROVE  IdInv'
<1>1. TypeInv'
  BY TypeStep
<1>2. ASSUME NEW x \in Processes, Change(x) PROVE IdInv'
  BY <1>1, <1>2, ReadNewestIds, ClaimNumberIds, ClearPendingIds DEF Change
<1>3. ASSUME NEW c \in Commits, Commit(c) PROVE IdInv'
  BY <1>1, <1>3, ReadManifestIds, ListPendingIds, AppendRunsIds, SaveTreeIds, CommitDiesIds DEF Commit
<1>4. ASSUME NEW w \in Maintainers, Maintain(w) PROVE IdInv'
  BY <1>1, <1>4, LeaseIds, MergeLayersIds, SplitMergeIds, NothingDueIds, AbandonIds, MergePacksIds, SweepRetiredIds
    DEF Maintain
<1>5. ASSUME NEW g \in Mergers, Merge(g) PROVE IdInv'
  BY <1>1, <1>5, StartRangeIds, CheckInputsIds, MergeRangeIds, CountRangesIds, ClaimSwapIds, MergeSwapIds, MergeDiesIds
    DEF Merge
<1>6. ASSUME NEW x \in Maintainers \cup Mergers, ListMerge(x) \/ DropMerge(x) PROVE IdInv'
  BY <1>1, <1>6, ListMergeIds, DropMergeIds DEF Workers
<1>7. ASSUME NEW m \in queue, LoseMessage(m) PROVE IdInv'
  BY <1>1, <1>7, LoseMessageIds
<1>8. ASSUME NEW p \in Plans, Age(p) PROVE IdInv'
  BY <1>1, <1>8, AgeIds
<1>9. ASSUME UNCHANGED vars PROVE IdInv'
  <2>1. UNCHANGED <<manifest, pending, files, process, named, next>> /\ queue' \subseteq queue /\ plans' = plans
    BY <1>9 DEF vars
  <2> QED
    BY <1>1, <2>1, OldIds
<1> QED
  BY <1>2, <1>3, <1>4, <1>5, <1>6, <1>7, <1>8, <1>9 DEF Next

\* What a reader sees is typed and names no file twice.
LEMMA ViewTyped ==
  ASSUME TypeInv, IdInv
  PROVE  TypeOK
<1>1. Names /\ Packs
  BY DEF IdInv
<1>2. /\ ManifestOK(Latest) /\ Latest.retired = manifest.retired
      /\ Latest.layers = manifest.layers \cup Stacked(TopSeq(manifest), pending, Late)
      /\ Latest.packs = manifest.packs \cup NewPacks(pending, Late)
      /\ LayerIds(Latest) = Visible
  BY <1>1, LatestOK, LatestIs
<1>3. \A l, j \in Latest.layers : l.id = j.id => l = j
  BY <1>1, <1>2, ViewApart
<1>4. \A id \in Visible : Layer(id) \notin manifest.retired
  <2>1. \A l \in manifest.layers : Layer(l.id) \notin manifest.retired
    BY <1>1 DEF Names
  <2>2. \A k \in Late : Layer(pending[k]) \notin manifest.retired
    BY <1>1 DEF Names
  <2> QED
    BY <2>1, <2>2 DEF Visible, LayerIds
<1>5. \A l \in Latest.layers :
         /\ l.id \in Ids /\ l.run \in Ids /\ l.seq \in Nat \ {0} /\ l.nth \in Nat
         /\ Layer(l.id) \notin Latest.retired
         /\ DOMAIN l.at \subseteq Keys /\ \A k \in DOMAIN l.at : l.at[k] \in Ids
  <2> SUFFICES ASSUME NEW l \in Latest.layers
               PROVE  /\ l.id \in Ids /\ l.run \in Ids /\ l.seq \in Nat \ {0} /\ l.nth \in Nat
                      /\ Layer(l.id) \notin Latest.retired
                      /\ DOMAIN l.at \subseteq Keys /\ \A k \in DOMAIN l.at : l.at[k] \in Ids
    OBVIOUS
  <2>1. l \in LayerRec /\ l.seq > 0
    BY <1>2 DEF ManifestOK, ManifestRec, Numbered
  <2>2. l.id \in LayerIds(Latest)
    BY DEF LayerIds
  <2>3. l.at \in Ats /\ l.id \in Ids /\ l.run \in Ids /\ l.seq \in Nat /\ l.nth \in Nat
    BY <2>1 DEF LayerRec
  <2>4. DOMAIN l.at \subseteq Keys /\ \A k \in DOMAIN l.at : l.at[k] \in Ids
    BY <2>3 DEF Ats
  <2> QED
    BY <1>2, <1>4, <2>1, <2>2, <2>3, <2>4
<1>6. \A c \in {pending[k] : k \in Late} \ Placed : PackFree(c)
  BY <1>1 DEF Packs
<1>7. \A pk \in NewPacks(pending, Late) : PackFree(pk.id) /\ pk = CommitPack(pk.id)
  <2>1. \A c : CommitPack(c).id = c
    BY DEF CommitPack
  <2> QED
    BY <1>6, <2>1 DEF NewPacks
<1>8. \A pk, qk \in Latest.packs : pk.id = qk.id => pk = qk
  <2>1. \A pk, qk \in manifest.packs : pk.id = qk.id => pk = qk
    BY <1>1 DEF Packs
  <2>2. \A pk \in manifest.packs, qk \in NewPacks(pending, Late) : pk.id # qk.id
    BY <1>7 DEF PackFree, PackIds
  <2>3. \A pk, qk \in NewPacks(pending, Late) : pk.id = qk.id => pk = qk
    BY <1>7
  <2> QED
    BY <1>2, <2>1, <2>2, <2>3
<1>9. \A pk \in Latest.packs : pk.id \in Ids /\ pk.keys \subseteq Keys /\ Pack(pk.id) \notin Latest.retired
  <2>1. \A pk \in Latest.packs : pk.id \in Ids /\ pk.keys \subseteq Keys
    BY <1>2 DEF ManifestOK, ManifestRec, PackRec
  <2>2. \A pk \in manifest.packs : Pack(pk.id) \notin manifest.retired
    BY <1>1 DEF Packs
  <2>3. \A pk \in NewPacks(pending, Late) : Pack(pk.id) \notin manifest.retired
    BY <1>7 DEF PackFree
  <2> QED
    BY <1>2, <2>1, <2>2, <2>3
<1>10. /\ files \subseteq {Layer(id) : id \in Ids} \cup {Pack(id) : id \in Ids}
       /\ manifest.folded \subseteq Nat /\ manifest.adopted \subseteq Placed
       /\ named \subseteq Commits
       /\ lease \in {"free", "dead"} \cup Maintainers
  BY DEF TypeInv, Types, Things, ManifestOK, ManifestRec
<1> QED
  BY <1>3, <1>5, <1>8, <1>9, <1>10 DEF TypeOK

\* keyed.ts 1-19: a view lists no layer and no pack twice, nothing that it has retired, and
\* every part of the state has its type, for any number of commits, workers and ranges: if
\* no change of the manifest falls inside a try's look for its own runs (appendRuns).
THEOREM TypeCorrect == ~TornReads /\ Spec => []TypeOK
<1> SUFFICES ASSUME ~TornReads PROVE Spec => []TypeOK
  OBVIOUS
<1>1. Init => TypeInv /\ IdInv
  BY InitType, InitIds
<1>2. TypeInv /\ IdInv /\ [Next]_vars => TypeInv' /\ IdInv'
  BY TypeStep, IdStep
<1>3. TypeInv /\ IdInv => TypeOK
  BY ViewTyped
<1> QED
  BY <1>1, <1>2, <1>3, PTL DEF Spec

-----------------------------------------------------------------------------
(* The layers of the view are stored.                                      *)

\* A merge given up, or what it would delete, has nothing to do with the view; what a
\* maintain job is to land is not the run of a split merge anyone works on.
WorkStored(x, r) ==
    /\ r.pc = "dropAll" => \A l \in manifest.layers : l.run # r.job.plan
    /\ r.pc = "dropping" => \A id \in Visible : Layer(id) \notin r.listed
    /\ x \in Maintainers /\ Changing(r) => \A l \in r.change.newLayers :
          ~plans[l.run].there /\ \A y \in Workers : process[y].job.plan # l.run

\* A split merge whose run is in the view already is about to be dropped.
Ending(p) == \E g \in Mergers : process[g].job.plan = p /\ process[g].pc \in {"clear", "dropping"}

Stored ==
    /\ \A id \in Visible : Layer(id) \in files
    /\ \A l \in manifest.layers : l.run < next.id
    /\ \A l \in manifest.layers, p \in Plans : l.id \in IdsOf(Results(plans[p])) => l.run = p
    /\ \A l \in manifest.layers : l.run \in Plans /\ plans[l.run].there => Ending(l.run)
    /\ \A x \in Workers : WorkStored(x, process[x])

LEMMA LayerRun ==
  ASSUME TypeInv, NEW l \in manifest.layers
  PROVE  l \in LayerRec /\ l.run \in Nat /\ l.id \in Ids /\ l.run \in Ids
<1>1. l \in LayerRec
  BY DEF TypeInv, Types, ManifestOK, ManifestRec
<1> QED
  BY <1>1, Constants DEF LayerRec

\* A step that leaves the manifest alone.
LEMMA StoredStep ==
  ASSUME TypeInv, TypeInv', IdInv, Stored, manifest' = manifest, next.id <= next'.id,
         \A id \in Visible' : Layer(id) \in files' /\ (id \in Visible \/ id \in Commits),
         \A p \in Plans : \A l \in Results(plans'[p]) : l \in Results(plans[p]) \/ l.id = next.id,
         \A p \in Plans : plans'[p].there => plans[p].there \/ p = next.id,
         NEW x \in Processes, NEW r, process' = [process EXCEPT ![x] = r],
         x \in Workers => WorkStored(x, r)',
         x \in Workers => r.job.plan = process[x].job.plan \/ r.job.plan \notin Plans \/ plans[r.job.plan].there,
         x \in Mergers /\ process[x].pc \in {"clear", "dropping"} =>
            \/ r.pc \in {"clear", "dropping"} /\ r.job.plan = process[x].job.plan
            \/ ~plans'[process[x].job.plan].there
            \/ \A l \in manifest.layers : l.run # process[x].job.plan
  PROVE  Stored'
<1>1. process'[x] = r /\ \A y \in Processes \ {x} : process'[y] = process[y]
  BY DEF TypeInv, Types
<1>2. \A y \in Workers : y \in Processes
  BY Disjoint DEF Workers
<1>3. next.id \in Nat /\ next'.id \in Nat
  BY DEF TypeInv, Types
<1>4. \A l \in manifest'.layers : l.run < next'.id
  BY <1>3, LayerRun DEF Stored
<1>5. \A l \in manifest'.layers, p \in Plans : l.id \in IdsOf(Results(plans'[p])) => l.run = p
  <2> SUFFICES ASSUME NEW l \in manifest.layers, NEW p \in Plans, NEW j \in Results(plans'[p]), l.id = j.id PROVE l.run = p
    BY DEF IdsOf
  <2>1. l.id < next.id /\ l.id \in Nat
    BY LayerRun, Constants DEF IdInv, Names
  <2>2. l.id \in IdsOf(Results(plans[p]))
    BY <1>3, <2>1 DEF IdsOf
  <2> QED
    BY <2>2 DEF Stored
<1>6. ASSUME NEW l \in manifest.layers, l.run \in Plans, plans'[l.run].there PROVE Ending(l.run)'
  <2>1. l.run < next.id /\ l.run \in Nat
    BY LayerRun DEF Stored
  <2>2. plans[l.run].there
    BY <1>3, <1>6, <2>1
  <2>3. PICK g \in Mergers : process[g].job.plan = l.run /\ process[g].pc \in {"clear", "dropping"}
    BY <1>6, <2>2 DEF Stored, Ending
  <2>4. g \in Processes
    BY Disjoint
  <2>5. process'[g].job.plan = l.run /\ process'[g].pc \in {"clear", "dropping"}
    BY <1>1, <1>6, <2>3, <2>4
  <2> QED
    BY <2>5 DEF Ending
<1>7. ASSUME NEW y \in Workers PROVE WorkStored(y, process[y])'
  <2>1. CASE y = x
    BY <1>1, <1>7, <2>1
  <2>2. ASSUME y # x, NEW s, s = process[y] PROVE WorkStored(y, s)'
    <3>1. WorkStored(y, s)
      BY <1>7, <2>2 DEF Stored
    <3>2. y \in Processes
      BY <1>2, <1>7
    <3>3. s.pc = "dropping" => \A id \in Visible' : Layer(id) \notin s.listed
      <4> SUFFICES ASSUME s.pc = "dropping", NEW id \in Visible', Layer(id) \in s.listed PROVE FALSE
        OBVIOUS
      <4>1. id \in Commits
        BY <3>1 DEF WorkStored
      <4>2. ProcIds(y, s)
        BY <2>2, <3>2, ProcBelow DEF IdInv
      <4>3. PICK jd \in Plans : Layer(id) = Layer(jd)
        BY <1>7, <4>2 DEF ProcIds
      <4> QED
        BY <4>1, <4>3, Constants DEF Layer
    <3>4. y \in Maintainers /\ Changing(s) => \A l \in s.change.newLayers :
             ~plans'[l.run].there /\ \A z \in Workers : process'[z].job.plan # l.run
      <4> SUFFICES ASSUME y \in Maintainers, Changing(s), NEW l \in s.change.newLayers
                   PROVE  ~plans'[l.run].there /\ \A z \in Workers : process'[z].job.plan # l.run
        OBVIOUS
      <4>1. ~plans[l.run].there /\ \A z \in Workers : process[z].job.plan # l.run
        BY <3>1 DEF WorkStored
      <4>2. MaintainShape(s) /\ ChangeIds(y, s)
        BY <1>7, <2>2, <3>2, ProcessTyped, ProcBelow DEF ProcShape, IdInv, ProcIds
      <4>3. l.run \in Plans /\ l.run = l.id
        BY <4>2 DEF MaintainShape, LayersMerged, PacksMerged, Forgetting
      <4>4. l.run < next.id /\ l.run \in Nat
        BY <4>2, <4>3, Constants DEF ChangeIds
      <4>5. ~plans'[l.run].there
        BY <1>3, <4>1, <4>3, <4>4
      <4>6. \A z \in Workers : process'[z].job.plan # l.run
        BY <1>1, <1>2, <4>1, <4>3
      <4> QED
        BY <4>5, <4>6
    <3> QED
      BY <3>1, <3>3, <3>4 DEF WorkStored
  <2>3. CASE y # x
    <3>1. process'[y] = process[y]
      BY <1>1, <1>2, <1>7, <2>3
    <3>2. \A s : s = process[y] => WorkStored(y, s)'
      BY <2>2, <2>3
    <3> QED
      BY <3>1, <3>2
  <2> QED
    BY <2>1, <2>3
<1>8. \A l \in manifest'.layers : l.run \in Plans /\ plans'[l.run].there => Ending(l.run)'
  <2> SUFFICES ASSUME NEW l \in manifest.layers, l.run \in Plans, plans'[l.run].there PROVE Ending(l.run)'
    OBVIOUS
  <2>1. \A n : n = l.run => Ending(n)'
    BY <1>6
  <2> QED
    BY <1>6
<1> QED
  BY <1>4, <1>5, <1>7, <1>8 DEF Stored

\* Nothing is in the way of a record of what a process does next that is none of these.
LEMMA WorkPlain ==
  ASSUME NEW x, NEW r, r.pc \notin {"dropAll", "dropping", "update", "claim"}
  PROVE  WorkStored(x, r)'
BY DEF WorkStored, Changing

LEMMA StoredStill ==
  ASSUME TypeInv, TypeInv', IdInv, Stored, UNCHANGED <<manifest, pending, plans>>, next.id <= next'.id, files \subseteq files',
         NEW x \in Processes, NEW r, process' = [process EXCEPT ![x] = r],
         x \in Workers => WorkStored(x, r)',
         x \in Workers => r.job.plan = process[x].job.plan \/ r.job.plan \notin Plans \/ plans[r.job.plan].there,
         x \in Mergers /\ process[x].pc \in {"clear", "dropping"} =>
            \/ r.pc \in {"clear", "dropping"} /\ r.job.plan = process[x].job.plan
            \/ \A l \in manifest.layers : l.run # process[x].job.plan
  PROVE  Stored'
<1>1. Visible' = Visible
  BY DEF Visible, Late, LayerIds
<1>2. \A id \in Visible' : Layer(id) \in files' /\ (id \in Visible \/ id \in Commits)
  BY <1>1 DEF Stored
<1>3. /\ \A p \in Plans : \A l \in Results(plans'[p]) : l \in Results(plans[p]) \/ l.id = next.id
      /\ \A p \in Plans : plans'[p].there => plans[p].there \/ p = next.id
      /\ manifest' = manifest
  OBVIOUS
<1> QED
  BY <1>2, <1>3, StoredStep

LEMMA CommitStored ==
  ASSUME TypeInv, TypeInv', IdInv, Stored, NEW c \in Commits,
         ReadManifest(c) \/ ListPending(c) \/ SaveTree(c) \/ CommitDies(c)
  PROVE  Stored'
<1>1. Committer(c) \in Processes /\ Committer(c) \notin Workers
  BY Disjoint DEF Workers
<1>2. Committer(c) \notin Mergers
  BY Disjoint
<1>3. UNCHANGED <<manifest, pending, plans, files>> /\ next.id <= next'.id
  <2>1. next.id \in Nat /\ next \in [id : Nat, key : Nat]
    BY DEF TypeInv, Types
  <2> QED
    BY <2>1 DEF ReadManifest, ListPending, SaveTree, CommitDies
<1>4. \E r : process' = [process EXCEPT ![Committer(c)] = r]
  <2>1. CASE ReadManifest(c)
    BY <1>1, <2>1 DEF ReadManifest, TypeInv, Types
  <2> QED
    BY <2>1 DEF ListPending, SaveTree, CommitDies
<1> QED
  BY <1>1, <1>2, <1>3, <1>4, StoredStill

LEMMA AppendStored ==
  ASSUME TypeInv, TypeInv', IdInv, Stored, NEW c \in Commits, AppendRuns(c)
  PROVE  Stored'
<1>1. Committer(c) \in Processes /\ Committer(c) \notin Workers /\ Committer(c) \notin Mergers
  BY Disjoint DEF Workers
<1>2. /\ ~Seen(c) /\ Visible' = Visible \cup {c} /\ process' = [process EXCEPT ![Committer(c)] = At("save")]
      /\ manifest' = manifest /\ files' = files /\ plans' = plans /\ next' = next
  BY AppendsIs
<1>3. \A id \in Visible' : Layer(id) \in files' /\ (id \in Visible \/ id \in Commits)
  BY <1>2 DEF Seen, Stored
<1>4. next.id <= next'.id
  BY <1>2 DEF TypeInv, Types
<1> QED
  BY <1>1, <1>2, <1>3, <1>4, StoredStep

\* A step of a maintain job that takes on no merge.
LEMMA MaintainGotoStored ==
  ASSUME TypeInv, TypeInv', IdInv, Stored, NEW w \in Maintainers,
         \/ TakeLease(w) \/ SeeDeadLease(w) \/ BreakLease(w) \/ Release(w) \/ MaintainDies(w)
         \/ NoneDue(w) \/ NoPacksDue(w) \/ NextPass(w) \/ EndPasses(w)
         \/ SweepRetired(w) /\ Goto(w, "release") /\ files' = files
  PROVE  Stored'
<1>1. w \in Processes /\ w \in Workers /\ w \notin Mergers
  BY Disjoint DEF Workers
<1>2. UNCHANGED <<manifest, pending, plans, files, next>>
  BY DEF TakeLease, SeeDeadLease, BreakLease, Release, MaintainDies, NoneDue, NoPacksDue, NextPass, EndPasses, SweepRetired
<1>3. next.id <= next'.id
  BY <1>2 DEF TypeInv, Types
<1>4. ASSUME NEW pc, pc \notin {"dropAll", "dropping", "update", "claim"}, Goto(w, pc) PROVE Stored'
  <2>1. \A r : r = [process[w] EXCEPT !.pc = pc] => Stored'
    <3> SUFFICES ASSUME NEW r, r = [process[w] EXCEPT !.pc = pc] PROVE Stored'
      OBVIOUS
    <3>1. process[w] \in ProcRec
      BY <1>1, ProcessTyped
    <3>2. r.pc = pc /\ r.job = process[w].job
      BY <3>1 DEF ProcRec
    <3>3. process' = [process EXCEPT ![w] = r]
      BY <1>1, <1>4 DEF Goto, TypeInv, Types
    <3>4. WorkStored(w, r)'
      BY <1>4, <3>2, WorkPlain
    <3> QED
      BY <1>1, <1>2, <1>3, <3>2, <3>3, <3>4, StoredStill
  <2> QED
    BY <2>1
<1>5. ASSUME NEW r, r.pc \notin {"dropAll", "dropping", "update", "claim"}, r.job = Message(0, 0), process' = [process EXCEPT ![w] = r] PROVE Stored'
  <2>1. WorkStored(w, r)'
    BY <1>5, WorkPlain
  <2>2. r.job.plan \notin Plans
    BY <1>5, QueueBelow DEF Message
  <2> QED
    BY <1>1, <1>2, <1>3, <1>5, <2>1, <2>2, StoredStill
<1>6. \A pc \in Steps : At(pc).pc = pc /\ At(pc).job = Message(0, 0)
  BY AtIs
<1>7. CASE TakeLease(w) \/ SeeDeadLease(w) \/ BreakLease(w) \/ NoneDue(w) \/ NoPacksDue(w) \/ (SweepRetired(w) /\ Goto(w, "release"))
  BY <1>4, <1>7 DEF TakeLease, SeeDeadLease, BreakLease, NoneDue, NoPacksDue
<1>8. CASE Release(w) \/ MaintainDies(w)
  BY <1>5, <1>8, IdleIs DEF Release, MaintainDies
<1>9. CASE NextPass(w) \/ EndPasses(w)
  <2>1. {"layers", "sweep"} \subseteq Steps
    BY DEF Steps
  <2>2. \E pc \in {"layers", "sweep"} : process' = [process EXCEPT ![w] = At(pc)]
    <3>1. CASE NextPass(w)
      BY <1>1, <3>1 DEF NextPass, TypeInv, Types
    <3> QED
      BY <1>9, <3>1 DEF EndPasses
  <2> QED
    BY <1>5, <1>6, <2>1, <2>2
<1> QED
  BY <1>7, <1>8, <1>9

\* A maintain job begins a merge under a fresh name.
LEMMA BeginsStored ==
  ASSUME TypeInv, TypeInv', IdInv, Stored, UNCHANGED <<manifest, pending, plans>>, next.id <= next'.id, files \subseteq files',
         NEW w \in Maintainers, NEW r, process' = [process EXCEPT ![w] = r], r.pc = "update", r.job = Message(0, 0),
         next.id \in Plans, \A l \in r.change.newLayers : l.run = next.id
  PROVE  Stored'
<1>1. w \in Processes /\ w \in Workers /\ w \notin Mergers
  BY Disjoint DEF Workers
<1>2. r.job.plan = 0 /\ 0 \notin Plans
  BY QueueBelow DEF Message
<1>3. ~plans[next.id].there /\ \A p : p = next.id => ~plans'[p].there
  BY QueueBelow
<1>4. \A y \in Workers : process'[y].job.plan # next.id
  <2>1. \A y \in Workers : y \in Processes /\ process[y].job.plan < next.id /\ process[y].job.plan \in Nat /\ next.id \in Nat
    BY Disjoint, ProcBelow DEF Workers, IdInv
  <2>2. \A y \in Workers : process'[y] = IF y = w THEN r ELSE process[y]
    BY <1>1, <2>1 DEF TypeInv, Types
  <2> QED
    BY <1>2, <2>1, <2>2
<1>5. WorkStored(w, r)'
  BY <1>3, <1>4 DEF WorkStored
<1> QED
  BY <1>1, <1>2, <1>5, StoredStill

LEMMA MergeBeginsStored ==
  ASSUME TypeInv, TypeInv', IdInv, Stored, NEW w \in Maintainers, MergeLayers(w) \/ MergePacks(w)
  PROVE  Stored'
<1>1. UNCHANGED <<manifest, pending, plans>> /\ next.id <= next'.id /\ files \subseteq files' /\ next.id \in Plans
  <2>1. next.id \in Ids
    BY DEF MergeLayers, MergePacks
  <2>2. next.id \in Plans /\ next.id \in Nat /\ [next EXCEPT !.id = @ + 1].id = next.id + 1
    BY <2>1, NextId
  <2>3. next' = [next EXCEPT !.id = @ + 1] /\ files \subseteq files' /\ UNCHANGED <<manifest, pending, plans>>
    BY DEF MergeLayers, MergePacks
  <2> QED
    BY <2>2, <2>3
<1>2. CASE MergeLayers(w)
  <2>1. \A ls : MergedRun(next.id, ls).run = next.id
    BY DEF MergedRun
  <2>2. ASSUME NEW ls, NEW r, process' = [process EXCEPT ![w] = r], r.pc = "update", r.job = Message(0, 0),
               r.change.newLayers = {MergedRun(next.id, ls)}
        PROVE  Stored'
    BY <1>1, <2>1, <2>2, BeginsStored
  <2> QED
    BY <1>2, <2>2, MergeLayersIs
<1>3. CASE MergePacks(w)
  <2>1. \A S : PackLayer(next.id, S).run = next.id
    BY DEF PackLayer
  <2>2. ASSUME NEW S, NEW r, process' = [process EXCEPT ![w] = r], r.pc = "update", r.job = Message(0, 0),
               r.change.newLayers = {PackLayer(next.id, S)}
        PROVE  Stored'
    BY <1>1, <2>1, <2>2, BeginsStored
  <2> QED
    BY <1>3, <2>2, MergePacksIs
<1> QED
  BY <1>2, <1>3

LEMMA SplitMergeStored ==
  ASSUME TypeInv, TypeInv', IdInv, Stored, NEW w \in Maintainers, SplitMerge(w)
  PROVE  Stored'
<1>1. w \in Processes /\ w \in Workers /\ w \notin Mergers
  BY Disjoint DEF Workers
<1>2. next.id \in Plans /\ next.id \in Nat /\ [next EXCEPT !.id = @ + 1].id = next.id + 1
  BY NextId DEF SplitMerge
<1>3. /\ UNCHANGED <<manifest, pending, files>> /\ next' = [next EXCEPT !.id = @ + 1]
      /\ process[w].pc = "layers" /\ process' = [process EXCEPT ![w].pc = "packs", ![w].more = TRUE]
  BY DEF SplitMerge
<1>4. \E r : process' = [process EXCEPT ![w] = r] /\ r.pc = "packs" /\ r.job = process[w].job
  <2> DEFINE r == [process[w] EXCEPT !.pc = "packs", !.more = TRUE]
  <2>1. process[w] \in ProcRec
    BY <1>1, ProcessTyped
  <2>2. r.pc = "packs" /\ r.job = process[w].job
    BY <2>1 DEF ProcRec
  <2>3. process' = [process EXCEPT ![w] = r]
    BY <1>1, <1>3 DEF TypeInv, Types
  <2> HIDE DEF r
  <2> QED
    BY <2>2, <2>3
<1>5. PICK P \in PlanRec : plans' = [plans EXCEPT ![next.id] = P] /\ P.result = [i \in DOMAIN Ranges |-> {}]
  BY SplitMergeIs
<1>6. \A p \in Plans : p = next.id \/ plans'[p] = plans[p]
  BY <1>5 DEF TypeInv, Types
<1>7. plans'[next.id] = P /\ Results(P) = {}
  BY <1>2, <1>5 DEF TypeInv, Types, Results
<1>8. \A p \in Plans : \A l \in Results(plans'[p]) : l \in Results(plans[p]) \/ l.id = next.id
  BY <1>6, <1>7
<1>9. \A p \in Plans : plans'[p].there => plans[p].there \/ p = next.id
  BY <1>6
<1>10. \A id \in Visible' : Layer(id) \in files' /\ (id \in Visible \/ id \in Commits)
  BY <1>3 DEF Stored, Visible, Late, LayerIds
<1>11. ASSUME NEW r, process' = [process EXCEPT ![w] = r], r.pc = "packs", r.job = process[w].job PROVE Stored'
  <2>1. WorkStored(w, r)'
    BY <1>11, WorkPlain
  <2>2. manifest' = manifest /\ next.id <= next'.id
    BY <1>2, <1>3
  <2> QED
    BY <1>1, <1>8, <1>9, <1>10, <1>11, <2>1, <2>2, StoredStep
<1> QED
  BY <1>4, <1>11

\* A merge that is old has no consumer at work, so its run is not in the view.
LEMMA AbandonStored ==
  ASSUME TypeInv, TypeInv', IdInv, Stored, NEW w \in Maintainers, Abandon(w)
  PROVE  Stored'
<1>1. w \in Processes /\ w \in Workers /\ w \notin Mergers
  BY Disjoint DEF Workers
<1>2. PICK p \in InFlight : plans[p].old /\ process' = [process EXCEPT ![w].pc = "dropAll", ![w].job = Message(p, 0)]
  BY DEF Abandon
<1>3. p \in Plans /\ plans[p].there
  BY DEF InFlight
<1>4. \E r : process' = [process EXCEPT ![w] = r] /\ r.pc = "dropAll" /\ r.job.plan = p
  <2> DEFINE r == [process[w] EXCEPT !.pc = "dropAll", !.job = Message(p, 0)]
  <2>1. process[w] \in ProcRec
    BY <1>1, ProcessTyped
  <2>2. r.pc = "dropAll" /\ r.job.plan = p
    BY <2>1 DEF ProcRec, Message
  <2>3. process' = [process EXCEPT ![w] = r]
    BY <1>1, <1>2 DEF TypeInv, Types
  <2> HIDE DEF r
  <2> QED
    BY <2>2, <2>3
<1>5. UNCHANGED <<manifest, pending, files, plans, next>>
  BY DEF Abandon
<1>6. \A l \in manifest.layers : l.run # p
  BY <1>2, <1>3, QueueBelow DEF Stored, Ending
<1>7. ASSUME NEW r, process' = [process EXCEPT ![w] = r], r.pc = "dropAll", r.job.plan = p PROVE Stored'
  <2>1. WorkStored(w, r)'
    BY <1>5, <1>6, <1>7 DEF WorkStored, Changing
  <2>2. next.id <= next'.id
    BY <1>5 DEF TypeInv, Types
  <2> QED
    BY <1>1, <1>3, <1>5, <1>7, <2>1, <2>2, StoredStill
<1> QED
  BY <1>4, <1>7

\* What is retired is not in the view.
LEMMA SweepStored ==
  ASSUME TypeInv, TypeInv', IdInv, Stored, NEW w \in Maintainers, SweepRetired(w)
  PROVE  Stored'
<1>1. w \in Processes /\ w \in Workers /\ w \notin Mergers
  BY Disjoint DEF Workers
<1>2. UNCHANGED <<manifest, pending, plans, next>>
  BY DEF SweepRetired
<1>3. ASSUME NEW r, process' = [process EXCEPT ![w] = r], files' = files \ manifest.retired, r.pc = "update", r.job = Message(0, 0),
             Forgetting(r.change)
      PROVE  Stored'
  <2>1. WorkStored(w, r)'
    BY <1>3 DEF WorkStored, Forgetting
  <2>2. r.job.plan \notin Plans
    BY <1>3, QueueBelow DEF Message
  <2>3. Visible' = Visible
    BY <1>2 DEF Visible, Late, LayerIds
  <2>4. \A id \in Visible : Layer(id) \notin manifest.retired
    BY DEF IdInv, Names, Visible, LayerIds
  <2>5. \A id \in Visible' : Layer(id) \in files' /\ (id \in Visible \/ id \in Commits)
    BY <1>3, <2>3, <2>4 DEF Stored
  <2>6. /\ \A p \in Plans : \A l \in Results(plans'[p]) : l \in Results(plans[p]) \/ l.id = next.id
        /\ \A p \in Plans : plans'[p].there => plans[p].there \/ p = next.id
        /\ manifest' = manifest
    BY <1>2
  <2>7. next.id <= next'.id
    BY <1>2 DEF TypeInv, Types
  <2> QED
    BY <1>1, <1>3, <2>1, <2>2, <2>5, <2>6, <2>7, StoredStep
<1> QED
  BY <1>3, SweepIs, MaintainGotoStored

\* A merger's step to another, while its run is not in the view.
LEMMA MergeGotoStored ==
  ASSUME TypeInv, TypeInv', IdInv, Stored, NEW g \in Mergers, UNCHANGED <<manifest, pending, plans, next>>, files \subseteq files',
         NEW r, process' = [process EXCEPT ![g] = r], process[g].pc \notin {"clear", "dropping"},
         r.job = process[g].job \/ r.job = Message(0, 0) \/ plans[r.job.plan].there,
         r.pc = "dropAll" => \A l \in manifest.layers : l.run # r.job.plan,
         r.pc = "dropping" => r.listed = {}
  PROVE  Stored'
<1>1. g \in Processes /\ g \in Workers /\ g \notin Maintainers
  BY Disjoint DEF Workers
<1>2. WorkStored(g, r)'
  BY <1>1 DEF WorkStored
<1>3. Message(0, 0).plan \notin Plans
  BY QueueBelow DEF Message
<1>4. next.id <= next'.id
  BY DEF TypeInv, Types
<1> QED
  BY <1>1, <1>2, <1>3, <1>4, StoredStill

\* A range's job is done again only while its run is not in the view.
LEMMA NotThere ==
  ASSUME TypeInv, ~LateRepeats, NEW p, MayRepeat(p)
  PROVE  \A l \in manifest.layers : l.run # p
BY LatestOK DEF MayRepeat

LEMMA MergeJobStored ==
  ASSUME TypeInv, TypeInv', IdInv, Stored, ~LateRepeats, NEW g \in Mergers,
         (\E m \in queue : StartRange(g, m)) \/ CheckInputs(g) \/ CountRanges(g) \/ MergeSwap(g) \/ MergeDies(g)
  PROVE  Stored'
<1>1. g \in Processes /\ g \in Workers /\ process[g] \in ProcRec
  BY Disjoint, ProcessTyped DEF Workers
<1>2. UNCHANGED <<manifest, pending, plans, next>> /\ files' = files
  BY DEF StartRange, CheckInputs, CountRanges, MergeSwap, MergeDies
<1>3. ASSUME NEW pc, pc \in {"write", "dropAll", "swap", "dropping"}, Goto(g, pc), process[g].pc \in {"range", "count", "results"},
             pc = "dropAll" => \A l \in manifest.layers : l.run # process[g].job.plan
      PROVE  Stored'
  <2>1. process[g].pc # "idle" /\ process[g].pc \notin {"clear", "dropping"}
    BY <1>3
  <2>2. process[g].listed = {}
    BY <1>1, <1>3, ProcBelow DEF IdInv, ProcIds
  <2>3. \A r : r = [process[g] EXCEPT !.pc = pc] => Stored'
    <3> SUFFICES ASSUME NEW r, r = [process[g] EXCEPT !.pc = pc] PROVE Stored'
      OBVIOUS
    <3>1. process' = [process EXCEPT ![g] = r] /\ r.pc = pc /\ r.job = process[g].job /\ r.listed = process[g].listed
      <4>1. pc \in {"write", "dropAll", "count", "swap", "results", "dropping"} /\ Goto(g, pc)
        BY <1>3
      <4> QED
        BY <2>1, <4>1, MergeGotoIs
    <3> QED
      BY <1>2, <1>3, <2>1, <2>2, <3>1, MergeGotoStored
  <2> QED
    BY <2>3
<1>4. ASSUME process' = [process EXCEPT ![g] = Idle], process[g].pc \notin {"clear", "dropping"} PROVE Stored'
  BY <1>2, <1>4, IdleIs, MergeGotoStored
<1>5. ASSUME NEW m \in queue, StartRange(g, m) PROVE Stored'
  <2>1. process[g].pc \notin {"clear", "dropping"}
    BY <1>5 DEF StartRange
  <2>2. ASSUME NEW r, process' = [process EXCEPT ![g] = r], plans[m.plan].there, r.pc = "range", r.job = m PROVE Stored'
    BY <1>2, <2>1, <2>2, MergeGotoStored
  <2> QED
    BY <1>4, <1>5, <2>1, <2>2, StartRangeIs
<1>6. CASE CheckInputs(g)
  <2>1. process[g].pc = "range" /\ (Goto(g, "write") \/ Goto(g, "dropAll")) /\ \A l \in manifest.layers : l.run # process[g].job.plan
    BY <1>6, NotThere DEF CheckInputs
  <2> QED
    BY <1>3, <2>1
<1>7. CASE CountRanges(g)
  <2>1. process[g].pc = "count" /\ (Goto(g, "swap") \/ process' = [process EXCEPT ![g] = Idle])
    BY <1>7 DEF CountRanges
  <2> QED
    BY <1>3, <1>4, <2>1
<1>8. CASE MergeSwap(g)
  <2>1. process[g].pc = "results"
    BY <1>8 DEF MergeSwap
  <2>2. CASE PlanOf(g).done # DOMAIN Ranges
    BY <1>3, <1>8, <2>1, <2>2 DEF MergeSwap
  <2>3. ASSUME NEW r, process' = [process EXCEPT ![g] = r], r.pc = "update", r.job = process[g].job PROVE Stored'
    BY <1>2, <2>1, <2>3, MergeGotoStored
  <2> QED
    BY <1>8, <2>2, <2>3, MergeSwapIs
<1>9. CASE MergeDies(g)
  <2>1. process' = [process EXCEPT ![g] = Idle] /\ \A l \in manifest.layers : l.run # process[g].job.plan
    BY <1>9, NotThere DEF MergeDies
  <2>2. WorkStored(g, Idle)' /\ Idle.job.plan \notin Plans
    BY IdleIs, WorkPlain, QueueBelow DEF Message
  <2>3. next.id <= next'.id
    BY <1>2 DEF TypeInv, Types
  <2> QED
    BY <1>1, <1>2, <2>1, <2>2, <2>3, StoredStill
<1> QED
  BY <1>5, <1>6, <1>7, <1>8, <1>9

\* A step of a range's job that changes its plan.
LEMMA MergePlanStored ==
  ASSUME TypeInv, TypeInv', IdInv, Stored, NEW g \in Mergers, ClaimSwap(g) \/ MergeRange(g)
  PROVE  Stored'
<1>1. g \in Processes /\ g \in Workers /\ g \notin Maintainers
  BY Disjoint DEF Workers
<1>2. UNCHANGED <<manifest, pending>> /\ process[g].pc \in {"swap", "write"} /\ files \subseteq files'
  BY DEF ClaimSwap, MergeRange
<1>3. Visible' = Visible
  BY <1>2 DEF Visible, Late, LayerIds
<1>4. \A id \in Visible' : Layer(id) \in files' /\ (id \in Visible \/ id \in Commits)
  BY <1>2, <1>3 DEF Stored
<1>5. ASSUME NEW pc \in {"count", "results"}, Goto(g, pc), next.id <= next'.id,
             \A p \in Plans : \A l \in Results(plans'[p]) : l \in Results(plans[p]) \/ l.id = next.id,
             \A p \in Plans : plans'[p].there => plans[p].there
      PROVE  Stored'
  <2>1. \A r : r = [process[g] EXCEPT !.pc = pc] => Stored'
    <3> SUFFICES ASSUME NEW r, r = [process[g] EXCEPT !.pc = pc] PROVE Stored'
      OBVIOUS
    <3>1. process' = [process EXCEPT ![g] = r] /\ r.pc = pc /\ r.job = process[g].job
      <4>1. pc \in {"write", "dropAll", "count", "swap", "results", "dropping"} /\ Goto(g, pc) /\ process[g].pc # "idle"
        BY <1>2, <1>5
      <4> QED
        BY <4>1, MergeGotoIs
    <3>2. WorkStored(g, r)'
      BY <1>1, <1>5, <3>1 DEF WorkStored
    <3>3. manifest' = manifest /\ process[g].pc \notin {"clear", "dropping"}
      BY <1>2
    <3> QED
      BY <1>1, <1>4, <1>5, <3>1, <3>2, <3>3, StoredStep
  <2> QED
    BY <2>1
<1>6. CASE MergeRange(g)
  <2>1. Goto(g, "count")
    BY <1>6 DEF MergeRange
  <2>2. ASSUME NEW p \in Plans, NEW i \in DOMAIN Ranges, NEW P \in PlanRec, plans' = [plans EXCEPT ![p] = P], P.there = plans[p].there,
               \A j \in DOMAIN Ranges : j # i => P.result[j] = plans[p].result[j],
               \A l \in P.result[i] : l.id = next.id
        PROVE  (\A q \in Plans : \A l \in Results(plans'[q]) : l \in Results(plans[q]) \/ l.id = next.id)
               /\ \A q \in Plans : plans'[q].there => plans[q].there
    <3>1. plans'[p] = P /\ \A q \in Plans : q # p => plans'[q] = plans[q]
      BY <2>2 DEF TypeInv, Types
    <3>2. \A l \in Results(P) : l \in Results(plans[p]) \/ l.id = next.id
      BY <2>2 DEF Results
    <3> QED
      BY <2>2, <3>1, <3>2
  <2> DEFINE p == process[g].job.plan
             i == process[g].job.range
             at == Merged(plans[p].layers, Ranges[i])
  <2>3. p \in Plans /\ i \in DOMAIN Ranges /\ next.id \in Plans
    BY <1>6, MergeRangeIs
  <2>4. \E P \in PlanRec : /\ plans' = [plans EXCEPT ![p] = P] /\ P.there = plans[p].there
                           /\ \A j \in DOMAIN Ranges : j # i => P.result[j] = plans[p].result[j]
                           /\ \/ DOMAIN at = {} /\ P.result[i] = {} /\ next' = next
                              \/ /\ DOMAIN at # {} /\ P.result[i] = {RangeRun(next.id, p, i)}
                                 /\ next' = [next EXCEPT !.id = @ + 1] /\ RangeRun(next.id, p, i).id = next.id
    BY <1>6, MergeRangeIs
  <2>5. [next EXCEPT !.id = @ + 1].id = next.id + 1 /\ next.id \in Nat
    BY <2>3, NextId, Constants
  <2> HIDE DEF p, i, at
  <2>6. next.id <= next'.id
    <3>1. next' = next \/ next' = [next EXCEPT !.id = @ + 1]
      BY <2>4
    <3>2. next'.id = next.id \/ next'.id = next.id + 1
      BY <2>5, <3>1
    <3> QED
      BY <2>5, <3>2
  <2>7. (\A q \in Plans : \A l \in Results(plans'[q]) : l \in Results(plans[q]) \/ l.id = next.id)
        /\ \A q \in Plans : plans'[q].there => plans[q].there
    <3>1. PICK P \in PlanRec : /\ plans' = [plans EXCEPT ![p] = P] /\ P.there = plans[p].there
                               /\ \A j \in DOMAIN Ranges : j # i => P.result[j] = plans[p].result[j]
                               /\ \A l \in P.result[i] : l.id = next.id
      BY <2>4
    <3> QED
      BY <2>2, <2>3, <3>1
  <2> QED
    BY <1>5, <2>1, <2>6, <2>7
<1>7. CASE ClaimSwap(g) /\ ~PlanOf(g).claimed
  <2>1. next.id <= next'.id
    BY <1>7 DEF ClaimSwap, TypeInv, Types
  <2>2. ASSUME NEW p, NEW P \in PlanRec, plans' = [plans EXCEPT ![p] = P], p \in Plans, P.there = plans[p].there, P.result = plans[p].result
        PROVE  (\A q \in Plans : \A l \in Results(plans'[q]) : l \in Results(plans[q]) \/ l.id = next.id)
               /\ \A q \in Plans : plans'[q].there => plans[q].there
    <3>1. plans'[p] = P /\ \A q \in Plans : q # p => plans'[q] = plans[q]
      BY <2>2 DEF TypeInv, Types
    <3>2. Results(P) = Results(plans[p])
      BY <2>2 DEF Results
    <3> QED
      BY <2>2, <3>1, <3>2
  <2>3. Goto(g, "results") /\ (\A q \in Plans : \A l \in Results(plans'[q]) : l \in Results(plans[q]) \/ l.id = next.id)
        /\ \A q \in Plans : plans'[q].there => plans[q].there
    <3>1. \E P \in PlanRec : \E p \in Plans : plans' = [plans EXCEPT ![p] = P] /\ P.there = plans[p].there /\ P.result = plans[p].result
      BY <1>7, ClaimSwapIs
    <3>2. Goto(g, "results")
      BY <1>7, ClaimSwapIs
    <3> QED
      BY <2>2, <3>1, <3>2
  <2> QED
    BY <1>5, <2>1, <2>3
<1>8. CASE ClaimSwap(g) /\ PlanOf(g).claimed
  <2>1. process' = [process EXCEPT ![g] = Idle] /\ UNCHANGED <<manifest, pending, plans, next>> /\ process[g].pc = "swap"
    BY <1>8 DEF ClaimSwap
  <2> QED
    BY <1>2, <2>1, IdleIs, MergeGotoStored
<1> QED
  BY <1>6, <1>7, <1>8

\* What a merge given up deletes is not in the view.
LEMMA ListMergeStored ==
  ASSUME TypeInv, TypeInv', IdInv, Stored, NEW x \in Workers, ListMerge(x)
  PROVE  Stored'
<1> DEFINE p == process[x].job.plan
           r == [process[x] EXCEPT !.pc = "dropping", !.listed = {Layer(l.id) : l \in Results(plans[p])}]
<1>1. x \in Processes /\ process[x] \in ProcRec /\ ProcShape(x, process[x])
  BY Disjoint, ProcessTyped DEF Workers
<1>2. process[x].pc = "dropAll" /\ UNCHANGED <<manifest, pending, files, plans, next>>
  BY DEF ListMerge
<1>3. process' = [process EXCEPT ![x] = r]
  BY <1>1 DEF ListMerge, PlanOf, TypeInv, Types
<1>4. r.pc = "dropping" /\ r.job = process[x].job /\ r.listed = {Layer(l.id) : l \in Results(plans[p])}
  BY <1>1 DEF ProcRec
<1>5. p \in Plans
  BY <1>1, <1>2 DEF Workers, ProcShape, MaintainShape, MergeShape
<1>6. \A id \in Visible : Layer(id) \notin r.listed
  <2> SUFFICES ASSUME NEW id \in Visible, Layer(id) \in r.listed PROVE FALSE
    OBVIOUS
  <2>1. PICK j \in Results(plans[p]) : Layer(id) = Layer(j.id)
    BY <1>4
  <2>2. id = j.id /\ id \in Plans
    BY <1>5, <2>1, ResultsIs DEF Layer
  <2>3. id \notin {pending[k] : k \in Late}
    BY <2>2, NamesApart, Constants DEF IdInv
  <2>4. PICK l \in manifest.layers : l.id = id
    BY <2>3 DEF Visible, LayerIds
  <2>5. l.run = p
    BY <1>5, <2>2, <2>4 DEF Stored, IdsOf
  <2> QED
    BY <1>2, <2>5 DEF Stored, WorkStored
<1> HIDE DEF r, p
<1>7. \A s : s = r => Stored'
  <2> SUFFICES ASSUME NEW s, s = r PROVE Stored'
    OBVIOUS
  <2>1. Visible' = Visible
    BY <1>2 DEF Visible, Late, LayerIds
  <2>2. WorkStored(x, s)'
    BY <1>4, <1>6, <2>1 DEF WorkStored, Changing
  <2>3. next.id <= next'.id
    BY <1>2 DEF TypeInv, Types
  <2>4. process' = [process EXCEPT ![x] = s] /\ s.job = process[x].job /\ process[x].pc \notin {"clear", "dropping"}
    BY <1>2, <1>3, <1>4
  <2> QED
    BY <1>1, <1>2, <2>2, <2>3, <2>4, StoredStill
<1> QED
  BY <1>7

\* What was listed goes with the merge, and nothing of it is in the view.
LEMMA DropMergeStored ==
  ASSUME TypeInv, TypeInv', IdInv, Stored, NEW x \in Workers, DropMerge(x)
  PROVE  Stored'
<1> DEFINE p == process[x].job.plan
           r == At(IF x \in Maintainers THEN "layers" ELSE "idle")
<1>1. /\ process[x].pc = "dropping" /\ plans' = [plans EXCEPT ![p] = NoPlan] /\ files' = files \ process[x].listed
      /\ process' = [process EXCEPT ![x] = r] /\ UNCHANGED <<manifest, pending, next>>
  BY DEF DropMerge
<1>2. x \in Processes /\ ProcShape(x, process[x])
  BY Disjoint, ProcessTyped DEF Workers
<1>3. p \in Plans
  BY <1>1, <1>2 DEF Workers, ProcShape, MaintainShape, MergeShape
<1>4. r.pc \in {"layers", "idle"} /\ r.job = Message(0, 0)
  BY DEF At
<1>5. r.job.plan \notin Plans
  BY <1>4, QueueBelow DEF Message
<1> HIDE DEF p, r
<1>6. plans'[p] = NoPlan /\ \A q \in Plans : q # p => plans'[q] = plans[q]
  BY <1>1, <1>3 DEF TypeInv, Types
<1>7. /\ \A q \in Plans : \A l \in Results(plans'[q]) : l \in Results(plans[q]) \/ l.id = next.id
      /\ \A q \in Plans : plans'[q].there => plans[q].there \/ q = next.id
      /\ ~plans'[p].there
  BY <1>6, NoPlanIs
<1>8. Visible' = Visible
  BY <1>1 DEF Visible, Late, LayerIds
<1>9. \A id \in Visible' : Layer(id) \in files' /\ (id \in Visible \/ id \in Commits)
  BY <1>1, <1>8 DEF Stored, WorkStored
<1>10. manifest' = manifest /\ next.id <= next'.id
  BY <1>1 DEF TypeInv, Types
<1>11. ~plans'[process[x].job.plan].there
  BY <1>7 DEF p
<1>12. \A s : s = r => Stored'
  <2> SUFFICES ASSUME NEW s, s = r PROVE Stored'
    OBVIOUS
  <2>1. WorkStored(x, s)'
    BY <1>4, WorkPlain
  <2>2. process' = [process EXCEPT ![x] = s] /\ s.job.plan \notin Plans
    BY <1>1, <1>5
  <2> QED
    BY <1>2, <1>7, <1>9, <1>10, <1>11, <2>1, <2>2, StoredStep
<1> QED
  BY <1>12

LEMMA ReadNewestStored ==
  ASSUME TypeInv, TypeInv', IdInv, Stored, NEW x \in Processes, ReadNewest(x)
  PROVE  Stored'
<1> DEFINE q == process[x]
<1>1. q.pc = "update" /\ UNCHANGED <<manifest, pending, plans, next>>
  BY DEF ReadNewest
<1>2. q \in ProcRec /\ ProcShape(x, q) /\ (x \in Workers => q.listed = {})
  BY <1>1, ProcessTyped, ProcBelow DEF IdInv, ProcIds
<1>3. \E r : process' = [process EXCEPT ![x] = r] /\ r.job = q.job /\ (r.pc \in {"done", "packs", "pass", "release", "dropping"} \/ (r.pc = "claim" /\ r.change = q.change))
             /\ (r.pc = "dropping" => r.listed = q.listed)
  <2>1. CASE Applies(Latest, process[x].change)
    <3> DEFINE r == [q EXCEPT !.pc = "claim", !.base.seq = manifest.seq, !.listed = DOMAIN pending]
    <3>1. process' = [process EXCEPT ![x] = r]
      BY <2>1 DEF ReadNewest, TypeInv, Types
    <3>2. r.pc = "claim" /\ r.change = q.change /\ r.job = q.job
      BY <1>2 DEF ProcRec
    <3> HIDE DEF r
    <3> QED
      BY <3>1, <3>2
  <2>2. CASE ~Applies(Latest, process[x].change)
    <3> DEFINE r == [q EXCEPT !.pc = q.then]
    <3>1. process' = [process EXCEPT ![x].pc = q.then]
      BY <2>2 DEF ReadNewest, Goto
    <3>2. process' = [process EXCEPT ![x] = r]
      BY <3>1 DEF TypeInv, Types
    <3>3. r.pc = q.then /\ r.job = q.job /\ r.listed = q.listed
      BY <1>2 DEF ProcRec
    <3>4. r.pc \in {"done", "packs", "pass", "release", "dropping"}
      BY <1>1, <1>2, <3>3, ThenShaped
    <3> HIDE DEF r
    <3> QED
      BY <3>2, <3>3, <3>4
  <2> QED
    BY <2>1, <2>2
<1>4. \A id \in Visible' : Layer(id) \in files' /\ (id \in Visible \/ id \in Commits)
  <2>1. Visible' = Visible
    BY <1>1 DEF Visible, Late, LayerIds
  <2>2. ASSUME NEW id \in Visible, files' = files \ Outputs(q.change) PROVE Layer(id) \in files'
    <3> SUFFICES ASSUME Layer(id) \in Outputs(q.change) PROVE FALSE
      BY <2>2 DEF Stored
    <3>1. id \in IdsOf(q.change.newLayers) /\ x \in Workers
      BY <1>1, OutputsIs
    <3>2. ChangeIds(x, q)
      BY <1>1, <3>1, ProcBelow DEF IdInv, ProcIds, Changing
    <3> QED
      BY <3>1, <3>2 DEF ChangeIds, IdsOf, Unlisted
  <2>3. files' = files \/ files' = files \ Outputs(q.change)
    BY DEF ReadNewest
  <2> QED
    BY <2>1, <2>2, <2>3 DEF Stored
<1>5. ASSUME NEW r, process' = [process EXCEPT ![x] = r], r.job = q.job,
             r.pc \in {"done", "packs", "pass", "release", "dropping"} \/ (r.pc = "claim" /\ r.change = q.change),
             r.pc = "dropping" => r.listed = q.listed
      PROVE  Stored'
  <2>1. process'[x] = r /\ \A y \in Processes \ {x} : process'[y] = process[y]
    BY <1>5 DEF TypeInv, Types
  <2>2. \A y \in Workers : process'[y].job = process[y].job
    BY <1>5, <2>1, Disjoint DEF Workers
  <2>3. x \in Workers => WorkStored(x, r)'
    <3> HAVE x \in Workers
    <3>1. WorkStored(x, q)
      BY DEF Stored
    <3>2. x \in Maintainers /\ Changing(r) => \A l \in r.change.newLayers :
            ~plans'[l.run].there /\ \A y \in Workers : process'[y].job.plan # l.run
      BY <1>1, <1>5, <2>2, <3>1 DEF WorkStored, Changing
    <3> QED
      BY <1>2, <1>5, <3>2 DEF WorkStored
  <2>4. /\ \A p \in Plans : \A l \in Results(plans'[p]) : l \in Results(plans[p]) \/ l.id = next.id
        /\ \A p \in Plans : plans'[p].there => plans[p].there \/ p = next.id
        /\ manifest' = manifest
    BY <1>1
  <2>5. next.id <= next'.id
    BY <1>1 DEF TypeInv, Types
  <2> QED
    BY <1>1, <1>4, <1>5, <2>3, <2>4, <2>5, StoredStep
<1> HIDE DEF q
<1> QED
  BY <1>3, <1>5

LEMMA RetryStored ==
  ASSUME TypeInv, TypeInv', IdInv, Stored, NEW x \in Processes, ClaimNumber(x), manifest.seq # process[x].base.seq
  PROVE  Stored'
<1> DEFINE q == process[x]
           r == [q EXCEPT !.pc = "update", !.base = EmptyManifest, !.listed = {}]
<1>1. /\ q.pc = "claim" /\ process' = [process EXCEPT ![x] = r]
      /\ UNCHANGED <<manifest, pending, files, plans, queue, named, next>>
  BY DEF ClaimNumber, TypeInv, Types
<1>2. q \in ProcRec
  BY ProcessTyped
<1>3. r.pc = "update" /\ r.change = q.change /\ r.job = q.job
  BY <1>2 DEF ProcRec
<1> HIDE DEF r
<1>4. process'[x] = r /\ \A y \in Processes \ {x} : process'[y] = process[y]
  BY <1>1 DEF TypeInv, Types
<1>5. \A y \in Workers : process'[y].job = process[y].job
  BY <1>3, <1>4, Disjoint DEF Workers
<1>6. \A s : s = r => Stored'
  <2> SUFFICES ASSUME NEW s, s = r PROVE Stored'
    OBVIOUS
  <2>1. x \in Workers => WorkStored(x, s)'
    BY <1>1, <1>3, <1>5 DEF Stored, WorkStored, Changing
  <2>2. next.id <= next'.id
    BY <1>1 DEF TypeInv, Types
  <2>3. process' = [process EXCEPT ![x] = s] /\ s.job.plan = process[x].job.plan /\ process[x].pc \notin {"clear", "dropping"}
    BY <1>1, <1>3
  <2> QED
    BY <1>1, <2>1, <2>2, <2>3, StoredStill
<1> QED
  BY <1>6

LEMMA ClearPendingStored ==
  ASSUME TypeInv, TypeInv', IdInv, Stored, NEW x \in Processes, ClearPending(x)
  PROVE  Stored'
<1> DEFINE q == process[x]
           r == [q EXCEPT !.pc = q.then, !.base = EmptyManifest, !.listed = {}]
<1>1. /\ q.pc = "clear" /\ process' = [process EXCEPT ![x] = r]
      /\ manifest' = manifest /\ files' = files /\ plans' = plans /\ next' = next
  BY DEF ClearPending, TypeInv, Types
<1>2. Visible' = Visible
  BY ClearsIs DEF IdInv
<1>3. q \in ProcRec /\ ProcShape(x, q)
  BY ProcessTyped
<1>4. r.pc = q.then /\ r.listed = {} /\ r.job = q.job
  BY <1>3 DEF ProcRec
<1>5. r.pc \in {"done", "packs", "pass", "release", "dropping"}
  BY <1>1, <1>3, <1>4, ThenShaped
<1>6. x \in Mergers => r.pc = "dropping"
  BY <1>1, <1>3, <1>4 DEF ProcShape, MergeShape
<1> HIDE DEF r
<1>7. \A s : s = r => Stored'
  <2> SUFFICES ASSUME NEW s, s = r PROVE Stored'
    OBVIOUS
  <2>1. WorkStored(x, s)'
    BY <1>4, <1>5 DEF WorkStored, Changing
  <2>2. \A id \in Visible' : Layer(id) \in files' /\ (id \in Visible \/ id \in Commits)
    BY <1>1, <1>2 DEF Stored
  <2>3. next.id <= next'.id
    BY <1>1 DEF TypeInv, Types
  <2>4. /\ process' = [process EXCEPT ![x] = s] /\ s.job.plan = process[x].job.plan
        /\ x \in Mergers => s.pc = "dropping"
    BY <1>1, <1>4, <1>6
  <2>5. /\ \A p \in Plans : \A l \in Results(plans'[p]) : l \in Results(plans[p]) \/ l.id = next.id
        /\ \A p \in Plans : plans'[p].there => plans[p].there \/ p = next.id
    BY <1>1
  <2> QED
    BY <1>1, <2>1, <2>2, <2>3, <2>4, <2>5, StoredStep
<1> QED
  BY <1>7

\* Of the layers of a manifest made by a change, each was there, was a commit's, or is new.
LEMMA LandedLayers ==
  ASSUME TypeInv, Names, NEW x \in Processes, Matching(x), manifest' = Claimed(x), NEW l \in manifest'.layers
  PROVE  \/ l \in manifest.layers
         \/ l.id \in Commits /\ l.run = l.id
         \/ \E n \in process[x].change.newLayers : l.id = n.id /\ l.run = n.run
<1> DEFINE ch == process[x].change
           v == WithPending(manifest, process[x].listed)
           new(n) == Appended(Kept(v, ch), n, NewSeq(v, ch, n))
           ks == process[x].listed \ manifest.folded
<1>1. /\ manifest'.layers = Kept(v, ch) \cup {new(n) : n \in ch.newLayers}
      /\ \A n \in ch.newLayers : new(n).id = n.id /\ new(n).run = n.run
  BY ClaimedIs
<1>2. v.layers = manifest.layers \cup Stacked(TopSeq(manifest), pending, ks) /\ ks \subseteq Late
  BY ListedIs
<1>3. IsFiniteSet(ks) /\ ks \subseteq Nat /\ (\A k \in ks : pending[k] \in Commits) /\ TopSeq(manifest) \in Nat
  BY <1>2, NamesApart, LatestOK, LatestIs, FS_Subset
<1>4. Kept(v, ch) \subseteq v.layers
  BY DEF Kept
<1> HIDE DEF ch, v, ks, new
<1>5. CASE l \in Stacked(TopSeq(manifest), pending, ks)
  BY <1>3, <1>5, StackedIs
<1>6. CASE l \in {new(n) : n \in ch.newLayers}
  BY <1>1, <1>6 DEF ch
<1> QED
  BY <1>1, <1>2, <1>4, <1>5, <1>6

\* What a layer about to be listed means to the workers: no one is about to drop its
\* merge, or to delete it.
LEMMA LandingRun ==
  ASSUME TypeInv, IdInv, Stored, NEW x \in Processes, Matching(x), NEW n \in process[x].change.newLayers
  PROVE  /\ x \in Workers /\ n.run \in Plans /\ n.run \in Nat /\ n.run < next.id
         /\ \A y \in Workers : process[y].pc \in {"dropAll", "dropping"} => process[y].job.plan # n.run
         /\ \A y \in Workers : process[y].pc = "dropping" => Layer(n.id) \notin process[y].listed
         /\ \A p \in Plans : n.id \in IdsOf(Results(plans[p])) => n.run = p
         /\ plans[n.run].there => x \in Mergers /\ process[x].job.plan = n.run
<1> DEFINE r == process[x]
<1>1. x \in Workers /\ ChangeIds(x, r) /\ n.id \in Plans /\ LiveChange(r.change) /\ n.id < next.id
  BY ChangeOf
<1>2. Changing(r) /\ ProcShape(x, r) /\ r.job.plan < next.id
  BY ProcessTyped, ProcBelow DEF IdInv, Changing, Matching
<1>3. \A y \in Workers : process[y].pc = "dropping" /\ Layer(n.id) \in process[y].listed =>
        y # x /\ x \in Mergers /\ r.job.plan = process[y].job.plan
  <2> SUFFICES ASSUME NEW y \in Workers, process[y].pc = "dropping", Layer(n.id) \in process[y].listed
               PROVE  y # x /\ x \in Mergers /\ r.job.plan = process[y].job.plan
    OBVIOUS
  <2>1. y # x
    BY <1>2 DEF Changing
  <2>2. Pair(y, x)
    BY <1>1, <2>1 DEF IdInv, Ownership
  <2> QED
    BY <1>2, <2>1, <2>2 DEF Pair
<1>4. CASE x \in Maintainers
  <2>1. n.run = n.id
    BY <1>2, <1>4 DEF ProcShape, MaintainShape, LayersMerged, PacksMerged, Forgetting
  <2>2. ~plans[n.run].there /\ \A y \in Workers : process[y].job.plan # n.run
    BY <1>1, <1>2, <1>4 DEF Stored, WorkStored
  <2>3. x \notin Mergers
    BY <1>4, Disjoint
  <2>4. \A p \in Plans : n.id \notin IdsOf(Results(plans[p]))
    BY <1>1, <2>3 DEF ChangeIds, IdsOf
  <2> QED
    BY <1>1, <1>3, <2>1, <2>2, <2>3, <2>4, Constants
<1>5. CASE x \in Mergers
  <2>1. n.run = r.job.plan /\ r.job.plan \in Plans
    BY <1>2, <1>5 DEF ProcShape, MergeShape, RunSwapped, Changing
  <2>2. LivePlan(plans[n.run])
    BY <1>1, <1>5, <2>1 DEF ChangeIds, LiveChange, LivePlan
  <2>3. \A y \in Workers : process[y].pc \in {"dropAll", "dropping"} => process[y].job.plan # n.run
    <3> SUFFICES ASSUME NEW y \in Workers, process[y].pc \in {"dropAll", "dropping"}, process[y].job.plan = n.run PROVE FALSE
      OBVIOUS
    <3>1. y \in Processes
      BY Disjoint DEF Workers
    <3>2. ProcIds(y, process[y])
      BY <3>1 DEF IdInv, Ownership
    <3>3. plans[n.run].old
      BY <2>2, <3>2 DEF ProcIds, Dropping
    <3> QED
      BY <1>5, <2>1, <3>3, QueueBelow
  <2>4. \A p \in Plans : n.id \in IdsOf(Results(plans[p])) => n.run = p
    BY <1>1, <2>1 DEF ChangeIds, IdsOf
  <2> QED
    BY <1>1, <1>2, <1>3, <1>5, <2>1, <2>3, <2>4, Constants
<1> QED
  BY <1>1, <1>4, <1>5 DEF Workers

LEMMA WinStored ==
  ASSUME TypeInv, TypeInv', IdInv, Stored, NEW x \in Processes, Matching(x), manifest' = Claimed(x), Goto(x, "clear"),
         UNCHANGED <<pending, files, plans, queue, named, next>>
  PROVE  Stored'
<1> DEFINE ch == process[x].change
           r == [process[x] EXCEPT !.pc = "clear"]
<1>1. r.pc = "clear" /\ r.job = process[x].job /\ process' = [process EXCEPT ![x] = r] /\ process[x] \in ProcRec
  <2>1. "clear" \in Steps
    BY DEF Steps
  <2> QED
    BY <2>1, GotoIs, ProcessTyped
<1> HIDE DEF r
<1>2. process'[x] = r /\ \A y \in Processes \ {x} : process'[y] = process[y]
  BY <1>1 DEF TypeInv, Types
<1>3. \A y \in Workers : y \in Processes /\ process'[y].job = process[y].job
  BY <1>1, <1>2, Disjoint DEF Workers
<1>4. \A id : id \in Visible' => id \in Visible \/ id \in IdsOf(ch.newLayers)
  BY WinNames
<1>5. \A n \in ch.newLayers : Layer(n.id) \in files
  BY ChangeOf
<1>6. \A id \in Visible' : Layer(id) \in files'
  BY <1>4, <1>5 DEF Stored, IdsOf
<1>7. Names
  BY DEF IdInv
<1>8. \A l \in manifest'.layers :
         \/ l \in manifest.layers
         \/ l.id \in Commits /\ l.run = l.id
         \/ \E n \in ch.newLayers : l.id = n.id /\ l.run = n.run
  BY <1>7, LandedLayers
<1>9. next.id \in Nat /\ next.id > N
  BY DEF TypeInv, Types
<1>10. \A l \in manifest'.layers : l.run < next.id
  BY <1>8, <1>9, LandingRun, Constants DEF Stored
<1>11. \A l \in manifest'.layers, p \in Plans : l.id \in IdsOf(Results(plans[p])) => l.run = p
  <2> SUFFICES ASSUME NEW l \in manifest'.layers, NEW p \in Plans, l.id \in IdsOf(Results(plans[p])) PROVE l.run = p
    OBVIOUS
  <2>1. l.id \in Plans
    BY ResultsIs DEF IdsOf
  <2> QED
    BY <1>8, <2>1, LandingRun, Constants DEF Stored
<1>12. ASSUME NEW l \in manifest'.layers, l.run \in Plans, plans[l.run].there
       PROVE  \E g \in Mergers : process'[g].job.plan = l.run /\ process'[g].pc \in {"clear", "dropping"}
  <2>1. CASE l \in manifest.layers
    <3>1. PICK g \in Mergers : process[g].job.plan = l.run /\ process[g].pc \in {"clear", "dropping"}
      BY <1>12, <2>1 DEF Stored, Ending
    <3>2. g \in Processes \ {x}
      BY <3>1, Disjoint DEF Matching
    <3> QED
      BY <1>2, <3>1, <3>2
  <2>2. ASSUME NEW n \in ch.newLayers, l.run = n.run PROVE x \in Mergers /\ process[x].job.plan = l.run
    BY <1>12, <2>2, LandingRun
  <2>3. CASE l.id \in Commits /\ l.run = l.id
    BY <1>12, <2>3, Constants
  <2> QED
    BY <1>1, <1>2, <1>8, <2>1, <2>2, <2>3
<1>13. ASSUME NEW y \in Workers, NEW s, s = process'[y] PROVE WorkStored(y, s)'
  <2>1. CASE y = x
    BY <1>1, <1>2, <1>13, <2>1, WorkPlain
  <2>2. CASE y # x
    <3>1. s = process[y] /\ WorkStored(y, s)
      BY <1>2, <1>3, <1>13, <2>2 DEF Stored
    <3>2. s.pc = "dropAll" => \A l \in manifest'.layers : l.run # s.job.plan
      <4> SUFFICES ASSUME s.pc = "dropAll", NEW l \in manifest'.layers, l.run = s.job.plan PROVE FALSE
        OBVIOUS
      <4>1. l.run \in Plans
        <5>1. ProcShape(y, s)
          BY <1>3, <3>1, ProcessTyped
        <5> QED
          BY <5>1 DEF ProcShape, MaintainShape, MergeShape, Workers
      <4> QED
        BY <1>8, <3>1, <4>1, LandingRun, Constants DEF WorkStored
    <3>3. s.pc = "dropping" => \A id \in Visible' : Layer(id) \notin s.listed
      BY <1>4, <3>1, LandingRun DEF WorkStored, IdsOf
    <3>4. y \in Maintainers /\ Changing(s) => \A l \in s.change.newLayers :
             ~plans'[l.run].there /\ \A z \in Workers : process'[z].job.plan # l.run
      BY <1>3, <3>1 DEF WorkStored
    <3> QED
      BY <3>2, <3>3, <3>4 DEF WorkStored
  <2> QED
    BY <2>1, <2>2
<1>14. \A l \in manifest'.layers : l.run \in Plans /\ plans'[l.run].there => Ending(l.run)'
  <2> SUFFICES ASSUME NEW l \in manifest'.layers, l.run \in Plans, plans[l.run].there PROVE Ending(l.run)'
    OBVIOUS
  <2>1. \A p : (\E g \in Mergers : process'[g].job.plan = p /\ process'[g].pc \in {"clear", "dropping"}) => Ending(p)'
    BY DEF Ending
  <2> QED
    BY <1>12 DEF Ending
<1>15. \A y \in Workers : WorkStored(y, process[y])'
  BY <1>13
<1> QED
  BY <1>6, <1>10, <1>11, <1>14, <1>15 DEF Stored

LEMMA ClaimNumberStored ==
  ASSUME TypeInv, TypeInv', IdInv, Stored, NEW x \in Processes, ClaimNumber(x)
  PROVE  Stored'
<1>1. CASE manifest.seq = process[x].base.seq
  <2>1. Matching(x) /\ manifest' = Claimed(x) /\ Goto(x, "clear") /\ UNCHANGED <<pending, files, plans, queue, named, next>>
    BY <1>1, WinIs
  <2> QED
    BY <2>1, WinStored
<1> QED
  BY <1>1, RetryStored

\* A message lost and a merge grown old.
LEMMA OldStored ==
  ASSUME TypeInv, Stored, UNCHANGED <<manifest, pending, files, process, next>>,
         \A p \in Plans : plans'[p].there = plans[p].there /\ plans'[p].result = plans[p].result
  PROVE  Stored'
<1>1. Visible' = Visible
  BY DEF Visible, Late, LayerIds
<1>2. \A p \in Plans : Results(plans'[p]) = Results(plans[p])
  BY DEF Results
<1>3. \A p : Ending(p)' <=> Ending(p)
  BY DEF Ending
<1>4. ASSUME NEW x \in Workers PROVE WorkStored(x, process[x])'
  <2>1. WorkStored(x, process[x]) /\ x \in Processes
    BY Disjoint DEF Stored, Workers
  <2>2. x \in Maintainers /\ Changing(process[x]) => \A l \in process[x].change.newLayers : l.run \in Plans
    <3>1. x \in Maintainers => MaintainShape(process[x])
      BY <2>1, ProcessTyped DEF ProcShape
    <3> QED
      BY <3>1 DEF MaintainShape, LayersMerged, PacksMerged, Forgetting
  <2>3. process' = process /\ manifest' = manifest
    OBVIOUS
  <2> QED
    BY <1>1, <2>1, <2>2, <2>3 DEF WorkStored, Changing
<1>5. \A l \in manifest'.layers : l.run \in Plans /\ plans'[l.run].there => Ending(l.run)'
  <2> SUFFICES ASSUME NEW l \in manifest.layers, l.run \in Plans, plans'[l.run].there PROVE Ending(l.run)'
    OBVIOUS
  <2>1. Ending(l.run)
    BY DEF Stored
  <2> QED
    BY <2>1 DEF Ending
<1> QED
  BY <1>1, <1>2, <1>4, <1>5 DEF Stored

LEMMA AgeStored ==
  ASSUME TypeInv, Stored, NEW p \in Plans, Age(p)
  PROVE  Stored'
<1>1. UNCHANGED <<manifest, pending, files, process, next>> /\ plans' = [plans EXCEPT ![p].old = TRUE]
  BY DEF Age
<1>2. ASSUME NEW q \in Plans PROVE plans'[q].there = plans[q].there /\ plans'[q].result = plans[q].result
  <2>1. plans \in [Plans -> PlanRec] /\ plans[q] \in PlanRec
    BY DEF TypeInv, Types
  <2> QED
    BY <1>1, <2>1 DEF PlanRec
<1> QED
  BY <1>1, <1>2, OldStored

LEMMA InitStored ==
  ASSUME Init
  PROVE  Stored
<1>1. manifest.layers = {} /\ Visible = {}
  BY DEF Init, EmptyManifest, Visible, Late, LayerIds
<1>2. \A x \in Workers : process[x].pc = "idle"
  BY Disjoint DEF Init, Workers, Idle, At
<1> QED
  BY <1>1, <1>2 DEF Stored, WorkStored, Changing

LEMMA StoredKept ==
  ASSUME TypeInv, IdInv, Stored, [Next]_vars, ~LateRepeats
  PROVE  Stored'
<1>1. TypeInv'
  BY TypeStep
<1>2. ASSUME NEW x \in Processes, Change(x) PROVE Stored'
  BY <1>1, <1>2, ReadNewestStored, ClaimNumberStored, ClearPendingStored DEF Change
<1>3. ASSUME NEW c \in Commits, Commit(c) PROVE Stored'
  BY <1>1, <1>3, CommitStored, AppendStored DEF Commit
<1>4. ASSUME NEW w \in Maintainers, Maintain(w) PROVE Stored'
  BY <1>1, <1>4, MaintainGotoStored, MergeBeginsStored, SplitMergeStored, AbandonStored, SweepStored DEF Maintain
<1>5. ASSUME NEW g \in Mergers, Merge(g) PROVE Stored'
  BY <1>1, <1>5, MergeJobStored, MergePlanStored DEF Merge
<1>6. ASSUME NEW x \in Maintainers \cup Mergers, ListMerge(x) \/ DropMerge(x) PROVE Stored'
  BY <1>1, <1>6, ListMergeStored, DropMergeStored DEF Workers
<1>7. ASSUME NEW m \in queue, LoseMessage(m) PROVE Stored'
  BY <1>7, OldStored DEF LoseMessage
<1>8. ASSUME NEW p \in Plans, Age(p) PROVE Stored'
  BY <1>8, AgeStored
<1>9. ASSUME UNCHANGED vars PROVE Stored'
  BY <1>9, OldStored DEF vars
<1> QED
  BY <1>2, <1>3, <1>4, <1>5, <1>6, <1>7, <1>8, <1>9 DEF Next

LEMMA StoredView ==
  ASSUME TypeInv, IdInv, Stored
  PROVE  LayersStored
<1>1. Names
  BY DEF IdInv
<1>2. LayerIds(Latest) = Visible
  BY <1>1, LatestIs
<1> QED
  BY <1>2 DEF LayersStored, LayerIds, Stored

\* types.ts, keyed.ts 1-19: every layer a lookup may have to read is stored, for any number
\* of commits, workers and ranges, whatever dies, is put off, merged, given up or swept: if
\* no change of the manifest falls inside a try's look for its own runs (appendRuns), and a
\* split merge's repeated job does not look for its inputs after its run was swapped in.
THEOREM LayersKept == ~TornReads /\ ~LateRepeats /\ Spec => []LayersStored
<1> SUFFICES ASSUME ~TornReads, ~LateRepeats PROVE Spec => []LayersStored
  OBVIOUS
<1>1. Init => TypeInv /\ IdInv /\ Stored
  BY InitType, InitIds, InitStored
<1>2. TypeInv /\ IdInv /\ Stored /\ [Next]_vars => TypeInv' /\ IdInv' /\ Stored'
  BY TypeStep, IdStep, StoredKept
<1>3. TypeInv /\ IdInv /\ Stored => LayersStored
  BY StoredView
<1> QED
  BY <1>1, <1>2, <1>3, PTL DEF Spec
====
