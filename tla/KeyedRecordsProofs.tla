-------------------------- MODULE KeyedRecordsProofs --------------------------
(***************************************************************************)
(* Proofs about KeyedLayout: nothing is lost.  KeyedLayoutProofs shows that *)
(* the layers and the objects behind them stay; this module, that the      *)
(* newest entry of a record is always one whose pack is there.             *)
(*                                                                         *)
(* The layers are in an order that merges must not upset: a merge puts its *)
(* output where its newest input was, while others land above, below and   *)
(* beside it.  The invariant says which merges under way fit in the order  *)
(* (Fits), that two of them are in order with each other (Ordered), what a *)
(* planned or written merge holds of what it replaces (Seeing), and that   *)
(* an entry whose pack is about to go has a newer one (Records).           *)
(***************************************************************************)
EXTENDS KeyedLayoutProofs

-----------------------------------------------------------------------------
(* The order of the layers: which merges fit in it, and what a step that   *)
(* changes the view does to it.                                            *)

View == Latest.layers

Inputs(V, B) == {l \in V : l.id \in B}

\* The layers of V are a merge's that puts its output at s, with the others each newer than
\* all of them, and not before s, or older and before s.  The inputs' sequences are
\* about s: a pending object's moves by one when a change that had not listed it lands.
Fits(V, B, s) ==
    /\ \A z \in V : z.id \notin B =>
          \/ z.seq >= s /\ \A j \in Inputs(V, B) : Newer(z, j)
          \/ z.seq < s /\ \A j \in Inputs(V, B) : Newer(j, z)
    /\ \A y, z \in V : y.id \notin B /\ z.id \notin B /\ y.seq = s /\ z.seq = s => y.nth = z.nth
    /\ \A j \in Inputs(V, B) : j.seq <= s + 1
    /\ \E j \in Inputs(V, B) : s <= j.seq + 1
    /\ \E i, j \in Inputs(V, B) : i # j

\* The output goes to the newest input's sequence.
Exact(V, B, s) == (\A j \in Inputs(V, B) : j.seq <= s) /\ \E j \in Inputs(V, B) : j.seq = s

\* Two merges have no input in common, and put their outputs in the order of their inputs.
Ordered(V, B, s, C, t) ==
    /\ B \cap C = {}
    /\ \A i \in Inputs(V, B), j \in Inputs(V, C) : (Newer(j, i) => s < t) /\ (Newer(i, j) => t < s)

\* Layers at one place are of one run, and a sequence has at most two places.
Places(V) ==
    /\ \A l, j \in V : l.seq = j.seq /\ l.nth = j.nth => l.run = j.run
    /\ \A x, y, z \in V : x.seq = y.seq /\ y.seq = z.seq => x.nth = y.nth \/ y.nth = z.nth \/ x.nth = z.nth

List(V) == V \subseteq LayerRec /\ \A l, j \in V : l.id = j.id => l = j

\* v where it is after a step: a layer past tl, of a pending object, is as far past tn.
Was(w, v, tl, tn) ==
    /\ w.id = v.id /\ w.run = v.run /\ w.nth = v.nth /\ w.at = v.at
    /\ \/ v.seq <= tl /\ w.seq = v.seq
       \/ v.seq > tl /\ w.seq + tl = v.seq + tn

\* A step from view V to W replaces the layers B by O.
Lands(V, W, B, O, tl, tn) ==
    /\ List(V) /\ List(W) /\ O \subseteq W
    /\ tl \in Nat /\ tn \in Nat /\ tl <= tn + 1 /\ tn <= tl + 1
    /\ \A w \in W : w \in O \/ \E v \in V : v.id \notin B /\ Was(w, v, tl, tn)
    /\ \A v \in V : v.id \notin B => \E w \in W : Was(w, v, tl, tn)
    /\ \A v \in V : v.seq <= tl => v.id \in B \/ v.seq <= tn
    /\ \A v \in V : v.id \in B => v.seq <= tl
    /\ \A u, v \in V : u.seq > tl /\ u.seq = v.seq => u = v
    /\ \A o \in O : o.seq <= tn /\ o.id \notin IdsOf(V)

\* Where two layers stand to each other does not change.
LEMMA WasNewer ==
  ASSUME NEW V, NEW W, NEW B, NEW O, NEW tl, NEW tn, Lands(V, W, B, O, tl, tn),
         NEW v \in V, NEW u \in V, NEW w \in W, NEW x \in W, Was(w, v, tl, tn), Was(x, u, tl, tn),
         v.id \notin B, u.id \notin B
  PROVE  /\ Newer(w, x) <=> Newer(v, u)
         /\ (w.seq = x.seq /\ w.nth = x.nth) <=> (v.seq = u.seq /\ v.nth = u.nth)
         /\ w.seq = x.seq <=> v.seq = u.seq
         /\ w = x <=> v = u
         /\ w.seq <= tn <=> v.seq <= tl
         /\ w.seq > tn => w.seq + tl = v.seq + tn
         /\ w.seq <= tn => w.seq = v.seq
<1>1. /\ v.seq \in Nat /\ u.seq \in Nat /\ w.seq \in Nat /\ x.seq \in Nat /\ tl \in Nat /\ tn \in Nat
      /\ v.nth \in Nat /\ u.nth \in Nat /\ w.nth \in Nat /\ x.nth \in Nat
      /\ v.seq <= tl => v.seq <= tn
      /\ u.seq <= tl => u.seq <= tn
  BY DEF Lands, List, LayerRec
<1>2. w = x <=> v = u
  BY DEF Lands, List, Was
<1>3. /\ w.nth = v.nth /\ x.nth = u.nth
      /\ (v.seq <= tl /\ w.seq = v.seq) \/ (v.seq > tl /\ w.seq + tl = v.seq + tn)
      /\ (u.seq <= tl /\ x.seq = u.seq) \/ (u.seq > tl /\ x.seq + tl = u.seq + tn)
  BY DEF Was
<1> QED
  BY <1>1, <1>2, <1>3 DEF Newer

\* The inputs of a merge the step does not touch are where they were, or moved together.
LEMMA InputsWere ==
  ASSUME NEW V, NEW W, NEW A, NEW O, NEW tl, NEW tn, Lands(V, W, A, O, tl, tn), NEW B, B \cap A = {}, B \subseteq IdsOf(V)
  PROVE  /\ \A w \in Inputs(W, B) : w \notin O /\ \E v \in Inputs(V, B) : v.id \notin A /\ Was(w, v, tl, tn)
         /\ \A v \in Inputs(V, B) : v.id \notin A /\ \E w \in Inputs(W, B) : Was(w, v, tl, tn)
         /\ \A w \in W : w.id \notin B => w \in O \/ \E v \in V : v.id \notin B /\ v.id \notin A /\ Was(w, v, tl, tn)
         /\ \A o \in O : o.id \notin B
  BY DEF Lands, Inputs, Was, IdsOf

\* Where a layer stands to the inputs it stood to before.
LEMMA StaysNewer ==
  ASSUME NEW V, NEW W, NEW A, NEW O, NEW tl, NEW tn, Lands(V, W, A, O, tl, tn), NEW B, B \cap A = {}, B \subseteq IdsOf(V),
         NEW v \in V, NEW w \in W, Was(w, v, tl, tn), v.id \notin A
  PROVE  /\ (\A j \in Inputs(V, B) : Newer(v, j)) => \A j \in Inputs(W, B) : Newer(w, j)
         /\ (\A j \in Inputs(V, B) : Newer(j, v)) => \A j \in Inputs(W, B) : Newer(j, w)
<1>1. ASSUME NEW j \in Inputs(W, B)
      PROVE  \E i \in Inputs(V, B) : (Newer(w, j) <=> Newer(v, i)) /\ (Newer(j, w) <=> Newer(i, v))
  <2>1. PICK i \in Inputs(V, B) : i.id \notin A /\ Was(j, i, tl, tn)
    BY InputsWere
  <2>2. i \in V /\ j \in W
    BY DEF Inputs
  <2> QED
    BY <2>1, <2>2, WasNewer
<1> QED
  BY <1>1

\* A merge the step does not touch still fits, if the layers that came fit around it.
LEMMA FitsKept ==
  ASSUME NEW V, NEW W, NEW A, NEW O, NEW tl, NEW tn, Lands(V, W, A, O, tl, tn),
         NEW B, B \cap A = {}, B \subseteq IdsOf(V), NEW s \in Nat, Fits(V, B, s),
         \A j \in Inputs(V, B) : j.seq > tl => Exact(V, B, s),
         \A o \in O : \/ o.seq >= s /\ \A j \in Inputs(W, B) : Newer(o, j)
                      \/ o.seq < s /\ \A j \in Inputs(W, B) : Newer(j, o),
         \A o \in O, z \in W : o.seq = s /\ z.seq = s /\ z.id \notin B => z.nth = o.nth
  PROVE  Fits(W, B, s)
<1> DEFINE late == \E j \in Inputs(V, B) : j.seq > tl
<1>1. /\ tl \in Nat /\ tn \in Nat /\ tl <= tn + 1 /\ tn <= tl + 1
      /\ \A v \in V : v.seq \in Nat /\ v.nth \in Nat
      /\ \A v \in W : v.seq \in Nat /\ v.nth \in Nat
      /\ Inputs(V, B) \subseteq V /\ Inputs(W, B) \subseteq W
      /\ \A u, v \in V : u.seq > tl /\ u.seq = v.seq => u = v
      /\ \A v \in V : v.seq <= tl => v.id \in A \/ v.seq <= tn
  BY DEF Lands, List, LayerRec, Inputs
<1>2. /\ \A z \in V : z.id \notin B =>
            \/ z.seq >= s /\ \A j \in Inputs(V, B) : Newer(z, j)
            \/ z.seq < s /\ \A j \in Inputs(V, B) : Newer(j, z)
      /\ \A y, z \in V : y.id \notin B /\ z.id \notin B /\ y.seq = s /\ z.seq = s => y.nth = z.nth
      /\ \A j \in Inputs(V, B) : j.seq <= s + 1
      /\ \E j \in Inputs(V, B) : s <= j.seq + 1
      /\ \E i, j \in Inputs(V, B) : i # j
  BY DEF Fits
<1>3. late => (\A j \in Inputs(V, B) : j.seq <= s) /\ \E j \in Inputs(V, B) : j.seq = s
  BY DEF Exact
<1>4. /\ \A w \in Inputs(W, B) : \E v \in Inputs(V, B) : v.id \notin A /\ Was(w, v, tl, tn)
      /\ \A v \in Inputs(V, B) : v.id \notin A /\ \E w \in Inputs(W, B) : Was(w, v, tl, tn)
      /\ \A w \in W : w.id \notin B => w \in O \/ \E v \in V : v.id \notin B /\ v.id \notin A /\ Was(w, v, tl, tn)
  BY InputsWere
<1>5. \A w, v : Was(w, v, tl, tn) => w.nth = v.nth /\ ((v.seq <= tl /\ w.seq = v.seq) \/ (v.seq > tl /\ w.seq + tl = v.seq + tn))
  BY DEF Was
<1>6. ASSUME NEW z \in W, NEW v \in V, v.id \notin B, v.id \notin A, Was(z, v, tl, tn)
      PROVE  \/ z.seq >= s /\ \A j \in Inputs(W, B) : Newer(z, j)
             \/ z.seq < s /\ \A j \in Inputs(W, B) : Newer(j, z)
  <2>1. CASE v.seq >= s /\ \A j \in Inputs(V, B) : Newer(v, j)
    <3>1. \A j \in Inputs(W, B) : Newer(z, j)
      BY <1>6, <2>1, StaysNewer
    <3>2. CASE v.seq <= tl
      BY <1>1, <1>5, <1>6, <2>1, <3>1, <3>2
    <3>3. CASE v.seq > tl /\ late
      <4>1. PICK j \in Inputs(V, B) : j.seq = s
        BY <1>3, <3>3
      <4>2. v.seq > s
        <5>1. j # v /\ s > tl
          BY <1>1, <1>3, <1>6, <3>3 DEF Inputs
        <5> QED
          BY <1>1, <2>1, <4>1, <5>1
      <4> QED
        BY <1>1, <1>5, <1>6, <3>1, <3>3, <4>2
    <3>4. CASE v.seq > tl /\ ~late
      <4>1. PICK j \in Inputs(V, B) : s <= j.seq + 1
        BY <1>2
      <4>2. j.seq <= tl /\ j.seq <= tn
        BY <1>1, <1>4, <3>4
      <4> QED
        BY <1>1, <1>5, <1>6, <3>1, <3>4, <4>1, <4>2
    <3> QED
      BY <1>1, <3>2, <3>3, <3>4
  <2>2. CASE v.seq < s /\ \A j \in Inputs(V, B) : Newer(j, v)
    <3>1. \A j \in Inputs(W, B) : Newer(j, z)
      BY <1>6, <2>2, StaysNewer
    <3>2. CASE v.seq <= tl
      BY <1>1, <1>5, <1>6, <2>2, <3>1, <3>2
    <3>3. CASE v.seq > tl
      <4>1. PICK i, j \in Inputs(V, B) : i # j
        BY <1>2
      <4>2. i.seq >= v.seq /\ j.seq >= v.seq /\ i # v /\ j # v
        BY <1>1, <1>6, <2>2 DEF Newer, Inputs
      <4>3. i.seq > v.seq /\ j.seq > v.seq /\ i.seq # j.seq
        BY <1>1, <3>3, <4>1, <4>2
      <4>4. i.seq <= s /\ j.seq <= s
        BY <1>1, <1>3, <3>3, <4>2
      <4> QED
        BY <1>1, <1>5, <1>6, <3>1, <3>3, <4>3, <4>4
    <3> QED
      BY <1>1, <3>2, <3>3
  <2> QED
    BY <1>2, <1>6, <2>1, <2>2
<1>7. ASSUME NEW y \in W, NEW z \in W, y.id \notin B, z.id \notin B, y.seq = s, z.seq = s PROVE y.nth = z.nth
  <2>1. CASE y \notin O /\ z \notin O
    <3>1. PICK u \in V : u.id \notin B /\ u.id \notin A /\ Was(y, u, tl, tn)
      BY <1>4, <1>7, <2>1
    <3>2. PICK v \in V : v.id \notin B /\ v.id \notin A /\ Was(z, v, tl, tn)
      BY <1>4, <1>7, <2>1
    <3>3. u.seq = v.seq
      BY <1>7, <3>1, <3>2, WasNewer
    <3>4. CASE u.seq <= tl
      BY <1>1, <1>2, <1>5, <1>7, <3>1, <3>2, <3>3, <3>4
    <3>5. CASE u.seq > tl
      BY <1>1, <1>5, <3>1, <3>2, <3>3, <3>5
    <3> QED
      BY <1>1, <3>4, <3>5
  <2> QED
    BY <1>7, <2>1
<1>8. ASSUME NEW j \in Inputs(W, B) PROVE j.seq <= s + 1
  BY <1>1, <1>2, <1>3, <1>4, <1>5
<1>9. \E j \in Inputs(W, B) : s <= j.seq + 1
  <2>1. PICK i \in Inputs(V, B) : s <= i.seq + 1 /\ (late => i.seq = s)
    BY <1>1, <1>2, <1>3
  <2>2. PICK j \in Inputs(W, B) : Was(j, i, tl, tn)
    BY <1>4
  <2>3. i.seq > tl => i.seq = s
    BY <2>1
  <2> QED
    BY <1>1, <1>5, <2>1, <2>2, <2>3
<1>10. \E i, j \in Inputs(W, B) : i # j
  <2>1. PICK i, j \in Inputs(V, B) : i # j
    BY <1>2
  <2>2. PICK x \in Inputs(W, B), y \in Inputs(W, B) : Was(x, i, tl, tn) /\ Was(y, j, tl, tn)
    BY <1>4
  <2>3. x.id # y.id
    BY <1>1, <2>1, <2>2 DEF Was, Lands, List
  <2> QED
    BY <2>2, <2>3
<1> QED
  <2>1. \A z \in W : z.id \notin B =>
            \/ z.seq >= s /\ \A j \in Inputs(W, B) : Newer(z, j)
            \/ z.seq < s /\ \A j \in Inputs(W, B) : Newer(j, z)
    BY <1>4, <1>6
  <2> QED
    BY <1>7, <1>8, <1>9, <1>10, <2>1 DEF Fits

\* Two merges the step does not touch are in order as before.
LEMMA OrderedKept ==
  ASSUME NEW V, NEW W, NEW A, NEW O, NEW tl, NEW tn, Lands(V, W, A, O, tl, tn),
         NEW B, B \cap A = {}, B \subseteq IdsOf(V), NEW C, C \cap A = {}, C \subseteq IdsOf(V), NEW s, NEW t,
         Ordered(V, B, s, C, t)
  PROVE  Ordered(W, B, s, C, t)
<1>1. ASSUME NEW i \in Inputs(W, B), NEW j \in Inputs(W, C)
      PROVE  (Newer(j, i) => s < t) /\ (Newer(i, j) => t < s)
  <2>1. PICK u \in Inputs(V, B) : u.id \notin A /\ Was(i, u, tl, tn)
    BY InputsWere
  <2>2. PICK v \in Inputs(V, C) : v.id \notin A /\ Was(j, v, tl, tn)
    BY InputsWere
  <2>3. i \in W /\ j \in W /\ u \in V /\ v \in V
    BY DEF Inputs
  <2>4. (Newer(j, i) <=> Newer(v, u)) /\ (Newer(i, j) <=> Newer(u, v))
    BY <2>1, <2>2, <2>3, WasNewer
  <2> QED
    BY <2>4 DEF Ordered
<1> QED
  BY <1>1 DEF Ordered

\* Places stay of one run, if those of the layers that came are their own.
LEMMA PlacesKept ==
  ASSUME NEW V, NEW W, NEW A, NEW O, NEW tl, NEW tn, Lands(V, W, A, O, tl, tn), Places(V),
         \A o, p \in O : o.run = p.run /\ o.seq = p.seq /\ o.nth = p.nth,
         \A o \in O, w \in W \ O : w.seq = o.seq => w.nth # o.nth,
         \A o \in O, y, z \in W \ O : y.seq = o.seq /\ z.seq = o.seq => y.nth = z.nth
  PROVE  Places(W)
<1>1. \A w \in W \ O : \E v \in V : v.id \notin A /\ Was(w, v, tl, tn)
  BY DEF Lands
<1>2. ASSUME NEW l \in W, NEW j \in W, l.seq = j.seq, l.nth = j.nth PROVE l.run = j.run
  <2>1. CASE l \in W \ O /\ j \in W \ O
    <3>1. PICK u \in V : u.id \notin A /\ Was(l, u, tl, tn)
      BY <1>1, <2>1
    <3>2. PICK v \in V : v.id \notin A /\ Was(j, v, tl, tn)
      BY <1>1, <2>1
    <3>3. u.seq = v.seq /\ u.nth = v.nth
      BY <1>2, <3>1, <3>2, WasNewer
    <3> QED
      BY <3>1, <3>2, <3>3 DEF Places, Was
  <2> QED
    BY <1>2, <2>1
<1>3. ASSUME NEW x \in W, NEW y \in W, NEW z \in W, x.seq = y.seq, y.seq = z.seq
      PROVE  x.nth = y.nth \/ y.nth = z.nth \/ x.nth = z.nth
  <2>1. CASE x \in W \ O /\ y \in W \ O /\ z \in W \ O
    <3>1. PICK u \in V : u.id \notin A /\ Was(x, u, tl, tn)
      BY <1>1, <2>1
    <3>2. PICK v \in V : v.id \notin A /\ Was(y, v, tl, tn)
      BY <1>1, <2>1
    <3>3. PICK w \in V : w.id \notin A /\ Was(z, w, tl, tn)
      BY <1>1, <2>1
    <3>4. u.seq = v.seq /\ v.seq = w.seq
      BY <1>3, <3>1, <3>2, <3>3, WasNewer
    <3>5. u.nth = v.nth \/ v.nth = w.nth \/ u.nth = w.nth
      BY <3>4 DEF Places
    <3> QED
      BY <3>1, <3>2, <3>3, <3>5 DEF Was
  <2> QED
    BY <1>3, <2>1
<1> QED
  BY <1>2, <1>3 DEF Places

-----------------------------------------------------------------------------
(* A merge of layers lands.                                                *)

\* The layers C are replaced by O at the end of sequence t.
Merges(V, W, C, t, O, tl, tn) ==
    /\ Lands(V, W, C, O, tl, tn)
    /\ C \subseteq IdsOf(V) /\ t \in Nat /\ Fits(V, C, t)
    /\ \A o \in O : o.seq = t /\ \A w \in W \ O : w.seq = t => w.nth < o.nth

\* A layer beside the inputs of a merge stays on its side of them, now of the output.
LEMMA MergeBeside ==
  ASSUME NEW V, NEW W, NEW C, NEW t, NEW O, NEW tl, NEW tn, Merges(V, W, C, t, O, tl, tn),
         NEW o \in O, NEW w \in W, NEW v \in V, v.id \notin C, Was(w, v, tl, tn)
  PROVE  /\ (\E j \in Inputs(V, C) : Newer(v, j)) => Newer(w, o) /\ v.seq >= t
         /\ (\E j \in Inputs(V, C) : Newer(j, v)) => Newer(o, w) /\ v.seq < t
         /\ Newer(w, o) => \A j \in Inputs(V, C) : Newer(v, j)
         /\ Newer(o, w) => \A j \in Inputs(V, C) : Newer(j, v)
<1>1. /\ w \notin O /\ tl \in Nat /\ tn \in Nat /\ v.seq \in Nat /\ v.nth \in Nat /\ w.seq \in Nat /\ w.nth \in Nat
      /\ o.seq \in Nat /\ o.nth \in Nat /\ o.seq <= tn /\ o.seq = t /\ (w.seq = t => w.nth < o.nth)
      /\ \A j \in Inputs(V, C) : j.seq \in Nat /\ j.nth \in Nat /\ j.seq <= tl
  <2>1. /\ Lands(V, W, C, O, tl, tn) /\ o \in W
        /\ \A p \in O : p.seq = t /\ \A x \in W \ O : x.seq = t => x.nth < p.nth
    BY DEF Merges, Lands
  <2>2. w \notin O
    BY <2>1 DEF Lands, Was, IdsOf
  <2>3. V \subseteq LayerRec /\ W \subseteq LayerRec /\ tl \in Nat /\ tn \in Nat /\ o.seq <= tn
        /\ \A j \in Inputs(V, C) : j \in V /\ j.seq <= tl
    BY <2>1 DEF Lands, List, Inputs
  <2> QED
    BY <2>1, <2>2, <2>3 DEF LayerRec
<1>2. \/ v.seq >= t /\ \A j \in Inputs(V, C) : Newer(v, j)
      \/ v.seq < t /\ \A j \in Inputs(V, C) : Newer(j, v)
  BY DEF Merges, Fits
<1>3. w.nth = v.nth /\ ((v.seq <= tl /\ w.seq = v.seq) \/ (v.seq > tl /\ w.seq + tl = v.seq + tn))
  BY DEF Was
<1>4. \E j \in Inputs(V, C) : TRUE
  BY DEF Merges, Fits
<1>5. CASE v.seq >= t /\ \A j \in Inputs(V, C) : Newer(v, j)
  <2>1. Newer(w, o)
    BY <1>1, <1>3, <1>5 DEF Newer
  <2> QED
    BY <1>1, <1>5, <2>1 DEF Newer
<1>6. CASE v.seq < t /\ \A j \in Inputs(V, C) : Newer(j, v)
  <2>1. v.seq <= tl
    BY <1>1, <1>4, <1>6 DEF Newer
  <2>2. Newer(o, w)
    BY <1>1, <1>3, <1>6, <2>1 DEF Newer
  <2> QED
    BY <1>1, <1>6, <2>2 DEF Newer
<1> QED
  BY <1>2, <1>5, <1>6

\* Another merge still fits once one has landed.
LEMMA MergeFits ==
  ASSUME NEW V, NEW W, NEW C, NEW t, NEW O, NEW tl, NEW tn, Merges(V, W, C, t, O, tl, tn),
         NEW B, B \subseteq IdsOf(V), NEW s \in Nat, Fits(V, B, s), Ordered(V, B, s, C, t),
         \A j \in Inputs(V, B) : j.seq > tl => Exact(V, B, s)
  PROVE  Fits(W, B, s)
<1>1. Lands(V, W, C, O, tl, tn) /\ B \cap C = {} /\ O \subseteq W /\ C \subseteq IdsOf(V) /\ t \in Nat /\ Fits(V, C, t)
      /\ \A o \in O : o.seq = t
  BY DEF Merges, Lands, Ordered
<1>2. PICK i0 \in Inputs(V, B) : TRUE
  BY DEF Fits
<1>3. PICK j0 \in Inputs(V, C) : TRUE
  BY <1>1 DEF Fits
<1>4. /\ i0 \in V /\ i0.id \in B /\ i0.id \notin C /\ j0 \in V /\ j0.id \in C /\ j0.id \notin B
  BY <1>1 DEF Inputs
<1>5. (\A i \in Inputs(V, B) : Newer(j0, i)) \/ (\A i \in Inputs(V, B) : Newer(i, j0))
  BY <1>4 DEF Fits
<1>6. (Newer(j0, i0) => s < t) /\ (Newer(i0, j0) => t < s)
  BY DEF Ordered
<1>7. s < t \/ t < s
  BY <1>1, <1>5, <1>6
<1>8. ASSUME NEW o \in O
      PROVE  \/ o.seq >= s /\ \A j \in Inputs(W, B) : Newer(o, j)
             \/ o.seq < s /\ \A j \in Inputs(W, B) : Newer(j, o)
  <2>1. ASSUME NEW j \in Inputs(W, B)
        PROVE  (Newer(j0, i0) => Newer(o, j)) /\ (Newer(i0, j0) => Newer(j, o))
    <3>1. PICK i \in Inputs(V, B) : i.id \notin C /\ Was(j, i, tl, tn)
      BY <1>1, InputsWere
    <3>2. i \in V /\ j \in W
      BY DEF Inputs
    <3>3. (Newer(j0, i) => Newer(o, j)) /\ (Newer(i, j0) => Newer(j, o))
      BY <3>1, <3>2, MergeBeside
    <3>4. (Newer(j0, i0) => Newer(j0, i)) /\ (Newer(i0, j0) => Newer(i, j0))
      <4>1. /\ i0.seq \in Nat /\ i0.nth \in Nat /\ j0.seq \in Nat /\ j0.nth \in Nat /\ i.seq \in Nat /\ i.nth \in Nat
        BY <1>1, <1>4, <3>2 DEF Lands, List, LayerRec
      <4> QED
        BY <1>5, <4>1 DEF Newer
    <3> QED
      BY <3>3, <3>4
  <2> QED
    BY <1>1, <1>5, <1>6, <2>1
<1>9. \A o \in O, z \in W : o.seq = s /\ z.seq = s /\ z.id \notin B => z.nth = o.nth
  BY <1>1, <1>7
<1> QED
  BY <1>1, <1>8, <1>9, FitsKept

\* The output has a place of its own.
LEMMA MergePlaces ==
  ASSUME NEW V, NEW W, NEW C, NEW t, NEW O, NEW tl, NEW tn, Merges(V, W, C, t, O, tl, tn), Places(V),
         \A o, p \in O : o.run = p.run /\ o.nth = p.nth
  PROVE  Places(W)
<1>1. /\ Lands(V, W, C, O, tl, tn) /\ O \subseteq W /\ \A w \in W : w.seq \in Nat /\ w.nth \in Nat
      /\ \A o \in O : o.seq = t /\ o.seq <= tn /\ \A w \in W \ O : w.seq = t => w.nth < o.nth
      /\ \A y, z \in V : y.id \notin C /\ z.id \notin C /\ y.seq = t /\ z.seq = t => y.nth = z.nth
  BY DEF Merges, Lands, List, LayerRec, Fits
<1>2. \A o \in O, w \in W \ O : w.seq = o.seq => w.nth # o.nth
  BY <1>1
<1>3. ASSUME NEW o \in O, NEW y \in W \ O, NEW z \in W \ O, y.seq = o.seq, z.seq = o.seq PROVE y.nth = z.nth
  <2>1. PICK u \in V : u.id \notin C /\ Was(y, u, tl, tn)
    BY <1>1 DEF Lands
  <2>2. PICK v \in V : v.id \notin C /\ Was(z, v, tl, tn)
    BY <1>1 DEF Lands
  <2>3. y.seq <= tn /\ z.seq <= tn /\ y.seq = t /\ z.seq = t
    BY <1>1, <1>3
  <2>4. u.seq = t /\ v.seq = t
    BY <1>1, <2>1, <2>2, <2>3, WasNewer
  <2> QED
    BY <1>1, <2>1, <2>2, <2>4 DEF Was
<1> QED
  BY <1>1, <1>2, <1>3, PlacesKept

-----------------------------------------------------------------------------
(* A layer lands that is newer than the others, or none.                   *)

Tops(V, W, O, tl, tn) ==
    /\ Lands(V, W, {}, O, tl, tn)
    /\ \A o, p \in O : o = p
    /\ \A o \in O, v \in V : v.seq <= tl => v.seq < o.seq

\* Layers put above the others are newer than all of them.
LEMMA TopNewer ==
  ASSUME NEW V, NEW W, NEW O, NEW tl, NEW tn, Tops(V, W, O, tl, tn),
         NEW o \in O, NEW w \in W, NEW v \in V, Was(w, v, tl, tn)
  PROVE  /\ w.seq # o.seq
         /\ v.seq <= tl => Newer(o, w) /\ o.seq > v.seq
<1>1. /\ Lands(V, W, {}, O, tl, tn) /\ (v.seq <= tl => v.seq < o.seq)
  BY DEF Tops
<1>2. /\ tl \in Nat /\ tn \in Nat /\ v.seq \in Nat /\ w.seq \in Nat /\ o.seq \in Nat /\ o.seq <= tn
  BY <1>1 DEF Lands, List, LayerRec
<1> QED
  BY <1>1, <1>2 DEF Was, Newer

\* Every merge still fits under layers put above it.
LEMMA TopFits ==
  ASSUME NEW V, NEW W, NEW O, NEW tl, NEW tn, Tops(V, W, O, tl, tn),
         NEW B, B \subseteq IdsOf(V), NEW s \in Nat, Fits(V, B, s),
         \A j \in Inputs(V, B) : j.seq > tl => Exact(V, B, s) /\ O = {}
  PROVE  Fits(W, B, s)
<1>1. Lands(V, W, {}, O, tl, tn) /\ B \cap {} = {} /\ O \subseteq W /\ \A o, p \in O : o = p
  BY DEF Tops, Lands
<1>2. \A v \in V : v.seq \in Nat
  BY <1>1 DEF Lands, List, LayerRec
<1>3. \A w \in W : w.seq \in Nat
  BY <1>1 DEF Lands, List, LayerRec
<1>4. tl \in Nat /\ tn \in Nat
  BY <1>1 DEF Lands
<1>5. ASSUME NEW o \in O
      PROVE  o.seq >= s /\ \A j \in Inputs(W, B) : Newer(o, j)
  <2>1. \A j \in Inputs(V, B) : j.seq <= tl /\ j \in V
    BY <1>2, <1>4 DEF Inputs
  <2>2. ASSUME NEW j \in Inputs(W, B) PROVE Newer(o, j)
    <3>1. PICK i \in Inputs(V, B) : Was(j, i, tl, tn)
      BY <1>1, InputsWere
    <3> QED
      BY <2>1, <3>1, TopNewer DEF Inputs
  <2>3. PICK j \in Inputs(V, B) : s <= j.seq + 1
    BY DEF Fits
  <2>4. j.seq < o.seq
    BY <2>1 DEF Tops
  <2>5. o.seq \in Nat /\ j.seq \in Nat
    BY <1>1, <1>2, <1>3, <2>1
  <2> QED
    BY <2>2, <2>3, <2>4, <2>5
<1>6. ASSUME NEW o \in O, NEW z \in W, o.seq = s, z.seq = s PROVE z.nth = o.nth
  <2>1. CASE z \notin O
    <3>1. PICK v \in V : Was(z, v, tl, tn)
      BY <1>1, <2>1 DEF Lands
    <3> QED
      BY <1>6, <3>1, TopNewer
  <2> QED
    BY <1>1, <2>1
<1> QED
  BY <1>1, <1>5, <1>6, FitsKept

\* Layers put above have places of their own.
LEMMA TopPlaces ==
  ASSUME NEW V, NEW W, NEW O, NEW tl, NEW tn, Tops(V, W, O, tl, tn), Places(V)
  PROVE  Places(W)
<1>1. Lands(V, W, {}, O, tl, tn) /\ \A o, p \in O : o = p
  BY DEF Tops
<1>2. \A o \in O, w \in W \ O : w.seq # o.seq
  BY <1>1, TopNewer DEF Lands
<1> QED
  BY <1>1, <1>2, PlacesKept

-----------------------------------------------------------------------------
(* The entries of layers.                                                  *)

\* An output's entries are the newest of the inputs'.
Takes(V, B, o) ==
    \A k \in DOMAIN o.at : \E j \in Inputs(V, B) :
        /\ k \in DOMAIN j.at /\ j.at[k] = o.at[k]
        /\ \A i \in Inputs(V, B) : k \in DOMAIN i.at => i = j \/ Newer(j, i)

\* Every record of the inputs has an entry in an output.
Covers(V, B, O) == \A j \in Inputs(V, B) : \A k \in DOMAIN j.at : \E o \in O : k \in DOMAIN o.at

\* A record whose pack of the layer is in M has an entry in a newer layer.
Replaced(V, M) ==
    \A l \in V : \A k \in DOMAIN l.at : l.at[k] \in M => \E j \in V : k \in DOMAIN j.at /\ Newer(j, l)

\* The entries of W, but for those of O, are V's.
Taken(V, W, O) ==
    \A w \in W : w \in O \/ \A k \in DOMAIN w.at : \E v \in V : k \in DOMAIN v.at /\ v.at[k] = w.at[k]

\* No record of V is without an entry in W.
Held(V, W) == \A v \in V : \A k \in DOMAIN v.at : \E w \in W : k \in DOMAIN w.at

\* An output still takes the newest entries of its inputs when other layers come and go.
LEMMA TakesKept ==
  ASSUME NEW V, NEW W, NEW A, NEW O, NEW tl, NEW tn, Lands(V, W, A, O, tl, tn), NEW B, B \cap A = {}, B \subseteq IdsOf(V),
         NEW o, Takes(V, B, o)
  PROVE  Takes(W, B, o)
<1> SUFFICES ASSUME NEW k \in DOMAIN o.at
             PROVE  \E j \in Inputs(W, B) :
                       /\ k \in DOMAIN j.at /\ j.at[k] = o.at[k]
                       /\ \A i \in Inputs(W, B) : k \in DOMAIN i.at => i = j \/ Newer(j, i)
  BY DEF Takes
<1>1. PICK v \in Inputs(V, B) :
          /\ k \in DOMAIN v.at /\ v.at[k] = o.at[k]
          /\ \A u \in Inputs(V, B) : k \in DOMAIN u.at => u = v \/ Newer(v, u)
  BY DEF Takes
<1>2. PICK j \in Inputs(W, B) : Was(j, v, tl, tn)
  BY InputsWere
<1>3. ASSUME NEW i \in Inputs(W, B), k \in DOMAIN i.at PROVE i = j \/ Newer(j, i)
  <2>1. PICK u \in Inputs(V, B) : u.id \notin A /\ Was(i, u, tl, tn)
    BY InputsWere
  <2>2. u = v \/ Newer(v, u)
    BY <1>1, <1>3, <2>1 DEF Was
  <2>3. i \in W /\ j \in W /\ u \in V /\ v \in V /\ v.id \notin A
    BY InputsWere DEF Inputs
  <2> QED
    BY <1>2, <2>1, <2>2, <2>3, WasNewer
<1> QED
  BY <1>1, <1>2, <1>3 DEF Was

\* Nor do the inputs have a record that the outputs lack.
LEMMA CoversKept ==
  ASSUME NEW V, NEW W, NEW A, NEW O, NEW tl, NEW tn, Lands(V, W, A, O, tl, tn), NEW B, B \cap A = {}, B \subseteq IdsOf(V),
         NEW os, Covers(V, B, os)
  PROVE  Covers(W, B, os)
<1> SUFFICES ASSUME NEW j \in Inputs(W, B), NEW k \in DOMAIN j.at PROVE \E o \in os : k \in DOMAIN o.at
  BY DEF Covers
<1>1. PICK v \in Inputs(V, B) : Was(j, v, tl, tn)
  BY InputsWere
<1> QED
  BY <1>1 DEF Covers, Was

\* A merge brings no entry that was not there, and no record goes with it.
LEMMA MergeEntries ==
  ASSUME NEW V, NEW W, NEW C, NEW t, NEW O, NEW tl, NEW tn, Merges(V, W, C, t, O, tl, tn), NEW new,
         \A o \in O : \E n \in new : n.at = o.at, \A n \in new : \E o \in O : n.at = o.at,
         \A n \in new : Takes(V, C, n), Covers(V, C, new)
  PROVE  Taken(V, W, {}) /\ Held(V, W)
<1>1. Lands(V, W, C, O, tl, tn) /\ O \subseteq W
  BY DEF Merges, Lands
<1>2. ASSUME NEW w \in W, NEW k \in DOMAIN w.at PROVE \E v \in V : k \in DOMAIN v.at /\ v.at[k] = w.at[k]
  <2>1. CASE w \in O
    <3>1. PICK n \in new : n.at = w.at
      BY <2>1
    <3> QED
      BY <1>2, <3>1 DEF Takes, Inputs
  <2>2. CASE w \notin O
    BY <1>1, <1>2, <2>2 DEF Lands, Was
  <2> QED
    BY <2>1, <2>2
<1>3. ASSUME NEW v \in V, NEW k \in DOMAIN v.at PROVE \E w \in W : k \in DOMAIN w.at
  <2>1. CASE v.id \in C
    <3>1. PICK n \in new : k \in DOMAIN n.at
      BY <1>3, <2>1 DEF Covers, Inputs
    <3> QED
      BY <1>1, <3>1
  <2>2. CASE v.id \notin C
    BY <1>1, <1>3, <2>2 DEF Lands, Was
  <2> QED
    BY <2>1, <2>2
<1> QED
  BY <1>2, <1>3 DEF Taken, Held

\* Entries that point to packs about to go still have newer ones after a merge.
LEMMA MergeReplaced ==
  ASSUME NEW V, NEW W, NEW C, NEW t, NEW O, NEW tl, NEW tn, Merges(V, W, C, t, O, tl, tn), NEW new,
         \A o \in O : \E n \in new : n.at = o.at, \A n \in new : \E o \in O : n.at = o.at,
         \A n \in new : Takes(V, C, n), Covers(V, C, new),
         NEW M, Replaced(V, M)
  PROVE  Replaced(W, M)
<1> SUFFICES ASSUME NEW w \in W, NEW k \in DOMAIN w.at, w.at[k] \in M
             PROVE  \E x \in W : k \in DOMAIN x.at /\ Newer(x, w)
  BY DEF Replaced
<1>1. Lands(V, W, C, O, tl, tn) /\ O \subseteq W /\ C \subseteq IdsOf(V) /\ \A v \in V : v.seq \in Nat /\ v.nth \in Nat
  BY DEF Merges, Lands, List, LayerRec
<1>2. CASE w \in O
  <2>1. PICK n \in new : n.at = w.at
    BY <1>2
  <2>2. PICK j \in Inputs(V, C) : /\ k \in DOMAIN j.at /\ j.at[k] = n.at[k]
                                  /\ \A i \in Inputs(V, C) : k \in DOMAIN i.at => i = j \/ Newer(j, i)
    BY <2>1 DEF Takes
  <2>3. j \in V /\ j.at[k] \in M
    BY <2>1, <2>2 DEF Inputs
  <2>4. PICK v \in V : k \in DOMAIN v.at /\ Newer(v, j)
    BY <2>2, <2>3 DEF Replaced
  <2>5. v.id \notin C
    BY <1>1, <2>2, <2>3, <2>4 DEF Inputs, Newer
  <2>6. PICK x \in W : Was(x, v, tl, tn)
    BY <1>1, <2>5 DEF Lands
  <2>7. Newer(x, w)
    BY <1>2, <2>2, <2>4, <2>5, <2>6, MergeBeside
  <2> QED
    BY <2>4, <2>6, <2>7 DEF Was
<1>3. CASE w \notin O
  <2>1. PICK v \in V : v.id \notin C /\ Was(w, v, tl, tn)
    BY <1>1, <1>3 DEF Lands
  <2>2. PICK j \in V : k \in DOMAIN j.at /\ Newer(j, v)
    BY <2>1 DEF Replaced, Was
  <2>3. CASE j.id \in C
    <3>1. PICK n \in new : k \in DOMAIN n.at
      BY <2>2, <2>3 DEF Covers, Inputs
    <3>2. PICK o \in O : k \in DOMAIN o.at
      BY <3>1
    <3>3. Newer(o, w)
      BY <2>1, <2>2, <2>3, MergeBeside DEF Inputs
    <3> QED
      BY <1>1, <3>2, <3>3
  <2>4. CASE j.id \notin C
    <3>1. PICK x \in W : Was(x, j, tl, tn)
      BY <1>1, <2>4 DEF Lands
    <3>2. Newer(x, w)
      BY <1>1, <2>1, <2>2, <2>4, <3>1, WasNewer
    <3> QED
      BY <2>2, <3>1, <3>2 DEF Was
  <2> QED
    BY <2>3, <2>4
<1> QED
  BY <1>2, <1>3

\* Layers put above: entries of the packs that are to go are replaced by theirs.
LEMMA TopEntries ==
  ASSUME NEW V, NEW W, NEW O, NEW tl, NEW tn, Tops(V, W, O, tl, tn), NEW M, Replaced(V, M), NEW L,
         \A o \in O : \A k \in DOMAIN o.at : o.at[k] \notin L,
         \A v \in V : \A k \in DOMAIN v.at : v.at[k] \in L => v.at[k] \in M \/ (v.seq <= tl /\ \E o \in O : k \in DOMAIN o.at)
  PROVE  Replaced(W, L) /\ Taken(V, W, O) /\ Held(V, W)
<1>1. Lands(V, W, {}, O, tl, tn) /\ O \subseteq W
  BY DEF Tops, Lands
<1>2. ASSUME NEW w \in W, NEW k \in DOMAIN w.at, w.at[k] \in L
      PROVE  \E x \in W : k \in DOMAIN x.at /\ Newer(x, w)
  <2>1. PICK v \in V : Was(w, v, tl, tn)
    BY <1>1, <1>2 DEF Lands
  <2>2. CASE v.at[k] \in M
    <3>1. PICK j \in V : k \in DOMAIN j.at /\ Newer(j, v)
      BY <1>2, <2>1, <2>2 DEF Replaced, Was
    <3>2. PICK x \in W : Was(x, j, tl, tn)
      BY <1>1 DEF Lands
    <3>3. Newer(x, w)
      BY <1>1, <2>1, <3>1, <3>2, WasNewer
    <3> QED
      BY <3>1, <3>2, <3>3 DEF Was
  <2>3. CASE v.seq <= tl /\ \E o \in O : k \in DOMAIN o.at
    BY <1>1, <2>1, <2>3, TopNewer
  <2> QED
    BY <1>2, <2>1, <2>2, <2>3 DEF Was
<1>3. Taken(V, W, O) /\ Held(V, W)
  BY <1>1 DEF Lands, Was, Taken, Held
<1> QED
  BY <1>2, <1>3 DEF Replaced

-----------------------------------------------------------------------------
(* The inductive invariant about the order of the layers and what is in    *)
(* them.                                                                   *)

\* A merge of the layers B that puts its output at s is planned or written, and B are there.
Merging(B, s) ==
    \/ \E p \in Plans : LivePlan(plans[p]) /\ B = IdsOf(plans[p].layers) /\ s = plans[p].seq
    \/ \E w \in Maintainers :
          LET ch == process[w].change IN
          /\ Changing(process[w]) /\ ch.keepSeq /\ LiveChange(ch)
          /\ B = ch.oldLayers /\ \E l \in ch.newLayers : s = l.seq

Ordering ==
    /\ Places(View)
    /\ \A B, s : Merging(B, s) => Fits(View, B, s)
    /\ \A B, s, C, t : Merging(B, s) /\ Merging(C, t) => (B = C /\ s = t) \/ Ordered(View, B, s, C, t)

\* What a process is about to land with has not listed the newest of the pending objects,
\* and the merges with an input among those put their outputs at its sequence.
Listed(x) ==
    Matching(x) =>
        /\ \A j \in process[x].listed \cap DOMAIN pending, k \in DOMAIN pending \ process[x].listed : j < k
        /\ \A B, s : Merging(B, s) /\ (\E k \in Late \ process[x].listed : pending[k] \in B) =>
              Exact(View, B, s) /\ x \notin Maintainers

\* A plan remembers its inputs as they are, and its results hold what they hold.
PlanSees(P) ==
    LivePlan(P) =>
        /\ \A a \in P.layers, j \in View : j.id = a.id => j.run = a.run /\ j.at = a.at
        /\ \A a, b \in P.layers, i, j \in View : i.id = a.id /\ j.id = b.id /\ Newer(i, j) => Newer(a, b)
        /\ \A o \in Results(P) : Takes(View, IdsOf(P.layers), o) /\ DOMAIN o.at # {}
        /\ \A i \in P.done : \A a \in P.layers : \A k \in Ranges[i] \cap DOMAIN a.at :
              \E o \in P.result[i] : k \in DOMAIN o.at

\* An entry of the view says that a record is in the pack.
Entered(id) == \E l \in View : \E k \in DOMAIN l.at : l.at[k] = id

\* A worker's change holds what it replaces.
ChangeSees(x, r) ==
    /\ r.change.keepSeq /\ LiveChange(r.change) =>
          /\ \A o \in r.change.newLayers : Takes(View, r.change.oldLayers, o) /\ DOMAIN o.at # {}
          /\ Covers(View, r.change.oldLayers, r.change.newLayers)
    /\ x \in Mergers /\ plans[r.job.plan].there => \A o \in r.change.newLayers : o.seq = plans[r.job.plan].seq
    /\ x \in Maintainers =>
          /\ \A pk \in r.change.newPacks : Pack(pk.id) \in files /\ ~Entered(pk.id)
          /\ Commits \cap r.change.oldPacks \subseteq named
          /\ ~r.change.keepSeq => \A n \in r.change.newLayers :
                /\ DOMAIN n.at # {}
                /\ \A l \in View : \A k \in DOMAIN l.at : l.at[k] \in r.change.oldPacks => k \in DOMAIN n.at

ProcSees(x, r) ==
    /\ x \in Workers /\ Changing(r) => ChangeSees(x, r)
    /\ \A c \in Commits : x = Committer(c) =>
          /\ r.pc \in {"save", "update", "claim", "clear"} => c \in named
          /\ r.pc = "claim" /\ r.base.seq = manifest.seq => \A k \in Late : pending[k] = c => k \in r.listed

\* Packs that are about to be deleted, or are.
Lost == {id \in Ids : Pack(id) \in manifest.retired \/ Pack(id) \notin files}

Records ==
    /\ Replaced(View, Lost)
    /\ \A c \in named : \A k \in KeysOf[c] : \E l \in View : k \in DOMAIN l.at
    /\ \A l \in View : DOMAIN l.at # {} /\ \A k \in DOMAIN l.at : l.at[k] < next.id
    /\ \A pk \in manifest.packs \cup {CommitPack(c) : c \in Commits} :
          /\ pk.keys # {}
          /\ \A l \in View : \A k \in DOMAIN l.at : l.at[k] = pk.id => k \in pk.keys
    /\ \A c \in Commits \ named : Pack(c) \in files /\ c \notin manifest.adopted
    /\ \A k \in Late : pending[k] \notin manifest.adopted

Seeing ==
    /\ \A p \in Plans : PlanSees(plans[p])
    /\ \A x \in Processes : ProcSees(x, process[x])
    /\ \A x \in Processes : Listed(x)

RecordInv == Ordering /\ Records /\ Seeing

OneMaintainer == \A v, w \in Maintainers : v = w

-----------------------------------------------------------------------------
(* The view.                                                               *)

ViewList ==
    /\ List(View) /\ IdsOf(View) = Visible /\ Sorted(View) /\ Bounded(View) /\ Numbered(View)
    /\ View = manifest.layers \cup Stacked(TopSeq(manifest), pending, Late)
    /\ TopSeq(manifest) \in Nat /\ IsFiniteSet(Late) /\ Late \subseteq Nat /\ Late \subseteq DOMAIN pending
    /\ \A k \in Late : pending[k] \in Commits

\* The view: layers apart from each other, sorted and numbered, the pending objects on top.
LEMMA ViewIs == TypeInv /\ IdInv => ViewList
<1> SUFFICES ASSUME TypeInv, IdInv PROVE ViewList
  OBVIOUS
<1>1. Names
  BY DEF IdInv
<1>2. /\ View = manifest.layers \cup Stacked(TopSeq(manifest), pending, Late)
      /\ LayerIds(Latest) = Visible /\ IsFiniteSet(Late)
  BY <1>1, LatestIs DEF View
<1>3. ManifestOK(Latest) /\ TopSeq(manifest) \in Nat
  BY LatestOK
<1>4. \A l, j \in View : l.id = j.id => l = j
  BY <1>1, <1>2, ViewApart
<1>5. Late \subseteq Nat /\ Late \subseteq DOMAIN pending /\ \A k \in Late : pending[k] \in Commits
  BY <1>1, NamesApart
<1> QED
  BY <1>2, <1>3, <1>4, <1>5 DEF ViewList, List, View, IdsOf, LayerIds, ManifestOK, ManifestRec

LEMMA ViewIsNext == ASSUME TypeInv', IdInv' PROVE ViewList'
<1>1. TypeInv' /\ IdInv' => ViewList'
  BY ViewIs, PTL
<1> QED
  BY <1>1

\* Layers of the view: their fields, and no two at one place hold the same record.
LEMMA InView ==
  ASSUME TypeInv, IdInv
  PROVE  /\ \A l \in View : /\ l.id \in Ids /\ l.run \in Ids /\ l.seq \in Nat /\ l.nth \in Nat /\ l.seq > 0
                            /\ DOMAIN l.at \subseteq Keys /\ \A k \in DOMAIN l.at : l.at[k] \in Ids
         /\ \A l, j \in View : l.id = j.id => l = j
         /\ \A l, j \in View : (\E k \in DOMAIN l.at : k \in DOMAIN j.at) => l = j \/ Newer(l, j) \/ Newer(j, l)
<1>1. List(View) /\ Sorted(View) /\ Numbered(View)
  BY ViewIs DEF ViewList
<1>2. \A l \in View : l \in LayerRec
  BY <1>1 DEF List
<1>3. \A l \in View : l.at \in Ats /\ l.id \in Ids /\ l.run \in Ids /\ l.seq \in Nat /\ l.nth \in Nat /\ l.seq > 0
  BY <1>1, <1>2 DEF LayerRec, Numbered
<1>4. \A l \in View : DOMAIN l.at \subseteq Keys /\ \A k \in DOMAIN l.at : l.at[k] \in Ids
  BY <1>3 DEF Ats
<1>5. ASSUME NEW l \in View, NEW j \in View, \E k \in DOMAIN l.at : k \in DOMAIN j.at, l # j
      PROVE  Newer(l, j) \/ Newer(j, l)
  <2>1. ~(l.seq = j.seq /\ l.nth = j.nth)
    BY <1>1, <1>5 DEF Sorted
  <2> QED
    BY <1>3, <2>1 DEF Newer
<1> QED
  BY <1>1, <1>3, <1>4, <1>5 DEF List

-----------------------------------------------------------------------------
(* Steps that leave the view as it is.                                     *)

\* The manifest and the pending objects it has not folded stay; packs are deleted that are
\* retired, or that x wrote and no layer of the view names.
Same(x) ==
    /\ manifest' = manifest /\ View' = View /\ Late' = Late /\ Visible' = Visible
    /\ \A k \in Late : pending'[k] = pending[k]
    /\ DOMAIN pending' \subseteq DOMAIN pending
    /\ \A k \in DOMAIN pending' : pending'[k] = pending[k]
    /\ named' = named /\ next.id <= next'.id
    /\ \A id \in Ids : Pack(id) \in files /\ Pack(id) \notin files' =>
          Pack(id) \in manifest.retired \/ (x \in Maintainers /\ id \in Plans /\ ~Entered(id))

\* A step that leaves the view as it is, records first, then what plans and changes see.
LEMMA SameRecords ==
  ASSUME TypeInv, TypeInv', IdInv, Records, NEW x, Same(x)
  PROVE  Records'
<1>1. /\ manifest' = manifest /\ View' = View /\ Late' = Late /\ named' = named /\ next.id <= next'.id
      /\ \A k \in Late : pending'[k] = pending[k]
      /\ \A id \in Ids : Pack(id) \in files /\ Pack(id) \notin files' =>
            Pack(id) \in manifest.retired \/ (id \in Plans /\ ~Entered(id))
  BY DEF Same
<1>2. /\ next.id \in Nat /\ next'.id \in Nat
      /\ \A l \in View : \A k \in DOMAIN l.at : l.at[k] \in Ids /\ l.at[k] \in Nat
  BY InView, Constants DEF TypeInv, Types
<1>3. Commits \subseteq Ids /\ Commits \cap Plans = {}
  BY Constants
<1>4. Replaced(View, Lost)'
  <2>1. \A l \in View : \A k \in DOMAIN l.at : l.at[k] \in Lost' => l.at[k] \in Lost
    BY <1>1, <1>2 DEF Lost, Entered
  <2>2. Replaced(View, Lost)
    BY DEF Records
  <2> QED
    BY <1>1, <2>1, <2>2 DEF Replaced
<1>5. \A l \in View : DOMAIN l.at # {} /\ \A k \in DOMAIN l.at : l.at[k] < next'.id
  BY <1>1, <1>2 DEF Records
<1>6. \A c \in Commits \ named : Pack(c) \in files' /\ c \notin manifest.adopted
  <2>1. \A c \in Commits \ named : Pack(c) \in files /\ c \notin manifest.adopted
    BY DEF Records
  <2>2. \A c \in Commits \ named : PackFree(c)
    <3>1. Packs
      BY DEF IdInv
    <3>2. \A c \in Commits \ (Placed \cup named) : PackFree(c)
      BY <3>1 DEF Packs
    <3>3. \A c \in Placed \ manifest.adopted : PackFree(c)
      BY <3>1 DEF Packs
    <3> QED
      BY <2>1, <3>2, <3>3
  <2> QED
    BY <1>1, <1>3, <2>1, <2>2 DEF PackFree
<1>7. \A pk \in manifest'.packs \cup {CommitPack(c) : c \in Commits} :
          /\ pk.keys # {}
          /\ \A l \in View' : \A k \in DOMAIN l.at : l.at[k] = pk.id => k \in pk.keys
  BY <1>1 DEF Records
<1>8. \A c \in Commits : CommitPack(c)' = CommitPack(c) /\ KeysOf' = KeysOf
  BY DEF CommitPack
<1>9. \A k \in Late' : pending'[k] \notin manifest'.adopted
  BY <1>1 DEF Records
<1>10. \A c \in named' : \A k \in KeysOf[c] : \E l \in View' : k \in DOMAIN l.at
  BY <1>1 DEF Records
<1> QED
  BY <1>1, <1>4, <1>5, <1>6, <1>7, <1>9, <1>10 DEF Records

LEMMA SamePlan ==
  ASSUME NEW x, Same(x), NEW P, PlanSees(P)
  PROVE  PlanSees(P)'
<1>1. View' = View /\ Visible' = Visible
  BY DEF Same
<1>2. LivePlan(P)' <=> LivePlan(P)
  BY <1>1 DEF LivePlan
<1>3. \A B, o : Takes(View, B, o)' <=> Takes(View, B, o)
  BY <1>1 DEF Takes, Inputs
<1> QED
  BY <1>1, <1>2, <1>3 DEF PlanSees

LEMMA SameChange ==
  ASSUME NEW x, Same(x), NEW y, NEW r, ChangeSees(y, r),
         y \in Mergers /\ plans'[r.job.plan].there =>
            plans[r.job.plan].there /\ plans'[r.job.plan].seq = plans[r.job.plan].seq,
         y \in Maintainers => \A pk \in r.change.newPacks : Pack(pk.id) \in files'
  PROVE  ChangeSees(y, r)'
<1>1. View' = View /\ Visible' = Visible /\ named' = named
  BY DEF Same
<1>2. \A B, o : Takes(View, B, o)' <=> Takes(View, B, o)
  BY <1>1 DEF Takes, Inputs
<1>3. \A B, O : Covers(View, B, O)' <=> Covers(View, B, O)
  BY <1>1 DEF Covers, Inputs
<1>4. \A ch : LiveChange(ch)' <=> LiveChange(ch)
  BY <1>1 DEF LiveChange
<1>5. \A id : Entered(id)' <=> Entered(id)
  BY <1>1 DEF Entered
<1>6. y \in Mergers /\ plans'[r.job.plan].there => \A o \in r.change.newLayers : o.seq = plans'[r.job.plan].seq
  BY DEF ChangeSees
<1> QED
  BY <1>1, <1>2, <1>3, <1>4, <1>5, <1>6 DEF ChangeSees

LEMMA SameProc ==
  ASSUME TypeInv, IdInv, NEW x, Same(x), NEW y \in Processes, x \in Maintainers => y # x, OneMaintainer,
         NEW r, r = process[y], ProcSees(y, r),
         y \in Mergers /\ Changing(r) /\ plans'[r.job.plan].there =>
            plans[r.job.plan].there /\ plans'[r.job.plan].seq = plans[r.job.plan].seq
  PROVE  ProcSees(y, r)'
<1>1. ASSUME y \in Workers, Changing(r) PROVE ChangeSees(y, r)'
  <2>1. ChangeSees(y, r)
    BY <1>1 DEF ProcSees
  <2>2. ASSUME y \in Maintainers, NEW pk \in r.change.newPacks PROVE Pack(pk.id) \in files'
    <3>1. x \notin Maintainers
      BY <2>2 DEF OneMaintainer
    <3>2. PackFree(pk.id)
      <4>1. Packs
        BY DEF IdInv
      <4> QED
        BY <1>1, <2>2, <4>1 DEF Packs
    <3>3. pk.id \in Ids
      <4>1. r.change \in ChangeRec
        BY ProcessTyped DEF ProcRec
      <4> QED
        BY <2>2, <4>1 DEF ChangeRec, PackRec
    <3>4. Pack(pk.id) \in files
      BY <2>1, <2>2 DEF ChangeSees
    <3> QED
      BY <3>1, <3>2, <3>3, <3>4 DEF Same, PackFree
  <2> QED
    BY <1>1, <2>1, <2>2, SameChange
<1>2. ASSUME NEW c \in Commits, y = Committer(c)
      PROVE  /\ r.pc \in {"save", "update", "claim", "clear"} => c \in named'
             /\ r.pc = "claim" /\ r.base.seq = manifest'.seq => \A k \in Late' : pending'[k] = c => k \in r.listed
  BY <1>2 DEF ProcSees, Same
<1> QED
  BY <1>1, <1>2 DEF ProcSees, Workers

\* A merge that no step has planned before fits in with the others.
Fresh(B, s) ==
    /\ Fits(View, B, s) /\ Exact(View, B, s)
    /\ \A C, t : Merging(C, t) => Ordered(View, B, s, C, t)

LEMMA OrderedBoth ==
  ASSUME NEW V, NEW B, NEW s, NEW C, NEW t, Ordered(V, B, s, C, t)
  PROVE  Ordered(V, C, t, B, s)
  BY DEF Ordered

\* At most one merge begins, one that fits in with the others.
LEMMA SameOrder ==
  ASSUME Ordering, View' = View, NEW B0, NEW s0,
         \A B, s : Merging(B, s)' => Merging(B, s) \/ (B = B0 /\ s = s0 /\ Fresh(B0, s0))
  PROVE  Ordering'
<1>1. Places(View)'
  BY DEF Ordering, Places
<1>2. ASSUME NEW B, NEW s, Merging(B, s)' PROVE Fits(View, B, s)
  BY <1>2 DEF Ordering, Fresh
<1>3. ASSUME NEW B, NEW s, NEW C, NEW t, Merging(B, s)', Merging(C, t)'
      PROVE  (B = C /\ s = t) \/ Ordered(View, B, s, C, t)
  <2>1. CASE Merging(B, s) /\ Merging(C, t)
    BY <2>1 DEF Ordering
  <2>2. CASE Merging(B, s) /\ C = B0 /\ t = s0 /\ Fresh(B0, s0)
    <3>1. Ordered(View, C, t, B, s)
      BY <2>2 DEF Fresh
    <3> QED
      BY <3>1, OrderedBoth
  <2>3. CASE Merging(C, t) /\ B = B0 /\ s = s0 /\ Fresh(B0, s0)
    BY <2>3 DEF Fresh
  <2> QED
    BY <1>3, <2>1, <2>2, <2>3
<1>4. \A B, s : Fits(View, B, s)' <=> Fits(View, B, s)
  BY DEF Fits, Inputs
<1>5. \A B, s, C, t : Ordered(View, B, s, C, t)' <=> Ordered(View, B, s, C, t)
  BY DEF Ordered, Inputs
<1> QED
  BY <1>1, <1>2, <1>3, <1>4, <1>5 DEF Ordering

LEMMA SameListed ==
  ASSUME NEW x, Same(x), NEW B0, NEW s0,
         \A B, s : Merging(B, s)' => Merging(B, s) \/ (B = B0 /\ s = s0 /\ Fresh(B0, s0)),
         NEW y \in Processes, Listed(y), process'[y] = process[y],
         y \in Maintainers => ~Matching(y) \/ \A B, s : Merging(B, s)' => Merging(B, s)
  PROVE  Listed(y)'
<1>1. /\ manifest' = manifest /\ View' = View /\ Late' = Late
      /\ \A k \in Late : pending'[k] = pending[k]
      /\ DOMAIN pending' \subseteq DOMAIN pending
  BY DEF Same
<1>2. Matching(y)' <=> Matching(y)
  BY <1>1 DEF Matching
<1>3. \A B, s : Exact(View, B, s)' <=> Exact(View, B, s)
  BY <1>1 DEF Exact, Inputs
<1>4. ASSUME Matching(y), NEW B, NEW s, Merging(B, s)', \E k \in Late \ process[y].listed : pending[k] \in B
      PROVE  Exact(View, B, s) /\ y \notin Maintainers
  BY <1>4 DEF Listed, Fresh
<1> QED
  BY <1>1, <1>2, <1>3, <1>4 DEF Listed

\* A step begins no merge that begins or renews no change.
LEMMA MergingSame ==
  ASSUME TypeInv, Visible' = Visible, NEW x \in Processes, NEW r, process' = [process EXCEPT ![x] = r],
         x \in Maintainers /\ Changing(r) => Changing(process[x]) /\ r.change = process[x].change,
         \A p \in Plans : plans'[p].there =>
            plans[p].there /\ plans'[p].seq = plans[p].seq /\ plans'[p].layers = plans[p].layers
  PROVE  \A B, s : Merging(B, s)' => Merging(B, s)
<1> SUFFICES ASSUME NEW B, NEW s, Merging(B, s)' PROVE Merging(B, s)
  OBVIOUS
<1>1. CASE \E p \in Plans : (LivePlan(plans[p]) /\ B = IdsOf(plans[p].layers) /\ s = plans[p].seq)'
  BY <1>1 DEF LivePlan, Merging, IdsOf
<1>2. ASSUME NEW w \in Maintainers,
             LET ch == process'[w].change IN
             /\ Changing(process'[w]) /\ ch.keepSeq /\ ch.oldLayers \subseteq Visible
             /\ B = ch.oldLayers /\ \E l \in ch.newLayers : s = l.seq
      PROVE  Merging(B, s)
  <2>1. process \in [Processes -> ProcRec] /\ w \in Processes
    BY DEF TypeInv, Types, Processes
  <2>2. Changing(process[w]) /\ process'[w].change = process[w].change
    BY <1>2, <2>1
  <2> QED
    BY <1>2, <2>2 DEF Merging, LiveChange
<1> QED
  BY <1>1, <1>2 DEF Merging, LiveChange, Changing

\* Any step of x that leaves the view as it is.
LEMMA StillRecorded ==
  ASSUME TypeInv, TypeInv', IdInv, RecordInv, OneMaintainer, NEW x \in Processes, Same(x),
         NEW r, process' = [process EXCEPT ![x] = r], ProcSees(x, r)', Listed(x)',
         \A p \in Plans : plans'[p] = plans[p] \/ PlanSees(plans[p])',
         \A p \in Plans : p < next.id /\ plans'[p].there => plans[p].there /\ plans'[p].seq = plans[p].seq,
         NEW B0, NEW s0,
         \A B, s : Merging(B, s)' => Merging(B, s) \/ (B = B0 /\ s = s0 /\ Fresh(B0, s0)),
         (\A w \in Maintainers \ {x} : ~Matching(w)) \/ \A B, s : Merging(B, s)' => Merging(B, s)
  PROVE  RecordInv'
<1>1. process \in [Processes -> ProcRec]
  BY DEF TypeInv, Types
<1>2. Ordering'
  BY SameOrder DEF RecordInv, Same
<1>3. Records'
  BY SameRecords DEF RecordInv
<1>4. ASSUME NEW p \in Plans PROVE PlanSees(plans[p])'
  <2>1. CASE plans'[p] = plans[p]
    <3>1. PlanSees(plans[p])
      BY DEF RecordInv, Seeing
    <3>2. \A P : P = plans[p] => PlanSees(P)'
      BY <3>1, SamePlan
    <3> QED
      BY <2>1, <3>2 DEF PlanSees, LivePlan, Results
  <2> QED
    BY <2>1
<1>5. ASSUME NEW y \in Processes PROVE ProcSees(y, process[y])'
  <2>1. CASE y = x
    <3>1. process'[x] = r
      BY <1>1
    <3> QED
      BY <2>1, <3>1 DEF ProcSees, ChangeSees, Changing, LiveChange
  <2>2. CASE y # x
    <3>1. ProcSees(y, process[y]) /\ process'[y] = process[y]
      BY <1>1, <2>2 DEF RecordInv, Seeing
    <3>2. process[y].job.plan \in Nat /\ process[y].job.plan < next.id
      BY ProcBelow DEF IdInv
    <3>3. y \in Mergers /\ Changing(process[y]) => process[y].job.plan \in Plans
      BY JobTyped DEF Changing
    <3>4. y \in Mergers /\ Changing(process[y]) /\ plans'[process[y].job.plan].there =>
             plans[process[y].job.plan].there /\ plans'[process[y].job.plan].seq = plans[process[y].job.plan].seq
      BY <3>2, <3>3
    <3> QED
      BY <2>2, <3>1, <3>4, SameProc
  <2> QED
    BY <2>1, <2>2
<1>6. ASSUME NEW y \in Processes PROVE Listed(y)'
  <2>1. CASE y # x
    BY <1>1, <2>1, SameListed DEF RecordInv, Seeing
  <2> QED
    BY <2>1
<1> QED
  BY <1>2, <1>3, <1>4, <1>5, <1>6 DEF RecordInv, Seeing

LEMMA SameThere ==
  ASSUME UNCHANGED <<manifest, pending, named>>, next.id <= next'.id, NEW x,
         \A id \in Ids : Pack(id) \in files /\ Pack(id) \notin files' =>
            Pack(id) \in manifest.retired \/ (x \in Maintainers /\ id \in Plans /\ ~Entered(id))
  PROVE  Same(x)
  BY DEF Same, View, Latest, WithPending, Unfolded, Late, Visible

\* A process that is not at a change of the manifest.
LEMMA PlainRecorded ==
  ASSUME TypeInv, TypeInv', IdInv, RecordInv, OneMaintainer, NEW x \in Processes, Same(x),
         NEW r, process' = [process EXCEPT ![x] = r], r.pc \notin {"update", "claim"},
         \A c \in Commits : x = Committer(c) /\ r.pc \in {"save", "clear"} => c \in named,
         \A p \in Plans : plans'[p] = plans[p] \/ PlanSees(plans[p])',
         \A p \in Plans : plans'[p].there =>
            plans[p].there /\ plans'[p].seq = plans[p].seq /\ plans'[p].layers = plans[p].layers
  PROVE  RecordInv'
<1>1. named' = named /\ Visible' = Visible
  BY DEF Same
<1>2. ProcSees(x, r)'
  BY <1>1 DEF ProcSees, Changing
<1>3. Listed(x)'
  <2>1. process'[x] = r
    BY DEF TypeInv, Types
  <2> QED
    BY <2>1 DEF Listed, Matching
<1>4. \A B, s : Merging(B, s)' => Merging(B, s)
  BY <1>1, MergingSame DEF Changing
<1> QED
  BY <1>2, <1>3, <1>4, StillRecorded

\* A process that begins a change of the manifest, or begins again.
LEMMA BeginsRecorded ==
  ASSUME TypeInv, TypeInv', IdInv, RecordInv, OneMaintainer, NEW x \in Processes, Same(x),
         NEW r, process' = [process EXCEPT ![x] = r], r.pc = "update", ProcSees(x, r)', plans' = plans,
         NEW B0, NEW s0,
         \A B, s : Merging(B, s)' => Merging(B, s) \/ (x \in Maintainers /\ B = B0 /\ s = s0 /\ Fresh(B0, s0))
  PROVE  RecordInv'
<1>1. Listed(x)'
  <2>1. process'[x] = r
    BY DEF TypeInv, Types
  <2> QED
    BY <2>1 DEF Listed, Matching
<1>2. (\A w \in Maintainers \ {x} : ~Matching(w)) \/ \A B, s : Merging(B, s)' => Merging(B, s)
  BY DEF OneMaintainer
<1>3. \A B, s : Merging(B, s)' => Merging(B, s) \/ (B = B0 /\ s = s0 /\ Fresh(B0, s0))
  OBVIOUS
<1>4. \A p \in Plans : (plans'[p] = plans[p] \/ PlanSees(plans[p])')
                      /\ (p < next.id /\ plans'[p].there => plans[p].there /\ plans'[p].seq = plans[p].seq)
  OBVIOUS
<1> QED
  BY <1>1, <1>2, <1>3, <1>4, StillRecorded

\* A step that changes no process.
LEMMA OldRecorded ==
  ASSUME TypeInv, TypeInv', IdInv, RecordInv, OneMaintainer, UNCHANGED <<manifest, pending, files, process, named, next>>,
         \A p \in Plans :
            /\ plans'[p].layers = plans[p].layers /\ plans'[p].seq = plans[p].seq /\ plans'[p].there = plans[p].there
            /\ plans'[p].result = plans[p].result /\ plans'[p].done = plans[p].done
  PROVE  RecordInv'
<1>1. Same("free") /\ "free" \notin Maintainers
  <2>1. next.id <= next'.id
    BY DEF TypeInv, Types
  <2> QED
    BY <2>1, SameThere, KeyedLayoutConstants
<1>2. \A p \in Plans : /\ plans'[p].layers = plans[p].layers /\ plans'[p].seq = plans[p].seq /\ plans'[p].there = plans[p].there
                       /\ plans'[p].result = plans[p].result /\ plans'[p].done = plans[p].done
  OBVIOUS
<1>3. ASSUME NEW B, NEW s, Merging(B, s)' PROVE Merging(B, s)
  <2>1. Visible' = Visible
    BY <1>1 DEF Same
  <2> QED
    BY <1>2, <1>3, <2>1 DEF Merging, LivePlan, LiveChange, IdsOf, Changing
<1>4. Ordering'
  <2>1. View' = View /\ Ordering
    BY <1>1 DEF Same, RecordInv
  <2> QED
    BY <1>3, <2>1, SameOrder
<1>5. Records'
  BY <1>1, SameRecords DEF RecordInv
<1>6. ASSUME NEW p \in Plans PROVE PlanSees(plans[p])'
  <2>1. PlanSees(plans[p])
    BY DEF RecordInv, Seeing
  <2>2. \A P : P = plans[p] => PlanSees(P)'
    BY <1>1, <2>1, SamePlan
  <2> QED
    BY <1>2, <2>2 DEF PlanSees, LivePlan, Results
<1>7. ASSUME NEW y \in Processes PROVE ProcSees(y, process[y])'
  <2>1. ProcSees(y, process[y]) /\ process'[y] = process[y]
    BY DEF RecordInv, Seeing
  <2>2. y \in Mergers /\ Changing(process[y]) => process[y].job.plan \in Plans
    BY JobTyped DEF Changing
  <2> QED
    BY <1>1, <1>2, <2>1, <2>2, SameProc
<1>8. ASSUME NEW y \in Processes PROVE Listed(y)'
  BY <1>1, <1>3, SameListed DEF RecordInv, Seeing
<1> QED
  BY <1>4, <1>5, <1>6, <1>7, <1>8 DEF RecordInv, Seeing

-----------------------------------------------------------------------------
(* Commits and what changes no merge.                                      *)

\* A step of a commit that leaves manifest, pending objects and files as they are.
LEMMA CommitRecorded ==
  ASSUME TypeInv, TypeInv', IdInv, RecordInv, OneMaintainer, NEW c \in Commits, NEW r,
         process' = [process EXCEPT ![Committer(c)] = r],
         UNCHANGED <<manifest, pending, files, plans, named>>, next.id <= next'.id,
         r.pc # "claim", r.pc \in {"save", "update", "clear"} => c \in named
  PROVE  RecordInv'
<1> DEFINE y == Committer(c)
<1>1. y \in Processes /\ y \notin Workers /\ y \notin Maintainers /\ \A d \in Commits : y = Committer(d) => d = c
  BY Disjoint DEF Workers
<1>2. \A x : x = y => RecordInv'
  <2> SUFFICES ASSUME NEW x, x = y PROVE RecordInv'
    OBVIOUS
  <2>1. /\ x \in Processes /\ x \notin Workers /\ x \notin Maintainers /\ process' = [process EXCEPT ![x] = r]
        /\ \A d \in Commits : x = Committer(d) => d = c
    BY <1>1
  <2>2. Same(x)
    BY SameThere
  <2>3. ProcSees(x, r)'
    BY <2>1 DEF ProcSees
  <2>4. \A B, s : Merging(B, s)' => Merging(B, s)
    BY <2>1, <2>2, MergingSame DEF Same
  <2>5. Listed(x)'
    <3>1. process'[x] = r
      BY <2>1 DEF TypeInv, Types
    <3> QED
      BY <3>1 DEF Listed, Matching
  <2> QED
    BY <2>1, <2>2, <2>3, <2>4, <2>5, StillRecorded
<1> QED
  BY <1>2

LEMMA CommitStepRecorded ==
  ASSUME TypeInv, TypeInv', IdInv, RecordInv, OneMaintainer, ~TornReads, NEW c \in Commits,
         ReadManifest(c) \/ ListPending(c) \/ SaveTree(c) \/ CommitDies(c)
  PROVE  RecordInv'
<1> DEFINE x == Committer(c)
<1>1. next.id <= next'.id /\ UNCHANGED <<manifest, pending, files, plans, named>>
  BY DEF TypeInv, Types, ReadManifest, ListPending, SaveTree, CommitDies
<1>2. x \in Processes /\ process \in [Processes -> ProcRec] /\ process[x] \in ProcRec
  BY Disjoint DEF TypeInv, Types
<1>3. process[x].pc \in {"save", "update", "claim", "clear"} => c \in named
  BY <1>2 DEF RecordInv, Seeing, ProcSees
<1>4. \E r : /\ process' = [process EXCEPT ![x] = r] /\ r.pc # "claim"
             /\ r.pc \in {"save", "update", "clear"} => c \in named
  <2>1. CASE ReadManifest(c)
    <3>1. process' = [process EXCEPT ![x] = [process[x] EXCEPT !.pc = "list", !.base = manifest]]
      BY <1>2, <2>1 DEF ReadManifest
    <3>2. [process[x] EXCEPT !.pc = "list", !.base = manifest].pc = "list"
      BY <1>2 DEF ProcRec
    <3> QED
      BY <3>1, <3>2
  <2>2. CASE ListPending(c)
    <3>1. process[x].pc = "list" /\ process[x].base.seq = manifest.seq
      BY <2>2 DEF ListPending
    <3>2. process[x].base = manifest
      BY <1>2, <3>1 DEF TypeInv, KeyFacts
    <3>3. CASE c \in Known(process[x].base) \/ Layer(c) \notin files
      <4>1. Known(manifest) = LayerIds(Latest) \cup {id \in Ids : Layer(id) \in manifest.retired}
        BY DEF Known, Latest
      <4>2. Seen(c)
        BY <3>2, <3>3, <4>1, LatestIs DEF IdInv, Seen
      <4>3. c \in named
        BY <4>2 DEF IdInv, Names
      <4>4. process' = [process EXCEPT ![x] = At("save")]
        BY <2>2, <3>3 DEF ListPending
      <4> QED
        BY <4>3, <4>4, AtIs DEF Steps
    <3>4. CASE ~(c \in Known(process[x].base) \/ Layer(c) \notin files)
      <4>1. process' = [process EXCEPT ![x] = [At("put") EXCEPT !.job.range = next.key]]
        BY <2>2, <3>4 DEF ListPending
      <4>2. [At("put") EXCEPT !.job.range = next.key].pc = "put"
        BY AtIs DEF Steps, ProcRec
      <4> QED
        BY <4>1, <4>2
    <3> QED
      BY <3>3, <3>4
  <2>3. CASE SaveTree(c)
    <3>1. process' = [process EXCEPT ![x] = AdoptPacks(c)] /\ c \in named
      BY <1>3, <2>3 DEF SaveTree
    <3> QED
      BY <3>1, AdoptPacksIs
  <2>4. CASE CommitDies(c)
    <3>1. process' = [process EXCEPT ![x] = IF Saved(x) THEN AdoptPacks(c) ELSE At("append")]
      BY <2>4 DEF CommitDies
    <3>2. Saved(x) => c \in named
      BY <1>3 DEF Saved
    <3> QED
      BY <3>1, <3>2, AdoptPacksIs, AtIs DEF Steps
  <2> QED
    BY <2>1, <2>2, <2>3, <2>4
<1> QED
  BY <1>1, <1>4, CommitRecorded

\* A step of a maintainer or merger that deletes nothing and makes no change.
LEMMA WorkerPlain ==
  ASSUME TypeInv, TypeInv', IdInv, RecordInv, OneMaintainer, NEW x \in Workers,
         UNCHANGED <<manifest, pending, plans, named>>, next.id <= next'.id, files \subseteq files',
         NEW r, process' = [process EXCEPT ![x] = r], r.pc \notin {"update", "claim"}
  PROVE  RecordInv'
<1>1. x \in Processes /\ \A c \in Commits : x # Committer(c)
  BY Disjoint DEF Workers
<1>2. Same(x)
  BY SameThere
<1> QED
  BY <1>1, <1>2, PlainRecorded

\* The worker goes on to another place.
LEMMA GotoRecorded ==
  ASSUME TypeInv, TypeInv', IdInv, RecordInv, OneMaintainer, NEW x \in Workers, NEW pc \in Steps \ {"update", "claim"},
         Goto(x, pc), UNCHANGED <<manifest, pending, plans, named>>, next.id <= next'.id, files \subseteq files'
  PROVE  RecordInv'
<1>1. process' = [process EXCEPT ![x] = [process[x] EXCEPT !.pc = pc]] /\ [process[x] EXCEPT !.pc = pc].pc = pc
  <2>1. x \in Processes
    BY Disjoint DEF Workers
  <2> QED
    BY <2>1, GotoIs
<1>2. \E r : process' = [process EXCEPT ![x] = r] /\ r.pc \notin {"update", "claim"}
  BY <1>1
<1> QED
  BY <1>2, WorkerPlain

LEMMA AtRecorded ==
  ASSUME TypeInv, TypeInv', IdInv, RecordInv, OneMaintainer, NEW x \in Workers, NEW pc \in Steps \ {"update", "claim"},
         process' = [process EXCEPT ![x] = At(pc)], UNCHANGED <<manifest, pending, plans, named>>,
         next.id <= next'.id, files \subseteq files'
  PROVE  RecordInv'
  BY AtIs, WorkerPlain

\* Steps of a maintainer at its lease and its passes.
LEMMA MaintainPlainRecorded ==
  ASSUME TypeInv, TypeInv', IdInv, RecordInv, OneMaintainer, NEW w \in Maintainers,
         \/ TakeLease(w) \/ SeeDeadLease(w) \/ BreakLease(w) \/ Release(w) \/ MaintainDies(w)
         \/ NoneDue(w) \/ NoPacksDue(w) \/ NextPass(w) \/ EndPasses(w) \/ Abandon(w)
  PROVE  RecordInv'
<1>1. w \in Workers /\ w \in Processes
  BY Disjoint DEF Workers
<1>2. next.id <= next'.id /\ UNCHANGED <<manifest, pending, plans, named>> /\ files' = files
  BY DEF TypeInv, Types, TakeLease, SeeDeadLease, BreakLease, Release, MaintainDies, NoneDue, NoPacksDue, NextPass,
         EndPasses, Abandon
<1>3. CASE TakeLease(w) \/ SeeDeadLease(w) \/ BreakLease(w) \/ NoneDue(w) \/ NoPacksDue(w)
  <2>1. \E pc \in Steps \ {"update", "claim"} : Goto(w, pc)
    BY <1>3 DEF TakeLease, SeeDeadLease, BreakLease, NoneDue, NoPacksDue, Steps
  <2> QED
    BY <1>1, <1>2, <2>1, GotoRecorded
<1>4. CASE Release(w) \/ MaintainDies(w) \/ NextPass(w) \/ EndPasses(w)
  <2>1. \E pc \in Steps \ {"update", "claim"} : process' = [process EXCEPT ![w] = At(pc)]
    BY <1>4 DEF Release, MaintainDies, NextPass, EndPasses, Idle, Steps
  <2> QED
    BY <1>1, <1>2, <2>1, AtRecorded
<1>5. CASE Abandon(w)
  <2>1. PICK p \in InFlight : process' = [process EXCEPT ![w].pc = "dropAll", ![w].job = Message(p, 0)]
    BY <1>5 DEF Abandon
  <2>2. /\ process' = [process EXCEPT ![w] = [process[w] EXCEPT !.pc = "dropAll", !.job = Message(p, 0)]]
        /\ [process[w] EXCEPT !.pc = "dropAll", !.job = Message(p, 0)].pc = "dropAll"
    BY <1>1, <2>1 DEF TypeInv, Types, ProcRec
  <2>3. \E r : process' = [process EXCEPT ![w] = r] /\ r.pc \notin {"update", "claim"}
    BY <2>2
  <2> QED
    BY <1>1, <1>2, <2>3, WorkerPlain
<1> QED
  BY <1>3, <1>4, <1>5

LEMMA LoseMessageRecorded ==
  ASSUME TypeInv, TypeInv', IdInv, RecordInv, OneMaintainer, NEW m \in queue, LoseMessage(m)
  PROVE  RecordInv'
  BY OldRecorded DEF LoseMessage

\* Plans grow old.
LEMMA AgeRecorded ==
  ASSUME TypeInv, TypeInv', IdInv, RecordInv, OneMaintainer, NEW p \in Plans, Age(p)
  PROVE  RecordInv'
<1>1. UNCHANGED <<manifest, pending, files, process, named, next>> /\ plans' = [plans EXCEPT ![p].old = TRUE]
  BY DEF Age
<1>2. plans \in [Plans -> PlanRec]
  BY DEF TypeInv, Types
<1>3. ASSUME NEW q \in Plans
      PROVE  /\ plans'[q].layers = plans[q].layers /\ plans'[q].seq = plans[q].seq /\ plans'[q].there = plans[q].there
             /\ plans'[q].result = plans[q].result /\ plans'[q].done = plans[q].done
  <2>1. plans[q] \in PlanRec
    BY <1>2
  <2> QED
    BY <1>1, <1>2, <2>1 DEF PlanRec
<1> QED
  BY <1>1, <1>3, OldRecorded

\* A step of a worker that has a plan go, or that leaves what the order needs of it.
LEMMA WorkerPlan ==
  ASSUME TypeInv, TypeInv', IdInv, RecordInv, OneMaintainer, NEW x \in Workers,
         UNCHANGED <<manifest, pending, named>>, next.id <= next'.id, \A id \in Ids : Pack(id) \in files => Pack(id) \in files',
         NEW r, process' = [process EXCEPT ![x] = r], r.pc \notin {"update", "claim"},
         NEW p \in Plans, NEW P, plans' = [plans EXCEPT ![p] = P],
         \/ P = NoPlan
         \/ P.layers = plans[p].layers /\ P.seq = plans[p].seq /\ P.there = plans[p].there /\ PlanSees(P)
  PROVE  RecordInv'
<1>1. x \in Processes /\ \A c \in Commits : x # Committer(c)
  BY Disjoint DEF Workers
<1>2. Same(x)
  BY SameThere
<1>3. /\ \A q \in Plans : q # p => plans'[q] = plans[q]
      /\ plans'[p] = P
  BY DEF TypeInv, Types
<1>4. PlanSees(P)'
  <2>1. P = NoPlan => PlanSees(P)
    BY NoPlanIs DEF PlanSees, LivePlan
  <2> QED
    BY <1>2, <2>1, SamePlan
<1>5. \A q \in Plans : plans'[q] = plans[q] \/ PlanSees(plans[q])'
  BY <1>3, <1>4 DEF PlanSees, LivePlan, Results
<1>6. \A q \in Plans : plans'[q].there =>
         plans[q].there /\ plans'[q].seq = plans[q].seq /\ plans'[q].layers = plans[q].layers
  BY <1>3, NoPlanIs
<1> QED
  BY <1>1, <1>2, <1>5, <1>6, PlainRecorded

LEMMA PlanLike ==
  ASSUME NEW Q, PlanSees(Q), NEW P, P.layers = Q.layers, P.there = Q.there, P.result = Q.result, P.done = Q.done
  PROVE  PlanSees(P)
  BY DEF PlanSees, LivePlan, Results

\* A split merge: its swap, its end, a range.
LEMMA ClaimSwapRecorded ==
  ASSUME TypeInv, TypeInv', IdInv, RecordInv, OneMaintainer, NEW g \in Mergers, ClaimSwap(g)
  PROVE  RecordInv'
<1>1. UNCHANGED <<manifest, pending, files, named>> /\ next.id <= next'.id /\ g \in Workers /\ g \in Processes
  BY Disjoint DEF ClaimSwap, TypeInv, Types, Workers
<1>2. CASE PlanOf(g).claimed
  <2>1. process' = [process EXCEPT ![g] = Idle] /\ plans' = plans
    BY <1>2 DEF ClaimSwap
  <2> QED
    BY <1>1, <2>1, IdleIs, WorkerPlain
<1>3. CASE ~PlanOf(g).claimed
  <2> DEFINE p == process[g].job.plan
  <2>1. PICK P \in PlanRec :
           /\ plans' = [plans EXCEPT ![p] = P] /\ p \in Plans /\ Goto(g, "results")
           /\ P.layers = plans[p].layers /\ P.there = plans[p].there /\ P.seq = plans[p].seq /\ P.result = plans[p].result
           /\ P.done = plans[p].done
    BY <1>3, ClaimSwapIs
  <2>2. PlanSees(P)
    <3>1. PlanSees(plans[p])
      BY <2>1 DEF RecordInv, Seeing
    <3> QED
      BY <2>1, <3>1, PlanLike
  <2>3. \E r : process' = [process EXCEPT ![g] = r] /\ r.pc \notin {"update", "claim"}
    <3>1. "results" \in Steps
      BY DEF Steps
    <3>2. \A r : r = [process[g] EXCEPT !.pc = "results"] => process' = [process EXCEPT ![g] = r] /\ r.pc = "results"
      BY <1>1, <2>1, <3>1, GotoIs
    <3> QED
      BY <3>2
  <2> HIDE DEF p
  <2> QED
    BY <1>1, <2>1, <2>2, <2>3, WorkerPlan
<1> QED
  BY <1>2, <1>3

LEMMA DropMergeRecorded ==
  ASSUME TypeInv, TypeInv', IdInv, RecordInv, OneMaintainer, NEW x \in Workers, DropMerge(x)
  PROVE  RecordInv'
<1> DEFINE p == process[x].job.plan
           pc == IF x \in Maintainers THEN "layers" ELSE "idle"
<1>1. /\ process[x].pc = "dropping" /\ plans' = [plans EXCEPT ![p] = NoPlan] /\ files' = files \ process[x].listed
      /\ process' = [process EXCEPT ![x] = At(pc)] /\ UNCHANGED <<manifest, pending, named, next>>
  BY DEF DropMerge
<1>2. x \in Processes /\ ProcShape(x, process[x])
  BY Disjoint, ProcessTyped DEF Workers
<1>3. p \in Plans
  BY <1>1, <1>2 DEF Workers, ProcShape, MaintainShape, MergeShape
<1>4. \A f \in process[x].listed : \E id \in Plans : f = Layer(id)
  BY <1>1, <1>2, ProcBelow DEF IdInv, ProcIds
<1>5. \A id \in Ids : Pack(id) \in files => Pack(id) \in files'
  BY <1>1, <1>4 DEF Pack, Layer
<1>6. At(pc).pc \notin {"update", "claim"} /\ next.id <= next'.id
  BY <1>1, AtIs DEF Steps, TypeInv, Types
<1> HIDE DEF p, pc
<1> QED
  BY <1>1, <1>3, <1>5, <1>6, WorkerPlan

LEMMA ListMergeRecorded ==
  ASSUME TypeInv, TypeInv', IdInv, RecordInv, OneMaintainer, NEW x \in Workers, ListMerge(x)
  PROVE  RecordInv'
<1>1. UNCHANGED <<manifest, pending, plans, named>> /\ next.id <= next'.id /\ files \subseteq files'
  BY DEF ListMerge, TypeInv, Types
<1>2. x \in Processes
  BY Disjoint DEF Workers
<1> DEFINE r == [process[x] EXCEPT !.pc = "dropping", !.listed = {Layer(l.id) : l \in Results(PlanOf(x))}]
<1>3. process' = [process EXCEPT ![x] = r] /\ r.pc = "dropping"
  BY <1>2 DEF ListMerge, TypeInv, Types, ProcRec
<1>4. \E s : process' = [process EXCEPT ![x] = s] /\ s.pc \notin {"update", "claim"}
  BY <1>3
<1> QED
  BY <1>1, <1>4, WorkerPlain

\* A split merge's jobs, but for the writes.
LEMMA MergeJobRecorded ==
  ASSUME TypeInv, TypeInv', IdInv, RecordInv, OneMaintainer, NEW g \in Mergers,
         (\E m \in queue : StartRange(g, m)) \/ CheckInputs(g) \/ CountRanges(g) \/ MergeDies(g)
  PROVE  RecordInv'
<1>1. g \in Workers
  BY DEF Workers
<1>2. UNCHANGED <<manifest, pending, plans, named>> /\ next.id <= next'.id /\ files \subseteq files'
  BY DEF StartRange, CheckInputs, CountRanges, MergeDies, TypeInv, Types
<1>3. ASSUME NEW m \in queue, StartRange(g, m) PROVE RecordInv'
  <2>1. \E r : process' = [process EXCEPT ![g] = r] /\ r.pc \notin {"update", "claim"}
    BY <1>3, StartRangeIs, IdleIs
  <2> QED
    BY <1>1, <1>2, <2>1, WorkerPlain
<1>4. CASE CheckInputs(g)
  <2>1. \E pc \in Steps \ {"update", "claim"} : Goto(g, pc)
    BY <1>4 DEF CheckInputs, Steps
  <2> QED
    BY <1>1, <1>2, <2>1, GotoRecorded
<1>5. CASE CountRanges(g)
  <2>1. (\E pc \in Steps \ {"update", "claim"} : Goto(g, pc)) \/ process' = [process EXCEPT ![g] = Idle]
    BY <1>5 DEF CountRanges, Steps
  <2> QED
    BY <1>1, <1>2, <2>1, GotoRecorded, IdleIs, WorkerPlain
<1>6. CASE MergeDies(g)
  <2>1. process' = [process EXCEPT ![g] = Idle]
    BY <1>6 DEF MergeDies
  <2> QED
    BY <1>1, <1>2, <2>1, IdleIs, WorkerPlain
<1> QED
  BY <1>3, <1>4, <1>5, <1>6

\* The split merge's change holds what its plan's results do.
LEMMA MergeSwapRecorded ==
  ASSUME TypeInv, TypeInv', IdInv, RecordInv, OneMaintainer, NEW g \in Mergers, MergeSwap(g)
  PROVE  RecordInv'
<1> DEFINE p == process[g].job.plan
<1>1. /\ g \in Workers /\ g \in Processes /\ g \notin Maintainers /\ process[g].pc = "results"
      /\ \A c \in Commits : g # Committer(c)
  BY Disjoint DEF Workers, MergeSwap
<1>2. UNCHANGED <<manifest, pending, plans, named, files>> /\ next.id <= next'.id
  BY DEF MergeSwap, TypeInv, Types
<1>3. CASE PlanOf(g).done # DOMAIN Ranges
  <2>1. \E pc \in Steps \ {"update", "claim"} : Goto(g, pc)
    BY <1>3 DEF MergeSwap, Steps
  <2> QED
    BY <1>1, <1>2, <2>1, GotoRecorded
<1>4. CASE PlanOf(g).done = DOMAIN Ranges
  <2>1. PICK r \in ProcRec :
           /\ process' = [process EXCEPT ![g] = r] /\ p \in Plans
           /\ r.pc = "update" /\ r.job = process[g].job
           /\ r.change.oldLayers = IdsOf(plans[p].layers) /\ r.change.newLayers = Results(plans[p])
           /\ RunSwapped(r.change, p)
    BY <1>4, MergeSwapIs DEF IdsOf
  <2> DEFINE P == plans[p]
  <2>2. Same(g)
    BY <1>2, SameThere
  <2>3. P \in PlanRec /\ PlanShape(p, P) /\ P.done = DOMAIN Ranges /\ PlanSees(P)
    BY <1>4, <2>1 DEF TypeInv, Types, Shapes, PlanOf, RecordInv, Seeing
  <2>4. ChangeSees(g, r)
    <3>1. ASSUME LiveChange(r.change), P.there
          PROVE  /\ \A o \in r.change.newLayers : Takes(View, r.change.oldLayers, o) /\ DOMAIN o.at # {}
                 /\ Covers(View, r.change.oldLayers, r.change.newLayers)
      <4>1. LivePlan(P)
        BY <2>1, <3>1 DEF LivePlan, LiveChange
      <4>2. \A o \in r.change.newLayers : Takes(View, r.change.oldLayers, o) /\ DOMAIN o.at # {}
        BY <2>1, <2>3, <4>1 DEF PlanSees
      <4>3. ASSUME NEW j \in Inputs(View, r.change.oldLayers), NEW k \in DOMAIN j.at
            PROVE  \E o \in r.change.newLayers : k \in DOMAIN o.at
        <5>1. PICK a \in P.layers : a.id = j.id
          BY <2>1 DEF Inputs, IdsOf
        <5>2. j \in View /\ a.at = j.at
          BY <2>3, <4>1, <5>1 DEF PlanSees, Inputs
        <5>3. k \in Keys
          BY <5>2, InView
        <5>4. PICK i \in DOMAIN Ranges : k \in Ranges[i]
          BY <5>3 DEF Keys
        <5>5. PICK o \in P.result[i] : k \in DOMAIN o.at
          BY <2>3, <4>1, <5>2, <5>4 DEF PlanSees
        <5>6. o \in Results(P)
          BY DEF Results
        <5> QED
          BY <2>1, <5>5, <5>6
      <4> QED
        BY <4>2, <4>3 DEF Covers
    <3>2. ASSUME ~P.there
          PROVE  /\ \A o \in r.change.newLayers : Takes(View, r.change.oldLayers, o) /\ DOMAIN o.at # {}
                 /\ Covers(View, r.change.oldLayers, r.change.newLayers)
      <4>1. r.change.oldLayers = {} /\ r.change.newLayers = {}
        BY <2>1, <3>2, PlanNot DEF IdsOf
      <4> QED
        BY <4>1 DEF Covers, Inputs
    <3>3. \A o \in r.change.newLayers : o.seq = P.seq
      BY <2>1, ResultsIs
    <3> QED
      BY <1>1, <2>1, <3>1, <3>2, <3>3 DEF ChangeSees
  <2>5. ProcSees(g, r)'
    <3>1. ChangeSees(g, r)'
      BY <1>1, <1>2, <2>2, <2>4, SameChange
    <3> QED
      BY <1>1, <3>1 DEF ProcSees
  <2>6. \A B, s : Merging(B, s)' => Merging(B, s)
    BY <1>1, <1>2, <2>1, <2>2, MergingSame DEF Same
  <2> HIDE DEF p, P
  <2> QED
    BY <1>1, <1>2, <2>1, <2>2, <2>5, <2>6, BeginsRecorded
<1> QED
  BY <1>3, <1>4

\* What the newest of the layers of a plan say of a record is what the newest of them in
\* the view says.
LEMMA PlanTakes ==
  ASSUME TypeInv, IdInv, NEW P \in PlanRec, LivePlan(P), Sorted(P.layers), Bounded(P.layers), PlanSees(P),
         NEW keys \in SUBSET Keys, NEW o, o.at = Merged(P.layers, keys)
  PROVE  Takes(View, IdsOf(P.layers), o)
<1> DEFINE ls == P.layers
<1> SUFFICES ASSUME NEW k \in DOMAIN o.at
             PROVE  \E j \in Inputs(View, IdsOf(ls)) :
                       /\ k \in DOMAIN j.at /\ j.at[k] = o.at[k]
                       /\ \A i \in Inputs(View, IdsOf(ls)) : k \in DOMAIN i.at => i = j \/ Newer(j, i)
  BY DEF Takes
<1>1. ls \subseteq LayerRec /\ \A l \in ls : l.seq \in Nat /\ l.nth \in Nat
  BY DEF PlanRec, LayerRec
<1>2. PICK a \in ls : /\ k \in DOMAIN a.at /\ o.at[k] = a.at[k]
                      /\ \A b \in ls : k \in DOMAIN b.at => b = a \/ Newer(a, b)
  BY <1>1, MergedIs
<1>3. IdsOf(View) = Visible
  BY ViewIs DEF ViewList
<1>4. PICK j \in View : j.id = a.id
  BY <1>3 DEF LivePlan, IdsOf
<1>5. /\ \A b \in ls, i \in View : i.id = b.id => i.run = b.run /\ i.at = b.at
      /\ \A b, c \in ls, i, l \in View : i.id = b.id /\ l.id = c.id /\ Newer(i, l) => Newer(b, c)
  BY DEF PlanSees
<1>6. ASSUME NEW i \in Inputs(View, IdsOf(ls)), k \in DOMAIN i.at PROVE i = j \/ Newer(j, i)
  <2>1. PICK b \in ls : b.id = i.id
    BY DEF Inputs, IdsOf
  <2>2. i \in View /\ k \in DOMAIN b.at
    BY <1>5, <1>6, <2>1 DEF Inputs
  <2>3. k \in DOMAIN j.at
    BY <1>2, <1>4, <1>5
  <2>4. i = j \/ Newer(j, i) \/ Newer(i, j)
    BY <1>6, <2>2, <2>3, InView
  <2>5. Newer(i, j) => Newer(b, a)
    BY <1>4, <1>5, <2>1, <2>2
  <2>6. b = a \/ Newer(a, b)
    BY <1>2, <2>2
  <2>7. ~(Newer(a, b) /\ Newer(b, a))
    BY <1>1 DEF Newer
  <2>8. b = a => i = j
    BY <1>4, <2>1, <2>2, InView
  <2> QED
    BY <2>4, <2>5, <2>6, <2>7, <2>8
<1>7. j \in Inputs(View, IdsOf(ls)) /\ j.at = a.at
  BY <1>4, <1>5 DEF Inputs, IdsOf
<1> QED
  BY <1>2, <1>6, <1>7

\* The result of a range takes the newest entries of the inputs.
LEMMA MergeRangeRecorded ==
  ASSUME TypeInv, TypeInv', IdInv, RecordInv, OneMaintainer, NEW g \in Mergers, MergeRange(g)
  PROVE  RecordInv'
<1> DEFINE p == process[g].job.plan
           i == process[g].job.range
           at == Merged(plans[p].layers, Ranges[i])
<1>1. PICK P \in PlanRec :
          /\ plans' = [plans EXCEPT ![p] = P]
          /\ P.layers = plans[p].layers /\ P.seq = plans[p].seq /\ P.there = plans[p].there
          /\ P.done = plans[p].done \cup {i}
          /\ \A j \in DOMAIN Ranges : j # i => P.result[j] = plans[p].result[j]
          /\ PlanShape(p, P)
          /\ \/ DOMAIN at = {} /\ P.result[i] = {} /\ files' = files /\ next' = next
             \/ /\ DOMAIN at # {} /\ P.result[i] = {RangeRun(next.id, p, i)} /\ files' = files \cup {Layer(next.id)}
                /\ next' = [next EXCEPT !.id = @ + 1]
                /\ RangeRun(next.id, p, i).at = at
  BY MergeRangeIs
<1>2. /\ p \in Plans /\ i \in DOMAIN Ranges
      /\ \A k : k \in DOMAIN at <=> k \in Ranges[i] /\ \E l \in plans[p].layers : k \in DOMAIN l.at
  BY MergeRangeIs, SMTT(30)
<1>3. g \in Workers /\ g \in Processes /\ UNCHANGED <<manifest, pending, named>> /\ Goto(g, "count")
  BY Disjoint, ZenonT(30) DEF Workers, MergeRange
<1>4. next.id <= next'.id /\ \A id \in Ids : Pack(id) \in files => Pack(id) \in files'
  <2>1. next \in [id : Nat, key : Nat]
    BY DEF TypeInv, Types
  <2>2. next'.id = next.id \/ next'.id = next.id + 1
    BY <1>1, <2>1
  <2>3. files \subseteq files'
    BY <1>1
  <2> QED
    BY <2>1, <2>2, <2>3
<1>5. \E r : process' = [process EXCEPT ![g] = r] /\ r.pc \notin {"update", "claim"}
  <2>1. "count" \in Steps
    BY DEF Steps
  <2>2. \A r : r = [process[g] EXCEPT !.pc = "count"] => process' = [process EXCEPT ![g] = r] /\ r.pc = "count"
    BY <1>3, <2>1, GotoIs
  <2> QED
    BY <2>2
<1>6. PlanSees(plans[p]) /\ plans[p] \in PlanRec /\ PlanShape(p, plans[p]) /\ Ranges[i] \in SUBSET Keys
  BY <1>2, Constants DEF RecordInv, Seeing, TypeInv, Types, Shapes
<1> HIDE DEF p, i
<1>7. PlanSees(P)
  <2> SUFFICES ASSUME LivePlan(P) PROVE PlanSees(P)
    BY DEF PlanSees
  <2>1. LivePlan(plans[p])
    BY <1>1 DEF LivePlan
  <2>2. ASSUME NEW o \in Results(P) PROVE Takes(View, IdsOf(P.layers), o) /\ DOMAIN o.at # {}
    <3>1. PICK j \in DOMAIN Ranges : o \in P.result[j]
      BY DEF Results
    <3>2. CASE j # i
      <4>1. o \in Results(plans[p])
        BY <1>1, <3>1, <3>2 DEF Results
      <4> QED
        BY <1>1, <1>6, <2>1, <4>1 DEF PlanSees
    <3>3. CASE j = i
      <4>1. DOMAIN at # {} /\ o.at = at
        BY <1>1, <3>1, <3>3
      <4>2. Sorted(plans[p].layers) /\ Bounded(plans[p].layers)
        BY <1>6 DEF PlanShape
      <4>3. Takes(View, IdsOf(plans[p].layers), o)
        BY <1>6, <2>1, <4>1, <4>2, PlanTakes
      <4> QED
        BY <1>1, <4>1, <4>3
    <3> QED
      BY <3>2, <3>3
  <2>3. ASSUME NEW j \in P.done, NEW a \in P.layers, NEW k \in Ranges[j] \cap DOMAIN a.at
        PROVE  \E o \in P.result[j] : k \in DOMAIN o.at
    <3>1. CASE j = i
      <4>1. k \in DOMAIN at
        BY <1>1, <1>2, <2>3, <3>1
      <4> QED
        BY <1>1, <3>1, <4>1
    <3>2. CASE j # i
      <4>1. j \in plans[p].done /\ j \in DOMAIN Ranges
        BY <1>1, <1>6, <3>2 DEF PlanRec
      <4>2. \E o \in plans[p].result[j] : k \in DOMAIN o.at
        BY <1>1, <1>6, <2>1, <2>3, <4>1 DEF PlanSees
      <4> QED
        BY <1>1, <3>2, <4>1, <4>2
    <3> QED
      BY <3>1, <3>2
  <2>4. /\ \A a \in P.layers, j \in View : j.id = a.id => j.run = a.run /\ j.at = a.at
        /\ \A a, b \in P.layers, l, j \in View : l.id = a.id /\ j.id = b.id /\ Newer(l, j) => Newer(a, b)
    BY <1>1, <1>6, <2>1 DEF PlanSees
  <2> QED
    BY <2>2, <2>3, <2>4 DEF PlanSees
<1> QED
  BY <1>1, <1>2, <1>3, <1>4, <1>5, <1>7, WorkerPlan

\* A stretch of layers that no split merge holds fits, and in order with those.
LEMMA StretchFresh ==
  ASSUME TypeInv, IdInv, RecordInv, OneMaintainer, NEW w \in Maintainers, ~Changing(process[w]), NEW ls \in Stretches(View)
  PROVE  /\ Fresh(IdsOf(ls), NewestSeq(ls)) /\ IdsOf(ls) \subseteq Visible
         /\ Inputs(View, IdsOf(ls)) = ls /\ ls \subseteq View /\ ls # {} /\ Sorted(ls) /\ Bounded(ls) /\ ls \subseteq LayerRec
<1> DEFINE V == View
           s == NewestSeq(ls)
<1>1. /\ ls \subseteq V
      /\ \A l \in ls : l.run \notin Blocked
      /\ \E l, j \in ls : l.run # j.run
      /\ \A l \in V \ ls : (\A j \in ls : Newer(l, j)) \/ (\A j \in ls : Newer(j, l))
  BY StretchIs
<1>2. /\ \A l \in V : l.seq \in Nat /\ l.nth \in Nat
      /\ \A l, j \in V : l.id = j.id => l = j
      /\ IdsOf(V) = Visible /\ V \subseteq LayerRec /\ Sorted(V) /\ Bounded(V)
  BY InView, ViewIs DEF ViewList, List
<1>3. Inputs(V, IdsOf(ls)) = ls /\ \A z \in V : z.id \notin IdsOf(ls) <=> z \notin ls
  BY <1>1, <1>2 DEF Inputs, IdsOf
<1>4. ls # {} /\ Sorted(ls) /\ Bounded(ls) /\ ls \subseteq LayerRec
  BY <1>1, <1>2 DEF Sorted, Bounded
<1>5. s \in Nat /\ (\A l \in ls : l.seq <= s) /\ \E l \in ls : l.seq = s
  BY <1>4, NewestSeqIs
<1>6. Places(V)
  BY DEF RecordInv, Ordering
<1> HIDE DEF V, s
\* The layers of a stretch are not all at one place.
<1>7. ~\E n : \A l, j \in ls : l.seq = j.seq /\ l.nth = n /\ j.nth = n
  BY <1>1, <1>6 DEF Places
<1>8. ASSUME NEW z \in V \ ls
      PROVE  \/ z.seq >= s /\ \A j \in ls : Newer(z, j)
             \/ z.seq < s /\ \A j \in ls : Newer(j, z)
  <2>1. CASE \A j \in ls : Newer(z, j)
    BY <1>1, <1>2, <1>5, <2>1 DEF Newer
  <2>2. CASE \A j \in ls : Newer(j, z)
    <3>1. z.seq < s
      <4> SUFFICES ASSUME z.seq >= s PROVE FALSE
        BY <1>2, <1>5
      <4>1. \A j \in ls : j.seq = s /\ z.seq = s /\ j.nth # z.nth
        BY <1>1, <1>2, <1>5, <2>2 DEF Newer
      <4>2. \A i, j \in ls : i.nth = j.nth
        BY <1>1, <1>6, <4>1 DEF Places
      <4> QED
        BY <1>5, <1>7, <4>1, <4>2
    <3> QED
      BY <2>2, <3>1
  <2> QED
    BY <1>1, <2>1, <2>2
<1>9. ASSUME NEW y \in V \ ls, NEW z \in V \ ls, y.seq = s, z.seq = s PROVE y.nth = z.nth
  <2>1. PICK j \in ls : j.seq = s
    BY <1>5
  <2>2. j \in V /\ y.nth # j.nth /\ z.nth # j.nth
    BY <1>1, <1>2, <1>9, <2>1 DEF Newer
  <2> QED
    BY <1>6, <1>9, <2>1, <2>2 DEF Places
<1>10. Fits(V, IdsOf(ls), s)
  <2>1. \A z \in V : z.id \notin IdsOf(ls) =>
            \/ z.seq >= s /\ \A j \in Inputs(V, IdsOf(ls)) : Newer(z, j)
            \/ z.seq < s /\ \A j \in Inputs(V, IdsOf(ls)) : Newer(j, z)
    BY <1>3, <1>8
  <2>2. \A y, z \in V : y.id \notin IdsOf(ls) /\ z.id \notin IdsOf(ls) /\ y.seq = s /\ z.seq = s => y.nth = z.nth
    BY <1>3, <1>9
  <2>3. \A j \in Inputs(V, IdsOf(ls)) : j.seq <= s + 1
    BY <1>1, <1>2, <1>3, <1>5
  <2>4. \E j \in Inputs(V, IdsOf(ls)) : s <= j.seq + 1
    BY <1>1, <1>2, <1>3, <1>5
  <2>5. \E i, j \in Inputs(V, IdsOf(ls)) : i # j
    BY <1>1, <1>3
  <2> QED
    BY <2>1, <2>2, <2>3, <2>4, <2>5 DEF Fits
<1>11. Exact(V, IdsOf(ls), s)
  BY <1>3, <1>5 DEF Exact
<1>12. ASSUME NEW C, NEW t, Merging(C, t) PROVE Ordered(V, IdsOf(ls), s, C, t)
  <2>1. PICK p \in Plans : LivePlan(plans[p]) /\ C = IdsOf(plans[p].layers) /\ t = plans[p].seq
    BY <1>12 DEF Merging, OneMaintainer
  <2>2. PlanSees(plans[p]) /\ plans[p] \in PlanRec
    BY DEF RecordInv, Seeing, TypeInv, Types
  <2>3. IdsOf(ls) \cap C = {}
    <3> SUFFICES ASSUME NEW l \in ls, NEW a \in plans[p].layers, l.id = a.id PROVE FALSE
      BY <2>1 DEF IdsOf
    <3>1. l.run = a.run
      BY <1>1, <2>1, <2>2 DEF PlanSees, V
    <3>2. p \in InFlight
      BY <2>1 DEF InFlight, LivePlan
    <3>3. a.run \in Blocked
      BY <3>2 DEF Blocked
    <3> QED
      BY <1>1, <3>1, <3>3
  <2>4. Fits(V, C, t) /\ t \in Nat
    <3>1. t \in Nat
      BY <2>1, <2>2 DEF PlanRec
    <3> QED
      BY <1>12, <3>1 DEF RecordInv, Ordering, V
  <2>5. \A i \in ls : \/ i.seq >= t /\ \A j \in Inputs(V, C) : Newer(i, j)
                      \/ i.seq < t /\ \A j \in Inputs(V, C) : Newer(j, i)
    <3>1. \A i \in ls : i.id \notin C /\ i \in V
      BY <1>1, <2>3 DEF IdsOf
    <3> QED
      BY <2>4, <3>1 DEF Fits
  <2>6. ASSUME NEW i \in ls, NEW j \in Inputs(V, C) PROVE (Newer(j, i) => s < t) /\ (Newer(i, j) => t < s)
    <3>1. j \in V \ ls
      BY <2>3 DEF Inputs, IdsOf
    <3>2. ASSUME Newer(j, i) PROVE s < t
      <4>1. \A l \in ls : Newer(j, l)
        BY <1>1, <1>2, <3>1, <3>2 DEF Newer
      <4>2. PICK l \in ls : l.seq = s
        BY <1>5
      <4>3. ~Newer(l, j)
        BY <1>1, <1>2, <3>1, <4>1 DEF Newer
      <4> QED
        BY <2>5, <4>2, <4>3
    <3>3. ASSUME Newer(i, j) PROVE t < s
      <4>1. \A l \in ls : ~Newer(j, l)
        BY <1>1, <1>2, <3>1, <3>3 DEF Newer
      <4>2. \A l \in ls : l.seq >= t
        BY <2>5, <4>1
      <4>3. s # t
        <5> SUFFICES ASSUME s = t PROVE FALSE
          OBVIOUS
        <5>1. \A l \in ls : l.seq = t /\ l \in V /\ l.id \notin C
          BY <1>1, <1>2, <1>5, <2>3, <2>4, <4>2 DEF IdsOf
        <5>2. \A l, k \in ls : l.nth = k.nth
          BY <2>4, <5>1 DEF Fits
        <5> QED
          BY <1>4, <1>7, <5>1, <5>2
      <4> QED
        BY <1>2, <1>1, <1>5, <2>4, <4>2, <4>3
    <3> QED
      BY <3>2, <3>3
  <2> QED
    BY <1>3, <2>3, <2>6 DEF Ordered
<1>13. Fresh(IdsOf(ls), s)
  BY <1>10, <1>11, <1>12 DEF Fresh, V
<1>14. IdsOf(ls) \subseteq Visible
  BY <1>1, <1>2 DEF IdsOf
<1> QED
  BY <1>1, <1>3, <1>4, <1>13, <1>14 DEF V, s

\* A merge under way after a step of the maintainer was before, or is the one it begins.
LEMMA MergingBegun ==
  ASSUME TypeInv, OneMaintainer, NEW w \in Maintainers, NEW r, process' = [process EXCEPT ![w] = r], Visible' = Visible,
         plans' = plans
  PROVE  \A B, s : Merging(B, s)' =>
            Merging(B, s) \/ (r.change.keepSeq /\ B = r.change.oldLayers /\ \E l \in r.change.newLayers : s = l.seq)
<1> SUFFICES ASSUME NEW B, NEW s, Merging(B, s)'
             PROVE  Merging(B, s) \/ (r.change.keepSeq /\ B = r.change.oldLayers /\ \E l \in r.change.newLayers : s = l.seq)
  OBVIOUS
<1>1. CASE \E p \in Plans : (LivePlan(plans[p]) /\ B = IdsOf(plans[p].layers) /\ s = plans[p].seq)'
  BY <1>1 DEF LivePlan, Merging, IdsOf
<1>2. ASSUME NEW v \in Maintainers, process'[v].change.keepSeq,
             B = process'[v].change.oldLayers, \E l \in process'[v].change.newLayers : s = l.seq
      PROVE  r.change.keepSeq /\ B = r.change.oldLayers /\ \E l \in r.change.newLayers : s = l.seq
  <2>1. process'[v] = r
    BY Disjoint DEF TypeInv, Types, OneMaintainer
  <2> QED
    BY <1>2, <2>1
<1> QED
  BY <1>1, <1>2 DEF Merging

\* The maintainer merges layers itself.
LEMMA MergeLayersRecorded ==
  ASSUME TypeInv, TypeInv', IdInv, RecordInv, OneMaintainer, NEW w \in Maintainers, MergeLayers(w)
  PROVE  RecordInv'
<1>1. PICK ls \in Stretches(Latest.layers) : \E r \in ProcRec :
          /\ process' = [process EXCEPT ![w] = r] /\ r.pc = "update"
          /\ LayersMerged(r.change)
          /\ r.change.oldLayers = {l.id : l \in ls} /\ r.change.newLayers = {MergedRun(next.id, ls)}
          /\ ls # {} /\ next.id \in Plans /\ Sorted(ls) /\ Bounded(ls) /\ Numbered(ls)
  BY MergeLayersIs
<1>2. PICK r \in ProcRec :
          /\ process' = [process EXCEPT ![w] = r] /\ r.pc = "update"
          /\ LayersMerged(r.change)
          /\ r.change.oldLayers = {l.id : l \in ls} /\ r.change.newLayers = {MergedRun(next.id, ls)}
          /\ ls # {} /\ next.id \in Plans /\ Sorted(ls) /\ Bounded(ls) /\ Numbered(ls)
  BY <1>1
<1>3. /\ w \in Workers /\ w \in Processes /\ w \notin Mergers /\ \A c \in Commits : w # Committer(c)
      /\ UNCHANGED <<manifest, pending, plans, named>> /\ files' = files \cup {Layer(next.id)} /\ process[w].pc = "layers"
      /\ next' = [next EXCEPT !.id = @ + 1] /\ next \in [id : Nat, key : Nat]
  BY Disjoint DEF Workers, MergeLayers, TypeInv, Types
<1>4. Same(w)
  <2>1. next.id <= next'.id
    BY <1>3
  <2> QED
    BY <1>3, <2>1, SameThere
<1> DEFINE s == NewestSeq(ls)
<1>5. /\ Fresh(IdsOf(ls), s) /\ Inputs(View, IdsOf(ls)) = ls /\ ls \subseteq View /\ ls \subseteq LayerRec
  <2>1. ls \in Stretches(View) /\ ~Changing(process[w])
    BY <1>3 DEF View, Changing
  <2> QED
    BY <2>1, StretchFresh
<1>6. MergedRun(next.id, ls).seq = s /\ MergedRun(next.id, ls).at = Merged(ls, Keys)
  BY DEF MergedRun
<1> HIDE DEF s
<1>7. ChangeSees(w, r)
  <2>1. /\ \A k : k \in DOMAIN Merged(ls, Keys) <=> k \in Keys /\ \E l \in ls : k \in DOMAIN l.at
        /\ \A k \in DOMAIN Merged(ls, Keys) : \E l \in ls : /\ k \in DOMAIN l.at /\ Merged(ls, Keys)[k] = l.at[k]
                                              /\ \A j \in ls : k \in DOMAIN j.at => j = l \/ Newer(l, j)
    BY <1>2, <1>5, MergedIs
  <2>2. \A l \in ls : DOMAIN l.at # {} /\ DOMAIN l.at \subseteq Keys
    BY <1>5, InView DEF RecordInv, Records
  <2>3. r.change.oldLayers = IdsOf(ls)
    BY <1>2 DEF IdsOf
  <2>4. Takes(View, IdsOf(ls), MergedRun(next.id, ls))
    BY <1>5, <1>6, <2>1 DEF Takes
  <2>5. DOMAIN Merged(ls, Keys) # {}
    BY <1>2, <2>1, <2>2
  <2>6. Covers(View, IdsOf(ls), {MergedRun(next.id, ls)})
    BY <1>5, <1>6, <2>1, <2>2 DEF Covers
  <2>7. r.change.oldPacks = {} /\ r.change.newPacks = {} /\ r.change.keepSeq
    BY <1>2 DEF LayersMerged
  <2> QED
    BY <1>2, <1>3, <1>6, <2>3, <2>4, <2>5, <2>6, <2>7 DEF ChangeSees
<1>8. ProcSees(w, r)'
  <2>1. r.change.newPacks = {}
    BY <1>2 DEF LayersMerged
  <2>2. ChangeSees(w, r)'
    BY <1>3, <1>4, <1>7, <2>1, SameChange
  <2> QED
    BY <1>3, <2>2 DEF ProcSees
<1>9. \A B, t : Merging(B, t)' => Merging(B, t) \/ (w \in Maintainers /\ B = IdsOf(ls) /\ t = s /\ Fresh(IdsOf(ls), s))
  <2>1. Visible' = Visible
    BY <1>4 DEF Same
  <2>2. r.change.oldLayers = IdsOf(ls)
    BY <1>2 DEF IdsOf
  <2>3. plans' = plans /\ process' = [process EXCEPT ![w] = r]
    BY <1>2, <1>3
  <2>4. \A B, t : Merging(B, t)' =>
           Merging(B, t) \/ (r.change.keepSeq /\ B = r.change.oldLayers /\ \E l \in r.change.newLayers : t = l.seq)
    BY <2>1, <2>3, MergingBegun
  <2>5. \A l \in r.change.newLayers : l.seq = s
    BY <1>2, <1>6
  <2> QED
    BY <1>5, <2>2, <2>4, <2>5
<1>10. plans' = plans /\ process' = [process EXCEPT ![w] = r] /\ r.pc = "update"
  BY <1>2, <1>3
<1> QED
  <2>1. ASSUME NEW B0, NEW s0, B0 = IdsOf(ls), s0 = s PROVE RecordInv'
    <3>1. \A B, t : Merging(B, t)' => Merging(B, t) \/ (w \in Maintainers /\ B = B0 /\ t = s0 /\ Fresh(B0, s0))
      BY <1>9, <2>1
    <3>2. Fresh(B0, s0) /\ plans' = plans /\ w \in Processes
      BY <1>3, <1>5, <1>10, <2>1
    <3> QED
      BY <1>4, <1>8, <1>10, <3>1, <3>2, BeginsRecorded
  <2> QED
    BY <2>1

\* The maintainer plans a merge for mergers.
LEMMA SplitMergeRecorded ==
  ASSUME TypeInv, TypeInv', IdInv, RecordInv, OneMaintainer, NEW w \in Maintainers, SplitMerge(w)
  PROVE  RecordInv'
<1>1. PICK ls \in Stretches(Latest.layers) : \E P \in PlanRec :
          /\ plans' = [plans EXCEPT ![next.id] = P] /\ next.id \in Plans
          /\ P.layers = ls /\ P.seq = NewestSeq(ls) /\ P.there = TRUE /\ P.done = {}
          /\ P.result = [i \in DOMAIN Ranges |-> {}]
  BY SplitMergeIs
<1>2. PICK P \in PlanRec :
          /\ plans' = [plans EXCEPT ![next.id] = P] /\ next.id \in Plans
          /\ P.layers = ls /\ P.seq = NewestSeq(ls) /\ P.there = TRUE /\ P.done = {}
          /\ P.result = [i \in DOMAIN Ranges |-> {}]
  BY <1>1
<1>3. /\ w \in Workers /\ w \in Processes /\ w \notin Mergers /\ \A c \in Commits : w # Committer(c)
      /\ UNCHANGED <<manifest, pending, files, named>> /\ process[w].pc = "layers"
      /\ next' = [next EXCEPT !.id = @ + 1] /\ next \in [id : Nat, key : Nat]
      /\ process' = [process EXCEPT ![w].pc = "packs", ![w].more = TRUE]
      /\ process \in [Processes -> ProcRec] /\ plans \in [Plans -> PlanRec]
  BY Disjoint DEF Workers, SplitMerge, TypeInv, Types
<1>4. Same(w)
  <2>1. next.id <= next'.id
    BY <1>3
  <2> QED
    BY <1>3, <2>1, SameThere
<1>5. PICK r : process' = [process EXCEPT ![w] = r] /\ r.pc = "packs"
  <2>1. process' = [process EXCEPT ![w] = [process[w] EXCEPT !.pc = "packs", !.more = TRUE]]
    BY <1>3
  <2>2. [process[w] EXCEPT !.pc = "packs", !.more = TRUE].pc = "packs"
    BY <1>3 DEF ProcRec
  <2> QED
    BY <2>1, <2>2
<1> DEFINE s == NewestSeq(ls)
<1>6. /\ Fresh(IdsOf(ls), s) /\ ls \subseteq View
  <2>1. ls \in Stretches(View) /\ ~Changing(process[w])
    BY <1>3 DEF View, Changing
  <2> QED
    BY <2>1, StretchFresh
<1>7. /\ plans'[next.id] = P /\ \A p \in Plans : p # next.id => plans'[p] = plans[p]
  BY <1>2, <1>3
<1>8. PlanSees(P)
  <2>1. \A a \in ls, j \in View : j.id = a.id => j = a
    BY <1>6, InView
  <2>2. Results(P) = {}
    BY <1>2 DEF Results
  <2> QED
    BY <1>2, <2>1, <2>2 DEF PlanSees
<1>9. \A p \in Plans : plans'[p] = plans[p] \/ PlanSees(plans[p])'
  <2>1. PlanSees(P)'
    BY <1>4, <1>8, SamePlan
  <2> QED
    BY <1>7, <2>1 DEF PlanSees, LivePlan, Results
<1>10. \A p \in Plans : p < next.id /\ plans'[p].there => plans[p].there /\ plans'[p].seq = plans[p].seq
  <2>1. next.id \in Nat
    BY <1>3
  <2> QED
    BY <1>7, <2>1
<1>11. Visible' = Visible
  BY <1>4 DEF Same
<1>12. ASSUME NEW B, NEW t, Merging(B, t)' PROVE Merging(B, t) \/ (B = IdsOf(ls) /\ t = s /\ Fresh(IdsOf(ls), s))
  <2>1. ASSUME NEW p \in Plans, (LivePlan(plans[p]) /\ B = IdsOf(plans[p].layers) /\ t = plans[p].seq)'
        PROVE  Merging(B, t) \/ (B = IdsOf(ls) /\ t = s)
    <3>1. CASE p = next.id
      BY <1>2, <1>7, <2>1, <3>1 DEF IdsOf
    <3>2. CASE p # next.id
      BY <1>7, <1>11, <2>1, <3>2 DEF Merging, LivePlan, IdsOf
    <3> QED
      BY <3>1, <3>2
  <2>2. \A v \in Maintainers : process'[v].pc = "packs"
    BY <1>3, <1>5 DEF OneMaintainer
  <2> QED
    BY <1>6, <1>12, <2>1, <2>2 DEF Merging, Changing
<1>13. ProcSees(w, r)' /\ Listed(w)'
  <2>1. process'[w] = r
    BY <1>3, <1>5
  <2> QED
    BY <1>3, <1>5, <2>1 DEF ProcSees, Listed, Matching, Changing
<1>14. \A v \in Maintainers \ {w} : ~Matching(v)
  BY DEF OneMaintainer
<1> HIDE DEF s
<1>15. ASSUME NEW B0, NEW s0, B0 = IdsOf(ls), s0 = s PROVE RecordInv'
  <2>1. Fresh(B0, s0) /\ \A B, t : Merging(B, t)' => Merging(B, t) \/ (B = B0 /\ t = s0 /\ Fresh(B0, s0))
    BY <1>6, <1>12, <1>15
  <2>2. process' = [process EXCEPT ![w] = r] /\ w \in Processes
    BY <1>3, <1>5
  <2> QED
    BY <1>4, <1>9, <1>10, <1>13, <1>14, <2>1, <2>2, StillRecorded
<1> QED
  BY <1>15

\* The maintainer merges packs; the records it moves go in a layer above the others.
LEMMA MergePacksRecorded ==
  ASSUME TypeInv, TypeInv', IdInv, RecordInv, OneMaintainer, NEW w \in Maintainers, MergePacks(w)
  PROVE  RecordInv'
<1>1. PICK tier \in 0 .. MaxTier, S \in SUBSET Latest.packs : \E r \in ProcRec :
          /\ process' = [process EXCEPT ![w] = r] /\ next.id \in Plans /\ r.pc = "update"
          /\ r.change.oldPacks = {p.id : p \in S} /\ r.change.newPacks = {MergedPack(next.id, tier, S)}
          /\ r.change.newLayers = {PackLayer(next.id, S)} /\ ~r.change.keepSeq /\ S # {}
  BY MergePacksIs, ZenonT(60)
<1>2. PICK r \in ProcRec :
          /\ process' = [process EXCEPT ![w] = r] /\ next.id \in Plans /\ r.pc = "update"
          /\ r.change.oldPacks = {p.id : p \in S} /\ r.change.newPacks = {MergedPack(next.id, tier, S)}
          /\ r.change.newLayers = {PackLayer(next.id, S)} /\ ~r.change.keepSeq /\ S # {}
  BY <1>1
<1>3. /\ w \in Workers /\ w \in Processes /\ w \notin Mergers /\ \A c \in Commits : w # Committer(c)
      /\ UNCHANGED <<manifest, pending, plans, named>> /\ files' = files \cup {Layer(next.id), Pack(next.id)}
      /\ next' = [next EXCEPT !.id = @ + 1] /\ next \in [id : Nat, key : Nat]
      /\ process \in [Processes -> ProcRec]
  BY Disjoint DEF Workers, MergePacks, TypeInv, Types
<1>4. Same(w)
  <2>1. next.id <= next'.id
    BY <1>3
  <2> QED
    BY <1>3, <2>1, SameThere
<1>5. /\ Latest.packs = manifest.packs \cup NewPacks(pending, Late)
      /\ NewPacks(pending, Late) \subseteq {CommitPack(c) : c \in Commits}
  <2>1. Names
    BY DEF IdInv
  <2> QED
    BY <2>1, LatestIs, NamesApart DEF NewPacks
<1> DEFINE keys == UNION {p.keys : p \in S}
<1>6. keys # {}
  <2>1. \A p \in S : p.keys # {}
    BY <1>5 DEF RecordInv, Records
  <2> QED
    BY <1>2, <2>1
<1>7. Commits \cap r.change.oldPacks \subseteq named
  <2> SUFFICES ASSUME NEW c \in Commits, NEW p \in S, c = p.id PROVE c \in named
    BY <1>2
  <2>1. CASE p \in NewPacks(pending, Late)
    <3>1. PICK k \in Late : p = CommitPack(pending[k])
      BY <2>1 DEF NewPacks
    <3>2. pending[k] \in named
      <4>1. Names
        BY DEF IdInv
      <4> QED
        BY <3>1, <4>1 DEF Names, Late
    <3> QED
      BY <3>1, <3>2 DEF CommitPack
  <2>2. CASE p \in manifest.packs
    <3>1. ~PackFree(c)
      BY <2>2 DEF PackFree, PackIds
    <3>2. Packs
      BY DEF IdInv
    <3>3. c \notin named => c \notin manifest.adopted
      BY DEF RecordInv, Records
    <3>4. \A d \in Placed \ manifest.adopted : PackFree(d)
      BY <3>2 DEF Packs
    <3>5. \A d \in Commits \ (Placed \cup named) : PackFree(d)
      BY <3>2 DEF Packs
    <3> QED
      BY <3>1, <3>3, <3>4, <3>5
  <2> QED
    BY <1>5, <2>1, <2>2
<1>8. \A l \in View : \A k \in DOMAIN l.at : l.at[k] \in r.change.oldPacks => k \in keys
  <2> SUFFICES ASSUME NEW l \in View, NEW k \in DOMAIN l.at, NEW p \in S, l.at[k] = p.id PROVE k \in p.keys
    BY <1>2
  <2> QED
    BY <1>5 DEF RecordInv, Records
<1>9. PackLayer(next.id, S).at = [k \in keys |-> next.id] /\ MergedPack(next.id, tier, S).id = next.id
  BY DEF PackLayer, MergedPack
<1> HIDE DEF keys
<1>10. ~Entered(next.id)
  <2>1. \A l \in View : \A k \in DOMAIN l.at : l.at[k] < next.id /\ l.at[k] \in Nat
    BY InView, Constants DEF RecordInv, Records
  <2> QED
    BY <1>3, <2>1 DEF Entered
<1>11. ProcSees(w, r)'
  <2>1. View' = View /\ named' = named
    BY <1>4 DEF Same
  <2>2. ASSUME NEW n, n = next.id PROVE ~Entered(n)' /\ Pack(n) \in files'
    BY <1>3, <1>10, <2>1, <2>2 DEF Entered
  <2>3. \A pk \in r.change.newPacks : pk.id = next.id
    BY <1>2, <1>9
  <2>4. \A n \in r.change.newLayers : DOMAIN n.at = keys
    BY <1>2, <1>9
  <2>5. \A pk \in r.change.newPacks : Pack(pk.id) \in files' /\ ~Entered(pk.id)'
    BY <2>2, <2>3
  <2>6. \A n \in r.change.newLayers :
           /\ DOMAIN n.at # {}
           /\ \A l \in View' : \A k \in DOMAIN l.at : l.at[k] \in r.change.oldPacks => k \in DOMAIN n.at
    BY <1>6, <1>8, <2>1, <2>4
  <2>7. ChangeSees(w, r)'
    BY <1>2, <1>3, <1>7, <2>1, <2>5, <2>6 DEF ChangeSees
  <2> QED
    BY <1>3, <2>7 DEF ProcSees
<1>12. \A B, t : Merging(B, t)' => Merging(B, t)
  <2>1. Visible' = Visible /\ plans' = plans
    BY <1>3, <1>4 DEF Same
  <2> QED
    BY <1>2, <2>1, MergingBegun
<1>13. plans' = plans /\ process' = [process EXCEPT ![w] = r] /\ r.pc = "update"
  BY <1>2, <1>3
<1> QED
  BY <1>3, <1>4, <1>11, <1>12, <1>13, BeginsRecorded

\* Retired objects are deleted: entries that name them have newer ones.
LEMMA SweepRecorded ==
  ASSUME TypeInv, TypeInv', IdInv, RecordInv, OneMaintainer, NEW w \in Maintainers, SweepRetired(w)
  PROVE  RecordInv'
<1>1. /\ w \in Workers /\ w \in Processes /\ w \notin Mergers /\ \A c \in Commits : w # Committer(c)
      /\ UNCHANGED <<manifest, pending, plans, named>> /\ next.id <= next'.id
  BY Disjoint DEF Workers, SweepRetired, TypeInv, Types
<1>2. CASE Goto(w, "release") /\ files' = files
  <2>1. "release" \in Steps
    BY DEF Steps
  <2> QED
    BY <1>1, <1>2, <2>1, GotoRecorded
<1>3. ASSUME NEW r \in ProcRec, process' = [process EXCEPT ![w] = r], files' = files \ manifest.retired, r.pc = "update",
             Forgetting(r.change)
      PROVE  RecordInv'
  <2>1. Same(w)
    BY <1>1, <1>3, SameThere
  <2>2. /\ r.change.keepSeq /\ r.change.oldLayers = {} /\ r.change.oldPacks = {} /\ r.change.newLayers = {}
        /\ r.change.newPacks = {}
    BY <1>3 DEF Forgetting
  <2>3. ChangeSees(w, r)'
    BY <1>1, <2>2 DEF ChangeSees, Covers, Inputs
  <2>4. ProcSees(w, r)'
    BY <1>1, <2>3 DEF ProcSees
  <2>5. \A B, s : Merging(B, s)' => Merging(B, s)
    <3>1. Visible' = Visible /\ plans' = plans
      BY <1>1, <2>1 DEF Same
    <3> QED
      BY <1>3, <2>2, <3>1, MergingBegun
  <2>6. plans' = plans
    BY <1>1
  <2> QED
    BY <1>1, <1>3, <2>1, <2>4, <2>5, <2>6, BeginsRecorded
<1> QED
  BY <1>2, <1>3, SweepIs

\* A change tried again is the change it was.
LEMMA RetryRecorded ==
  ASSUME TypeInv, TypeInv', IdInv, RecordInv, OneMaintainer, NEW x \in Processes, ClaimNumber(x),
         manifest.seq # process[x].base.seq
  PROVE  RecordInv'
<1>1. UNCHANGED <<manifest, pending, files, plans, named>> /\ next' = next /\ process[x].pc = "claim"
  BY DEF ClaimNumber
<1>2. Same(x)
  <2>1. next.id <= next'.id
    BY <1>1 DEF TypeInv, Types
  <2> QED
    BY <1>1, <2>1, SameThere
<1>3. PICK r : /\ process' = [process EXCEPT ![x] = r] /\ r.pc = "update"
               /\ r.change = process[x].change /\ r.job = process[x].job
  <2>1. process' = [process EXCEPT ![x] = [process[x] EXCEPT !.pc = "update", !.base = EmptyManifest, !.listed = {}]]
    BY DEF ClaimNumber
  <2>2. process[x] \in ProcRec
    BY ProcessTyped
  <2> DEFINE r == [process[x] EXCEPT !.pc = "update", !.base = EmptyManifest, !.listed = {}]
  <2>3. r.pc = "update" /\ r.change = process[x].change /\ r.job = process[x].job
    BY <2>2 DEF ProcRec
  <2> HIDE DEF r
  <2>4. process' = [process EXCEPT ![x] = r]
    BY <2>1 DEF r
  <2> QED
    BY <2>3, <2>4
<1>4. ProcSees(x, process[x]) /\ Changing(process[x]) /\ Changing(r)
  BY <1>1, <1>3 DEF RecordInv, Seeing, Changing
<1>5. ProcSees(x, r)'
  <2>1. ASSUME x \in Workers PROVE ChangeSees(x, r)'
    <3>1. ChangeSees(x, r)
      BY <1>3, <1>4, <2>1 DEF ProcSees, ChangeSees
    <3>2. x \in Maintainers => \A pk \in r.change.newPacks : Pack(pk.id) \in files'
      BY <1>1, <3>1 DEF ChangeSees
    <3> QED
      BY <1>1, <1>2, <3>1, <3>2, SameChange
  <2>2. ASSUME NEW c \in Commits, x = Committer(c) PROVE c \in named'
    BY <1>1, <1>4, <2>2 DEF ProcSees
  <2> QED
    BY <1>3, <2>1, <2>2 DEF ProcSees
<1>6. \A B, s : Merging(B, s)' => Merging(B, s)
  BY <1>1, <1>2, <1>3, <1>4, MergingSame DEF Same
<1>7. plans' = plans
  BY <1>1
<1> QED
  BY <1>2, <1>3, <1>5, <1>6, <1>7, BeginsRecorded

\* Pending objects that the manifest folded in are deleted.
LEMMA ClearPendingRecorded ==
  ASSUME TypeInv, TypeInv', IdInv, RecordInv, OneMaintainer, NEW x \in Processes, ClearPending(x)
  PROVE  RecordInv'
<1>1. UNCHANGED <<manifest, files, plans, named>> /\ next' = next /\ process[x].pc = "clear"
  BY DEF ClearPending
<1>2. Same(x)
  <2>1. Names /\ next.id <= next'.id
    BY <1>1 DEF IdInv, TypeInv, Types
  <2>2. /\ Late' = Late /\ Visible' = Visible
        /\ DOMAIN pending' \subseteq DOMAIN pending /\ \A k \in DOMAIN pending' : pending'[k] = pending[k]
        /\ \A k \in Late : k \in DOMAIN pending' /\ pending'[k] = pending[k]
    BY <2>1, ClearsIs
  <2>3. View = manifest.layers \cup Stacked(TopSeq(manifest), pending, Late)
    BY ViewIs DEF ViewList
  <2>4. View' = manifest.layers \cup Stacked(TopSeq(manifest), pending', Late)
    <3>1. IdInv'
      BY ClearPendingIds
    <3>2. View' = manifest'.layers \cup Stacked(TopSeq(manifest), pending, Late)'
      BY <3>1, ViewIsNext DEF ViewList
    <3> QED
      BY <1>1, <2>2, <3>2 DEF Stacked, TopSeq, Rank, CommitLayer
  <2>5. Stacked(TopSeq(manifest), pending', Late) = Stacked(TopSeq(manifest), pending, Late)
    BY <2>2 DEF Stacked
  <2> QED
    BY <1>1, <2>1, <2>2, <2>3, <2>4, <2>5 DEF Same
<1>3. PICK r : /\ process' = [process EXCEPT ![x] = r] /\ r.pc = process[x].then
  <2>1. process' = [process EXCEPT ![x] = [process[x] EXCEPT !.pc = process[x].then, !.base = EmptyManifest, !.listed = {}]]
    BY DEF ClearPending
  <2>2. process[x] \in ProcRec
    BY ProcessTyped
  <2>3. [process[x] EXCEPT !.pc = process[x].then, !.base = EmptyManifest, !.listed = {}].pc = process[x].then
    BY <2>2 DEF ProcRec
  <2> QED
    BY <2>1, <2>3
<1>4. r.pc \in {"done", "packs", "pass", "release", "dropping"}
  <2>1. ProcShape(x, process[x]) /\ x \in Processes
    BY ProcessTyped
  <2> QED
    BY <1>1, <1>3, <2>1, Disjoint DEF ProcShape, CommitShape, MaintainShape, MergeShape
<1> QED
  BY <1>1, <1>2, <1>3, <1>4, PlainRecorded

\* A change that applies to the newest view goes on to claim its number.
LEMMA ReadsRecorded ==
  ASSUME TypeInv, TypeInv', IdInv, RecordInv, OneMaintainer, NEW x \in Processes, ReadNewest(x),
         Applies(Latest, process[x].change)
  PROVE  RecordInv'
<1>1. UNCHANGED <<manifest, pending, files, plans, named>> /\ next' = next /\ process[x].pc = "update"
  BY DEF ReadNewest
<1>2. Same(x)
  <2>1. next.id <= next'.id
    BY <1>1 DEF TypeInv, Types
  <2> QED
    BY <1>1, <2>1, SameThere
<1>3. PICK r : /\ process' = [process EXCEPT ![x] = r] /\ r.pc = "claim" /\ r.listed = DOMAIN pending
               /\ r.change = process[x].change /\ r.job = process[x].job
  <2>1. process' = [process EXCEPT ![x] = [process[x] EXCEPT !.pc = "claim", !.base.seq = manifest.seq,
                                                             !.listed = DOMAIN pending]]
    BY DEF ReadNewest
  <2>2. process[x] \in ProcRec
    BY ProcessTyped
  <2> DEFINE r == [process[x] EXCEPT !.pc = "claim", !.base.seq = manifest.seq, !.listed = DOMAIN pending]
  <2>3. r.pc = "claim" /\ r.listed = DOMAIN pending /\ r.change = process[x].change /\ r.job = process[x].job
    BY <2>2 DEF ProcRec
  <2> HIDE DEF r
  <2>4. process' = [process EXCEPT ![x] = r]
    BY <2>1 DEF r
  <2> QED
    BY <2>3, <2>4
<1>4. ProcSees(x, process[x]) /\ Changing(process[x]) /\ Changing(r)
  BY <1>1, <1>3 DEF RecordInv, Seeing, Changing
<1>5. ProcSees(x, r)'
  <2>1. ASSUME x \in Workers PROVE ChangeSees(x, r)'
    <3>1. ChangeSees(x, r)
      BY <1>3, <1>4, <2>1 DEF ProcSees, ChangeSees
    <3>2. x \in Maintainers => \A pk \in r.change.newPacks : Pack(pk.id) \in files'
      BY <1>1, <3>1 DEF ChangeSees
    <3> QED
      BY <1>1, <1>2, <3>1, <3>2, SameChange
  <2>2. ASSUME NEW c \in Commits, x = Committer(c) PROVE c \in named'
    BY <1>1, <1>4, <2>2 DEF ProcSees
  <2>3. Late' \subseteq r.listed
    BY <1>1, <1>3 DEF Late
  <2> QED
    BY <2>1, <2>2, <2>3 DEF ProcSees
<1>6. \A B, s : Merging(B, s)' => Merging(B, s)
  BY <1>1, <1>2, <1>3, <1>4, MergingSame DEF Same
<1>7. Listed(x)'
  <2>1. process'[x] = r
    BY <1>3 DEF TypeInv, Types
  <2>2. DOMAIN pending' = r.listed /\ Late' \subseteq r.listed
    BY <1>1, <1>3 DEF Late
  <2> QED
    BY <2>1, <2>2 DEF Listed
<1>8. \A p \in Plans : plans'[p] = plans[p]
  BY <1>1
<1> QED
  BY <1>2, <1>3, <1>5, <1>6, <1>7, <1>8, StillRecorded

\* One that does not is put off, and what it wrote goes.
LEMMA PutOffRecorded ==
  ASSUME TypeInv, TypeInv', IdInv, RecordInv, OneMaintainer, NEW x \in Processes, ReadNewest(x),
         ~Applies(Latest, process[x].change)
  PROVE  RecordInv'
<1> DEFINE ch == process[x].change
<1>1. /\ UNCHANGED <<manifest, pending, plans, named>> /\ next' = next /\ process[x].pc = "update"
      /\ files' = files \ Outputs(ch) /\ Goto(x, process[x].then)
  BY DEF ReadNewest
<1>2. process[x] \in ProcRec /\ ProcShape(x, process[x])
  BY ProcessTyped
<1>3. process[x].then \in {"done", "packs", "pass", "release", "dropping"}
  BY <1>1, <1>2, Disjoint DEF ProcShape, CommitShape, MaintainShape, MergeShape
<1>4. ASSUME NEW id \in Ids, Pack(id) \in Outputs(ch)
      PROVE  x \in Maintainers /\ id \in Plans /\ ~Entered(id)
  <2>1. x \in Workers
    BY <1>1, <1>4, OutputsIs
  <2>2. PICK pk \in ch.newPacks : pk.id = id
    BY <1>4 DEF Outputs, Pack, Layer
  <2>3. x \notin Mergers
    BY <1>1, <1>2, <2>2 DEF ProcShape, MergeShape, RunSwapped, Changing
  <2>4. id \in Plans
    BY <1>1, <2>1, <2>2, ChangePlans DEF Changing
  <2>5. ChangeSees(x, process[x])
    BY <1>1, <2>1 DEF RecordInv, Seeing, ProcSees, Changing
  <2> QED
    BY <2>1, <2>2, <2>3, <2>4, <2>5 DEF ChangeSees, Workers
<1>5. Same(x)
  <2>1. next.id <= next'.id
    BY <1>1 DEF TypeInv, Types
  <2> QED
    BY <1>1, <1>4, <2>1, SameThere
<1>6. PICK r : process' = [process EXCEPT ![x] = r] /\ r.pc = process[x].then
  <2>1. process[x].then \in Steps
    BY <1>3 DEF Steps
  <2>2. \A r : r = [process[x] EXCEPT !.pc = process[x].then] => process' = [process EXCEPT ![x] = r] /\ r.pc = process[x].then
    BY <1>1, <2>1, GotoIs
  <2> QED
    BY <2>2
<1>7. \A p \in Plans : plans'[p] = plans[p]
  BY <1>1
<1>8. r.pc \notin {"update", "claim", "save", "clear"}
  BY <1>3, <1>6
<1> QED
  BY <1>5, <1>6, <1>7, <1>8, PlainRecorded

LEMMA ReadNewestRecorded ==
  ASSUME TypeInv, TypeInv', IdInv, RecordInv, OneMaintainer, NEW x \in Processes, ReadNewest(x)
  PROVE  RecordInv'
  BY ReadsRecorded, PutOffRecorded

-----------------------------------------------------------------------------
(* Steps that change the view.                                             *)

\* The layers A are replaced by O, and nothing that went comes back.
Moves(A, O, tl, tn) ==
    /\ Lands(View, View', A, O, tl, tn)
    /\ \A id : Seen(id) /\ id \in Visible' => id \in Visible
    /\ A \cap Visible' = {}
    /\ plans' = plans

\* Merges under way, when the view moves, have the inputs they had.
LEMMA MovesMerging ==
  ASSUME TypeInv, IdInv, NEW A, NEW O, NEW tl, NEW tn, Moves(A, O, tl, tn),
         NEW x \in Processes, NEW r, process' = [process EXCEPT ![x] = r], r.pc \notin {"update", "claim"},
         NEW B, NEW s, Merging(B, s)'
  PROVE  Merging(B, s) /\ B \subseteq IdsOf(View) /\ B \cap A = {} /\ s \in Nat
<1>1. /\ \A id : Seen(id) /\ id \in Visible' => id \in Visible
      /\ A \cap Visible' = {} /\ plans' = plans /\ IdsOf(View) = Visible
  BY ViewIs DEF Moves, ViewList
<1>2. ASSUME NEW p \in Plans, (LivePlan(plans[p]) /\ B = IdsOf(plans[p].layers) /\ s = plans[p].seq)'
      PROVE  Merging(B, s) /\ B \subseteq Visible /\ B \subseteq Visible' /\ s \in Nat
  <2>1. PlanInv(p, plans[p]) /\ plans[p] \in PlanRec
    BY DEF IdInv, Ownership, TypeInv, Types
  <2>2. plans[p].there /\ B \subseteq Visible' /\ B = IdsOf(plans[p].layers) /\ s = plans[p].seq
    BY <1>1, <1>2 DEF LivePlan, IdsOf
  <2>3. B \subseteq Visible
    BY <1>1, <2>1, <2>2 DEF PlanInv, IdsOf
  <2> QED
    BY <2>1, <2>2, <2>3 DEF Merging, LivePlan, PlanRec
<1>3. ASSUME NEW w \in Maintainers, process'[w].pc \in {"update", "claim"}, process'[w].change.keepSeq,
             process'[w].change.oldLayers \subseteq Visible',
             B = process'[w].change.oldLayers, \E l \in process'[w].change.newLayers : s = l.seq
      PROVE  Merging(B, s) /\ B \subseteq Visible /\ B \subseteq Visible' /\ s \in Nat
  <2>1. w \in Processes /\ w \in Workers /\ process'[w] = process[w]
    BY <1>3, Disjoint DEF TypeInv, Types, Workers
  <2>2. process[w] \in ProcRec /\ ProcIds(w, process[w]) /\ Changing(process[w])
    BY <1>3, <2>1, ProcBelow DEF IdInv, Changing
  <2>3. ChangeIds(w, process[w]) /\ process[w].change \in ChangeRec
    BY <2>1, <2>2 DEF ProcIds, ProcRec
  <2>4. B \subseteq Visible
    BY <1>1, <1>3, <2>1, <2>3 DEF ChangeIds
  <2>5. s \in Nat
    BY <1>3, <2>1, <2>3 DEF ChangeRec, LayerRec
  <2> QED
    BY <1>3, <2>1, <2>2, <2>4, <2>5 DEF Merging, LiveChange
<1> QED
  BY <1>1, <1>2, <1>3 DEF Merging, LiveChange, Changing

LEMMA MovesPlan ==
  ASSUME TypeInv, IdInv, NEW A, NEW O, NEW tl, NEW tn, Moves(A, O, tl, tn),
         NEW P, PlanSees(P), \A l \in P.layers : Seen(l.id)
  PROVE  PlanSees(P)'
<1> SUFFICES ASSUME P.there, IdsOf(P.layers) \subseteq Visible'
             PROVE  /\ \A a \in P.layers, j \in View' : j.id = a.id => j.run = a.run /\ j.at = a.at
                    /\ \A a, b \in P.layers, i, j \in View' : i.id = a.id /\ j.id = b.id /\ Newer(i, j) => Newer(a, b)
                    /\ \A o \in Results(P) : Takes(View', IdsOf(P.layers), o) /\ DOMAIN o.at # {}
                    /\ \A i \in P.done : \A a \in P.layers : \A k \in Ranges[i] \cap DOMAIN a.at :
                          \E o \in P.result[i] : k \in DOMAIN o.at
  BY DEF PlanSees, LivePlan, Takes, Inputs, IdsOf
<1> DEFINE B == IdsOf(P.layers)
<1>1. /\ Lands(View, View', A, O, tl, tn) /\ B \cap A = {} /\ B \subseteq Visible /\ B \subseteq IdsOf(View)
  BY ViewIs DEF Moves, ViewList, IdsOf
<1>2. LivePlan(P)
  BY <1>1 DEF LivePlan
<1>3. \A j \in View', a \in P.layers : j.id = a.id => \E v \in View : v.id = a.id /\ v.id \notin A /\ Was(j, v, tl, tn)
  <2>1. \A j \in Inputs(View', B) : \E v \in Inputs(View, B) : v.id \notin A /\ Was(j, v, tl, tn)
    BY <1>1, InputsWere
  <2> QED
    BY <2>1 DEF Inputs, IdsOf, Was
<1>4. \A a \in P.layers, j \in View' : j.id = a.id => j.run = a.run /\ j.at = a.at
  BY <1>2, <1>3 DEF PlanSees, Was
<1>5. ASSUME NEW a \in P.layers, NEW b \in P.layers, NEW i \in View', NEW j \in View', i.id = a.id, j.id = b.id, Newer(i, j)
      PROVE  Newer(a, b)
  <2>1. PICK u \in View : u.id = a.id /\ u.id \notin A /\ Was(i, u, tl, tn)
    BY <1>3, <1>5
  <2>2. PICK v \in View : v.id = b.id /\ v.id \notin A /\ Was(j, v, tl, tn)
    BY <1>3, <1>5
  <2>3. Newer(u, v)
    BY <1>1, <1>5, <2>1, <2>2, WasNewer
  <2> QED
    BY <1>2, <2>1, <2>2, <2>3 DEF PlanSees
<1>6. \A o \in Results(P) : Takes(View', B, o) /\ DOMAIN o.at # {}
  <2>1. \A o \in Results(P) : Takes(View, B, o) /\ DOMAIN o.at # {}
    BY <1>2 DEF PlanSees
  <2> QED
    BY <1>1, <2>1, TakesKept
<1> QED
  BY <1>2, <1>4, <1>5, <1>6 DEF PlanSees

LEMMA MovesChange ==
  ASSUME TypeInv, IdInv, NEW A, NEW O, NEW tl, NEW tn, Moves(A, O, tl, tn),
         NEW y \in Workers, NEW r, r = process[y], Changing(r), ChangeSees(y, r), files' = files, named \subseteq named',
         y \in Maintainers => \A l \in View' : \A k \in DOMAIN l.at :
            l.at[k] \in Commits \ named \/ \E v \in View : k \in DOMAIN v.at /\ v.at[k] = l.at[k]
  PROVE  ChangeSees(y, r)'
<1> DEFINE ch == r.change
           B == ch.oldLayers
<1>1. y \in Processes /\ ChangeIds(y, r)
  <2>1. y \in Processes
    BY Disjoint DEF Workers
  <2> QED
    BY <2>1, ProcBelow DEF IdInv, ProcIds
<1>2. ASSUME ch.keepSeq, B \subseteq Visible'
      PROVE  /\ \A o \in ch.newLayers : Takes(View', B, o) /\ DOMAIN o.at # {}
             /\ Covers(View', B, ch.newLayers)
  <2>1. /\ Lands(View, View', A, O, tl, tn) /\ B \cap A = {} /\ B \subseteq Visible /\ B \subseteq IdsOf(View)
    BY <1>1, <1>2, ViewIs DEF Moves, ViewList, ChangeIds
  <2>2. /\ \A o \in ch.newLayers : Takes(View, B, o) /\ DOMAIN o.at # {}
        /\ Covers(View, B, ch.newLayers)
    BY <1>2, <2>1 DEF ChangeSees, LiveChange
  <2> QED
    BY <2>1, <2>2, TakesKept, CoversKept
<1>3. ASSUME y \in Maintainers, NEW id, Entered(id)' PROVE id \in Commits \ named \/ Entered(id)
  BY <1>3 DEF Entered
<1>4. ASSUME y \in Maintainers
      PROVE  /\ \A pk \in ch.newPacks : Pack(pk.id) \in files' /\ ~Entered(pk.id)'
             /\ Commits \cap ch.oldPacks \subseteq named'
             /\ ~ch.keepSeq => \A n \in ch.newLayers :
                   /\ DOMAIN n.at # {}
                   /\ \A l \in View' : \A k \in DOMAIN l.at : l.at[k] \in ch.oldPacks => k \in DOMAIN n.at
  <2>1. \A pk \in ch.newPacks : pk.id \in Plans
    BY ChangePlans
  <2>2. \A pk \in ch.newPacks : Pack(pk.id) \in files' /\ ~Entered(pk.id)'
    <3>1. \A pk \in ch.newPacks : Pack(pk.id) \in files /\ ~Entered(pk.id)
      BY <1>4 DEF ChangeSees
    <3> QED
      BY <1>3, <1>4, <2>1, <3>1, Constants
  <2>3. Commits \cap ch.oldPacks \subseteq named
    BY <1>4 DEF ChangeSees
  <2>4. ~ch.keepSeq => \A n \in ch.newLayers :
                   /\ DOMAIN n.at # {}
                   /\ \A l \in View : \A k \in DOMAIN l.at : l.at[k] \in ch.oldPacks => k \in DOMAIN n.at
    BY <1>4 DEF ChangeSees
  <2> QED
    BY <1>4, <2>2, <2>3, <2>4
<1>5. y \in Mergers /\ plans'[r.job.plan].there => \A o \in ch.newLayers : o.seq = plans'[r.job.plan].seq
  BY DEF ChangeSees, Moves
<1>6. \A o : Takes(View, B, o)' <=> Takes(View', B, o)
  BY DEF Takes, Inputs
<1>7. Covers(View, B, ch.newLayers)' <=> Covers(View', B, ch.newLayers)
  BY DEF Covers, Inputs
<1> HIDE DEF ch, B
<1> QED
  BY <1>2, <1>4, <1>5, <1>6, <1>7 DEF ChangeSees, LiveChange, ch, B

\* Operators of the view, primed.
LEMMA PrimesView ==
  ASSUME NEW B, NEW s, NEW C, NEW t
  PROVE  /\ Fits(View, B, s)' <=> Fits(View', B, s)
         /\ Ordered(View, B, s, C, t)' <=> Ordered(View', B, s, C, t)
         /\ Exact(View, B, s)' <=> Exact(View', B, s)
         /\ Places(View)' <=> Places(View')
  BY DEF Fits, Ordered, Exact, Places, Inputs, Newer

\* The order after a layer lands above the others.
LEMMA TopsOrder ==
  ASSUME TypeInv, IdInv, RecordInv, NEW O, NEW tl, NEW tn, Moves({}, O, tl, tn), Tops(View, View', O, tl, tn),
         NEW x \in Processes, NEW r, process' = [process EXCEPT ![x] = r], r.pc \notin {"update", "claim"},
         \A B, s : Merging(B, s) => \A j \in Inputs(View, B) : j.seq > tl => Exact(View, B, s) /\ O = {}
  PROVE  Ordering'
<1>1. Lands(View, View', {}, O, tl, tn)
  BY DEF Moves
<1>2. Places(View)'
  <2>1. Places(View)
    BY DEF RecordInv, Ordering
  <2> QED
    BY <2>1, TopPlaces, PrimesView
<1>3. ASSUME NEW B, NEW s, Merging(B, s)' PROVE Fits(View, B, s)'
  <2>1. Merging(B, s) /\ B \subseteq IdsOf(View) /\ s \in Nat
    BY <1>3, MovesMerging
  <2>2. Fits(View, B, s)
    BY <2>1 DEF RecordInv, Ordering
  <2>3. \A j \in Inputs(View, B) : j.seq > tl => Exact(View, B, s) /\ O = {}
    BY <2>1
  <2>4. Fits(View', B, s)
    BY <2>1, <2>2, <2>3, TopFits
  <2> QED
    BY <2>4, PrimesView
<1>4. ASSUME NEW B, NEW s, NEW C, NEW t, Merging(B, s)', Merging(C, t)' PROVE (B = C /\ s = t) \/ Ordered(View, B, s, C, t)'
  <2>1. Merging(B, s) /\ B \subseteq IdsOf(View) /\ B \cap {} = {}
    BY <1>4, MovesMerging
  <2>2. Merging(C, t) /\ C \subseteq IdsOf(View) /\ C \cap {} = {}
    BY <1>4, MovesMerging
  <2>3. CASE Ordered(View, B, s, C, t)
    <3>1. Ordered(View', B, s, C, t)
      BY <1>1, <2>1, <2>2, <2>3, OrderedKept
    <3> QED
      BY <3>1, PrimesView
  <2> QED
    BY <2>1, <2>2, <2>3 DEF RecordInv, Ordering
<1> QED
  BY <1>2, <1>3, <1>4 DEF Ordering

\* The order after a merge lands.
LEMMA MergesOrder ==
  ASSUME TypeInv, IdInv, RecordInv, NEW C, NEW t, NEW O, NEW tl, NEW tn, Moves(C, O, tl, tn),
         Merges(View, View', C, t, O, tl, tn), Merging(C, t),
         \A o, p \in O : o.run = p.run /\ o.nth = p.nth,
         NEW x \in Processes, NEW r, process' = [process EXCEPT ![x] = r], r.pc \notin {"update", "claim"},
         \A B, s : Merging(B, s) => \A j \in Inputs(View, B) : j.seq > tl => Exact(View, B, s)
  PROVE  Ordering'
<1>1. Lands(View, View', C, O, tl, tn)
  BY DEF Moves
<1>2. Places(View)'
  <2>1. Places(View)
    BY DEF RecordInv, Ordering
  <2> QED
    BY <2>1, MergePlaces, PrimesView
<1>3. C # {}
  BY DEF Merges, Fits, Inputs
<1>4. ASSUME NEW B, NEW s, Merging(B, s)' PROVE Fits(View, B, s)'
  <2>1. Merging(B, s) /\ B \subseteq IdsOf(View) /\ s \in Nat /\ B \cap C = {}
    BY <1>4, MovesMerging
  <2>2. Fits(View, B, s)
    BY <2>1 DEF RecordInv, Ordering
  <2>3. Ordered(View, B, s, C, t)
    <3>1. ~(B = C /\ s = t)
      BY <1>3, <2>1
    <3> QED
      BY <2>1, <3>1 DEF RecordInv, Ordering
  <2>4. \A j \in Inputs(View, B) : j.seq > tl => Exact(View, B, s)
    BY <2>1
  <2>5. Fits(View', B, s)
    BY <2>1, <2>2, <2>3, <2>4, MergeFits
  <2> QED
    BY <2>5, PrimesView
<1>5. ASSUME NEW B, NEW s, NEW D, NEW u, Merging(B, s)', Merging(D, u)' PROVE (B = D /\ s = u) \/ Ordered(View, B, s, D, u)'
  <2>1. Merging(B, s) /\ B \subseteq IdsOf(View) /\ B \cap C = {}
    BY <1>5, MovesMerging
  <2>2. Merging(D, u) /\ D \subseteq IdsOf(View) /\ D \cap C = {}
    BY <1>5, MovesMerging
  <2>3. CASE Ordered(View, B, s, D, u)
    <3>1. Ordered(View', B, s, D, u)
      BY <1>1, <2>1, <2>2, <2>3, OrderedKept
    <3> QED
      BY <3>1, PrimesView
  <2> QED
    BY <2>1, <2>2, <2>3 DEF RecordInv, Ordering
<1> QED
  BY <1>2, <1>4, <1>5 DEF Ordering

\* What plans and changes see after the view moved.
LEMMA MovedSeen ==
  ASSUME TypeInv, IdInv, RecordInv, NEW A, NEW O, NEW tl, NEW tn, Moves(A, O, tl, tn),
         NEW x \in Processes, NEW r, process' = [process EXCEPT ![x] = r], r.pc \notin {"update", "claim"},
         files' = files, named \subseteq named',
         \A y \in Maintainers \ {x} : \A l \in View' : \A k \in DOMAIN l.at :
            l.at[k] \in Commits \ named \/ \E v \in View : k \in DOMAIN v.at /\ v.at[k] = l.at[k],
         \A c \in Commits : x = Committer(c) /\ r.pc \in {"save", "clear"} => c \in named',
         \A c \in Commits, y \in Processes \ {x} : y = Committer(c) /\ process[y].pc = "claim" /\ process[y].base.seq = manifest'.seq =>
            \A k \in Late' : pending'[k] = c => k \in process[y].listed
  PROVE  /\ \A p \in Plans : PlanSees(plans[p])'
         /\ \A y \in Processes : ProcSees(y, process[y])'
<1>1. plans' = plans
  BY DEF Moves
<1>2. ASSUME NEW p \in Plans PROVE PlanSees(plans[p])'
  <2>1. PlanSees(plans[p]) /\ \A l \in plans[p].layers : Seen(l.id)
    BY DEF RecordInv, Seeing, IdInv, Ownership, PlanInv
  <2>2. \A P : P = plans[p] => PlanSees(P)'
    BY <2>1, MovesPlan
  <2> QED
    BY <1>1, <2>2
<1>3. ASSUME NEW y \in Processes PROVE ProcSees(y, process[y])'
  <2>1. CASE y = x
    <3>1. process'[y] = r
      BY <2>1 DEF TypeInv, Types
    <3>2. ~Changing(r) /\ r.pc # "update" /\ r.pc # "claim"
      BY DEF Changing
    <3>3. ProcSees(y, r)'
      BY <2>1, <3>2 DEF ProcSees
    <3> QED
      BY <3>1, <3>3
  <2>2. CASE y # x
    <3>1. process'[y] = process[y]
      BY <2>2 DEF TypeInv, Types
    <3>2. ProcSees(y, process[y])
      BY DEF RecordInv, Seeing
    <3>3. ASSUME NEW q, q = process[y] PROVE ProcSees(y, q)'
      <4>1. ASSUME y \in Workers, Changing(q) PROVE ChangeSees(y, q)'
        <5>1. ChangeSees(y, q)
          BY <3>2, <3>3, <4>1 DEF ProcSees
        <5>2. y \in Maintainers => \A l \in View' : \A k \in DOMAIN l.at :
                 l.at[k] \in Commits \ named \/ \E v \in View : k \in DOMAIN v.at /\ v.at[k] = l.at[k]
          BY <2>2
        <5> QED
          BY <3>3, <4>1, <5>1, <5>2, MovesChange
      <4>2. ASSUME NEW c \in Commits, y = Committer(c)
            PROVE  /\ q.pc \in {"save", "update", "claim", "clear"} => c \in named'
                   /\ q.pc = "claim" /\ q.base.seq = manifest'.seq => \A k \in Late' : pending'[k] = c => k \in q.listed
        BY <2>2, <3>2, <3>3, <4>2 DEF ProcSees
      <4> QED
        BY <4>1, <4>2 DEF ProcSees
    <3> QED
      BY <3>1, <3>3
  <2> QED
    BY <2>1, <2>2
<1> QED
  BY <1>2, <1>3

-----------------------------------------------------------------------------
(* A commit's runs are named.                                              *)

AppendTop == TopSeq(manifest) + Cardinality(Late)
Appending(c) == [CommitLayer(c) EXCEPT !.seq = AppendTop + 1]

\* The layer that a commit's pending object adds to the view.
LEMMA AppendingIs ==
  ASSUME TypeInv, IdInv, NEW c \in Commits
  PROVE  /\ Appending(c) \in LayerRec /\ Appending(c).id = c /\ Appending(c).run = c /\ Appending(c).nth = 0
         /\ Appending(c).seq = AppendTop + 1 /\ DOMAIN Appending(c).at = KeysOf[c] /\ KeysOf[c] # {}
         /\ \A k \in KeysOf[c] : Appending(c).at[k] = c
         /\ AppendTop \in Nat /\ \A v \in View : v.seq <= AppendTop
<1>1. AppendTop \in Nat
  BY ViewIs, FS_CardinalityType DEF ViewList, AppendTop
<1>2. KeysOf[c] # {}
  BY KeyedLayoutConstants DEF Commits
<1>3. \A v \in View : v.seq <= AppendTop
  <2>1. ViewList
    BY ViewIs
  <2>2. \A v \in manifest.layers : v.seq <= TopSeq(manifest) /\ v.seq \in Nat
    <3>1. ManifestOK(manifest)
      BY DEF TypeInv, Types
    <3>2. manifest.seq \in Nat /\ Bounded(manifest.layers) /\ manifest.layers \subseteq LayerRec
      BY <3>1 DEF ManifestOK, ManifestRec
    <3> QED
      BY <3>2, TopOf DEF LayerRec
  <2>3. \A v \in Stacked(TopSeq(manifest), pending, Late) : v.seq <= TopSeq(manifest) + Cardinality(Late)
    BY <2>1, StackedIs DEF ViewList
  <2>4. Cardinality(Late) \in Nat /\ TopSeq(manifest) \in Nat
    BY <2>1, FS_CardinalityType DEF ViewList
  <2>5. View = manifest.layers \cup Stacked(TopSeq(manifest), pending, Late)
    BY <2>1 DEF ViewList
  <2> QED
    BY <2>2, <2>3, <2>4, <2>5 DEF AppendTop
<1>4. CommitLayer(c) \in LayerRec /\ CommitLayer(c).id = c /\ CommitLayer(c).run = c /\ CommitLayer(c).nth = 0
      /\ DOMAIN CommitLayer(c).at = KeysOf[c] /\ \A k \in KeysOf[c] : CommitLayer(c).at[k] = c
  BY CommitFiles
<1> QED
  BY <1>1, <1>2, <1>3, <1>4 DEF Appending, LayerRec

\* The view gains it.
LEMMA AppendView ==
  ASSUME TypeInv, TypeInv', IdInv, IdInv', ~LateKeys, NEW c \in Commits, AppendRuns(c)
  PROVE  View' = View \cup {Appending(c)} /\ Appending(c) \notin View
<1> DEFINE key == KeyOf(c)
           top == TopSeq(manifest)
<1>1. /\ key \notin DOMAIN pending /\ pending'[key] = c
      /\ \A k \in DOMAIN pending : pending'[k] = pending[k]
      /\ Late' = Late \cup {key} /\ manifest' = manifest /\ c \notin named /\ ~Seen(c)
  BY AppendsIs
<1>2. ViewList
  BY ViewIs
<1>3. ViewList'
  BY ViewIsNext
<1>4. IsFiniteSet(Late) /\ Late \subseteq Nat /\ IsFiniteSet(Late \cup {key}) /\ Late \cup {key} \subseteq Nat
      /\ Late \subseteq DOMAIN pending
  BY <1>1, <1>2, <1>3 DEF ViewList
<1>5. \A a \in Late, b \in {key} : a < b
  BY <1>4 DEF AppendRuns, KeyOf
<1> HIDE DEF key
<1>6. /\ \A k \in Late : Rank(Late \cup {key}, k) = Rank(Late, k)
      /\ Rank(Late \cup {key}, key) = Cardinality(Late) + Rank({key}, key)
  BY <1>4, <1>5, RankPrefix
<1>7. Rank({key}, key) = 1
  <2>1. {j \in {key} : j <= key} = {key}
    BY <1>4
  <2> QED
    BY <2>1, FS_Singleton DEF Rank
<1>8. Stacked(top, pending', Late \cup {key}) = Stacked(top, pending, Late) \cup {Appending(c)}
  <2> DEFINE new(k) == [CommitLayer(pending'[k]) EXCEPT !.seq = top + Rank(Late \cup {key}, k)]
             old(k) == [CommitLayer(pending[k]) EXCEPT !.seq = top + Rank(Late, k)]
  <2>1. new(key) = Appending(c)
    BY <1>1, <1>2, <1>6, <1>7, FS_CardinalityType DEF Appending, AppendTop, ViewList
  <2>2. \A k \in Late : new(k) = old(k)
    BY <1>1, <1>4, <1>6
  <2>3. Stacked(top, pending', Late \cup {key}) = {new(k) : k \in Late \cup {key}}
    BY DEF Stacked
  <2>4. Stacked(top, pending, Late) = {old(k) : k \in Late}
    BY DEF Stacked
  <2> HIDE DEF new, old
  <2> QED
    BY <2>1, <2>2, <2>3, <2>4
<1>9. View' = manifest.layers \cup Stacked(top, pending', Late \cup {key})
  BY <1>1, <1>3 DEF ViewList
<1>10. View = manifest.layers \cup Stacked(top, pending, Late)
  BY <1>2 DEF ViewList
<1>11. Appending(c) \notin View
  <2>1. IdsOf(View) = Visible /\ Appending(c).id = c
    BY <1>2, AppendingIs DEF ViewList
  <2> QED
    BY <1>1, <2>1 DEF IdsOf, Seen
<1> QED
  BY <1>8, <1>9, <1>10, <1>11

\* It lands above the others, of which none moves.
LEMMA AppendMoves ==
  ASSUME TypeInv, TypeInv', IdInv, IdInv', ~LateKeys, NEW c \in Commits, AppendRuns(c),
         NEW tl, tl = AppendTop
  PROVE  /\ Moves({}, {Appending(c)}, tl, tl + 1)
         /\ Tops(View, View', {Appending(c)}, tl, tl + 1)
         /\ \A v \in View : v.seq <= tl /\ tl \in Nat
<1> DEFINE n == Appending(c)
<1>1. View' = View \cup {n} /\ n \notin View
  BY AppendView
<1>2. n.seq = tl + 1 /\ tl \in Nat /\ (\A v \in View : v.seq <= tl) /\ n.id = c
  BY AppendingIs
<1>3. List(View) /\ List(View') /\ IdsOf(View) = Visible /\ \A v \in View : v.seq \in Nat
  BY ViewIs, ViewIsNext DEF ViewList, List, LayerRec
<1>4. plans' = plans /\ Visible' = Visible \cup {c} /\ ~Seen(c)
  BY AppendsIs
<1> HIDE DEF n
<1>5. \A v \in View : Was(v, v, tl, tl + 1)
  BY <1>2 DEF Was
<1>6. Lands(View, View', {}, {n}, tl, tl + 1)
  <2>1. n.id \notin IdsOf(View)
    BY <1>2, <1>3, <1>4 DEF Seen
  <2>2. \A w \in View' : w \in {n} \/ \E v \in View : v.id \notin {} /\ Was(w, v, tl, tl + 1)
    BY <1>1, <1>5
  <2>3. \A v \in View : v.id \notin {} => \E w \in View' : Was(w, v, tl, tl + 1)
    BY <1>1, <1>5
  <2> QED
    BY <1>1, <1>2, <1>3, <2>1, <2>2, <2>3 DEF Lands
<1>7. Tops(View, View', {n}, tl, tl + 1)
  BY <1>2, <1>3, <1>6 DEF Tops
<1>8. Moves({}, {n}, tl, tl + 1)
  BY <1>4, <1>6 DEF Moves
<1> QED
  BY <1>2, <1>7, <1>8 DEF n

\* Records after a commit named its runs.
LEMMA AppendKeeps ==
  ASSUME TypeInv, TypeInv', IdInv, IdInv', Records, ~LateKeys, NEW c \in Commits, AppendRuns(c)
  PROVE  Records'
<1> DEFINE n == Appending(c)
           tl == AppendTop
<1>1. /\ n.id = c /\ DOMAIN n.at = KeysOf[c] /\ KeysOf[c] # {} /\ \A k \in KeysOf[c] : n.at[k] = c
  BY AppendingIs
<1>2. /\ named' = named \cup {c} /\ c \notin named /\ manifest' = manifest /\ files' = files /\ next' = next
      /\ \A k \in Late' : (k \in Late /\ pending'[k] = pending[k]) \/ pending'[k] = c
  <2>1. \A key : key = KeyOf(c) => /\ \A k \in DOMAIN pending : pending'[k] = pending[k]
                                  /\ Late' = Late \cup {key} /\ pending'[key] = c
    BY AppendsIs
  <2>2. named' = named \cup {c} /\ c \notin named /\ manifest' = manifest /\ files' = files /\ next' = next
    BY AppendsIs
  <2>3. Late \subseteq DOMAIN pending
    BY ViewIs DEF ViewList
  <2> QED
    BY <2>1, <2>2, <2>3
<1>3. /\ Replaced(View, Lost)
      /\ \A d \in named : \A k \in KeysOf[d] : \E l \in View : k \in DOMAIN l.at
      /\ \A l \in View : DOMAIN l.at # {} /\ \A k \in DOMAIN l.at : l.at[k] < next.id
      /\ \A pk \in manifest.packs \cup {CommitPack(d) : d \in Commits} :
            /\ pk.keys # {}
            /\ \A l \in View : \A k \in DOMAIN l.at : l.at[k] = pk.id => k \in pk.keys
      /\ Pack(c) \in files /\ c \notin manifest.adopted
      /\ \A d \in Commits \ named : Pack(d) \in files /\ d \notin manifest.adopted
      /\ \A k \in Late : pending[k] \notin manifest.adopted
  BY <1>2 DEF Records
<1>4. Lost' = Lost
  BY <1>2 DEF Lost
<1>5. PackFree(c)
  BY <1>2, <1>3 DEF IdInv, Packs
<1>6. c \notin Lost
  BY <1>3, <1>5 DEF Lost, PackFree
<1>7. Tops(View, View', {n}, tl, tl + 1)
  BY AppendMoves
<1>8. View' = View \cup {n}
  BY AppendView
<1> HIDE DEF n, tl
<1>9. Replaced(View', Lost)
  <2>1. \A o \in {n} : \A k \in DOMAIN o.at : o.at[k] \notin Lost
    BY <1>1, <1>6
  <2>2. \A v \in View : \A k \in DOMAIN v.at :
            v.at[k] \in Lost => v.at[k] \in Lost \/ (v.seq <= tl /\ \E o \in {n} : k \in DOMAIN o.at)
    OBVIOUS
  <2> QED
    BY <1>3, <1>7, <2>1, <2>2, TopEntries
<1>10. Replaced(View, Lost)'
  BY <1>4, <1>9 DEF Replaced, Newer
<1>11. \A d \in named' : \A k \in KeysOf[d] : \E l \in View' : k \in DOMAIN l.at
  BY <1>1, <1>2, <1>3, <1>8
<1>12. \A l \in View' : DOMAIN l.at # {} /\ \A k \in DOMAIN l.at : l.at[k] < next'.id
  <2>1. c < next.id
    BY Constants DEF TypeInv, Types
  <2> QED
    BY <1>1, <1>2, <1>3, <1>8, <2>1
<1>13. ASSUME NEW pk \in manifest.packs \cup {CommitPack(d) : d \in Commits}
       PROVE  /\ pk.keys # {}
              /\ \A l \in View' : \A k \in DOMAIN l.at : l.at[k] = pk.id => k \in pk.keys
  <2>1. ASSUME NEW k \in DOMAIN n.at, n.at[k] = pk.id PROVE k \in pk.keys
    <3>1. pk.id = c
      BY <1>1, <2>1
    <3>2. pk \notin manifest.packs
      BY <1>5, <3>1 DEF PackFree, PackIds
    <3>3. PICK d \in Commits : pk = CommitPack(d)
      BY <3>2
    <3>4. CommitPack(d).id = d /\ CommitPack(d).keys = KeysOf[d]
      BY CommitFiles
    <3> QED
      BY <1>1, <2>1, <3>1, <3>3, <3>4
  <2>2. /\ pk.keys # {}
        /\ \A l \in View : \A k \in DOMAIN l.at : l.at[k] = pk.id => k \in pk.keys
    BY <1>3
  <2> QED
    BY <1>8, <2>1, <2>2
<1>14. \A d \in Commits \ named' : Pack(d) \in files' /\ d \notin manifest'.adopted
  BY <1>2, <1>3
<1>15. \A k \in Late' : pending'[k] \notin manifest'.adopted
  BY <1>2, <1>3
<1>16. \A pk \in manifest'.packs \cup {CommitPack(d) : d \in Commits} :
            /\ pk.keys # {}
            /\ \A l \in View' : \A k \in DOMAIN l.at : l.at[k] = pk.id => k \in pk.keys
  BY <1>2, <1>13
<1> QED
  BY <1>10, <1>11, <1>12, <1>14, <1>15, <1>16 DEF Records

LEMMA AppendRunsRecorded ==
  ASSUME TypeInv, TypeInv', IdInv, IdInv', RecordInv, ~LateKeys, NEW c \in Commits, AppendRuns(c)
  PROVE  RecordInv'
<1> DEFINE x == Committer(c)
           n == Appending(c)
           r == At("save")
           tl == AppendTop
           key == KeyOf(c)
<1>1. x \in Processes /\ r.pc = "save" /\ process' = [process EXCEPT ![x] = r]
  <2>1. "save" \in Steps
    BY DEF Steps
  <2> QED
    BY <2>1, Disjoint, AtIs, AppendsIs
<1>2. /\ Moves({}, {n}, tl, tl + 1) /\ Tops(View, View', {n}, tl, tl + 1)
      /\ \A v \in View : v.seq <= tl /\ tl \in Nat
  BY AppendMoves
<1>3. View' = View \cup {n} /\ n.id = c /\ DOMAIN n.at = KeysOf[c] /\ \A k \in KeysOf[c] : n.at[k] = c
  BY AppendView, AppendingIs
<1>4. /\ named' = named \cup {c} /\ c \notin named /\ manifest' = manifest /\ files' = files /\ ~Seen(c)
      /\ \A k \in DOMAIN pending : pending'[k] = pending[k]
      /\ DOMAIN pending' = DOMAIN pending \cup {key} /\ key \notin DOMAIN pending
      /\ Late' = Late \cup {key} /\ pending'[key] = c
      /\ \A y \in Processes : Listing(y) => key \notin process[y].listed
  BY AppendsIs
<1>5. \A k \in DOMAIN pending : k < key
  BY DEF AppendRuns, KeyOf
<1>6. Late \subseteq DOMAIN pending /\ IdsOf(View) = Visible
  BY ViewIs DEF ViewList
<1> HIDE DEF x, n, r, tl, key
<1>7. \A v \in View : v.seq \in Nat
  BY ViewIs DEF ViewList, List, LayerRec
<1>8. Ordering'
  <2>1. \A B, s : Merging(B, s) => \A j \in Inputs(View, B) : j.seq > tl => Exact(View, B, s) /\ {n} = {}
    BY <1>2, <1>7 DEF Inputs
  <2> QED
    BY <1>1, <1>2, <2>1, TopsOrder
<1>9. /\ \A p \in Plans : PlanSees(plans[p])'
      /\ \A y \in Processes : ProcSees(y, process[y])'
  <2>1. \A y \in Maintainers \ {x} : \A l \in View' : \A k \in DOMAIN l.at :
              l.at[k] \in Commits \ named \/ \E v \in View : k \in DOMAIN v.at /\ v.at[k] = l.at[k]
    BY <1>3, <1>4
  <2>2. \A d \in Commits : x = Committer(d) /\ r.pc \in {"save", "clear"} => d \in named'
    BY <1>4, Disjoint DEF x
  <2>3. ASSUME NEW d \in Commits, NEW y \in Processes \ {x}, y = Committer(d), process[y].pc = "claim",
               process[y].base.seq = manifest'.seq, NEW k \in Late', pending'[k] = d
        PROVE  k \in process[y].listed
    <3>1. d # c
      BY <2>3 DEF x
    <3>2. k \in Late /\ pending[k] = d
      BY <1>4, <1>6, <2>3, <3>1
    <3>3. ProcSees(y, process[y])
      BY DEF RecordInv, Seeing
    <3> QED
      BY <1>4, <2>3, <3>2, <3>3 DEF ProcSees
  <2>4. named \subseteq named'
    BY <1>4
  <2>5. r.pc \notin {"update", "claim"} /\ files' = files
    BY <1>1, <1>4
  <2>6. \A d \in Commits, y \in Processes \ {x} :
            y = Committer(d) /\ process[y].pc = "claim" /\ process[y].base.seq = manifest'.seq =>
              \A k \in Late' : pending'[k] = d => k \in process[y].listed
    BY <2>3
  <2>7. Moves({}, {n}, tl, tl + 1)
    BY <1>2
  <2>8. process' = [process EXCEPT ![x] = r] /\ x \in Processes
    BY <1>1
  <2> QED
    BY <2>1, <2>2, <2>4, <2>5, <2>6, <2>7, <2>8, MovedSeen
<1>10. ASSUME NEW y \in Processes PROVE Listed(y)'
  <2> SUFFICES ASSUME Matching(y)' PROVE Listed(y)'
    BY DEF Listed
  <2>1. y # x
    BY <1>1 DEF Matching, TypeInv, Types
  <2>2. process'[y] = process[y]
    BY <1>1, <2>1 DEF TypeInv, Types
  <2>3. Matching(y) /\ Listing(y)
    BY <1>4, <2>2 DEF Matching, Listing
  <2>4. /\ \A j \in process[y].listed \cap DOMAIN pending, k \in DOMAIN pending \ process[y].listed : j < k
        /\ \A B, s : Merging(B, s) /\ (\E k \in Late \ process[y].listed : pending[k] \in B) =>
              Exact(View, B, s) /\ y \notin Maintainers
    BY <2>3 DEF RecordInv, Seeing, Listed
  <2>5. \A j \in process[y].listed \cap DOMAIN pending', k \in DOMAIN pending' \ process[y].listed : j < k
    BY <1>4, <1>5, <2>3, <2>4
  <2>6. ASSUME NEW B, NEW s, Merging(B, s)', NEW k \in Late' \ process[y].listed, pending'[k] \in B
        PROVE  Exact(View, B, s)' /\ y \notin Maintainers
    <3>1. Merging(B, s) /\ B \subseteq IdsOf(View)
      <4>1. r.pc \notin {"update", "claim"}
        BY <1>1
      <4> QED
        BY <1>1, <1>2, <2>6, <4>1, MovesMerging
    <3>2. c \notin B
      BY <1>4, <1>6, <3>1 DEF Seen
    <3>3. k \in Late /\ pending[k] \in B
      BY <1>4, <1>6, <2>6, <3>2
    <3>4. Exact(View, B, s) /\ y \notin Maintainers
      BY <2>4, <2>6, <3>1, <3>3
    <3>5. Inputs(View', B) = Inputs(View, B)
      BY <1>3, <3>2 DEF Inputs
    <3>6. Exact(View', B, s)
      BY <3>4, <3>5 DEF Exact
    <3> QED
      BY <3>4, <3>6, PrimesView
  <2> QED
    BY <2>2, <2>5, <2>6 DEF Listed
<1>11. Records'
  BY AppendKeeps DEF RecordInv
<1> QED
  BY <1>8, <1>9, <1>10, <1>11 DEF RecordInv, Seeing

-----------------------------------------------------------------------------
(* A change lands.                                                         *)

\* A change that lands is a merge of layers, a merge of packs, or one that only folds in.
LEMMA WinShape ==
  ASSUME TypeInv, IdInv, RecordInv, NEW x \in Processes, Matching(x), NEW ch, ch = process[x].change
  PROVE  /\ ch.oldLayers # {} =>
               /\ x \in Workers /\ ch.keepSeq /\ ch.oldPacks = {} /\ ch.newPacks = {} /\ ch.adopts = {} /\ ch.newLayers # {}
               /\ \A l, j \in ch.newLayers : l.run = j.run
               /\ \E t : Merging(ch.oldLayers, t) /\ \A l \in ch.newLayers : l.seq = t
               /\ \A o \in ch.newLayers : Takes(View, ch.oldLayers, o) /\ DOMAIN o.at # {}
               /\ Covers(View, ch.oldLayers, ch.newLayers)
         /\ ch.oldLayers = {} /\ ch.newLayers # {} => x \in Maintainers /\ PacksMerged(ch) /\ ChangeSees(x, process[x])
         /\ ch.oldLayers = {} /\ ch.newLayers = {} => ch.oldPacks = {} /\ ch.newPacks = {}
         /\ ch.adopts # {} => \E c \in Commits : x = Committer(c) /\ ch.adopts = {c} /\ c \in Placed
<1>1. process[x].pc = "claim" /\ Changing(process[x]) /\ ProcShape(x, process[x]) /\ process[x] \in ProcRec
  BY ProcessTyped DEF Matching, Changing
<1>2. LiveChange(ch) /\ ch.oldLayers \subseteq Visible
  BY ChangeOf DEF LiveChange
<1>3. ASSUME NEW c \in Commits, x = Committer(c)
      PROVE  ch.oldLayers = {} /\ ch.newLayers = {} /\ ch.oldPacks = {} /\ ch.newPacks = {} /\ ch.adopts = {c} /\ c \in Placed
  <2>1. Adopting(ch, c) /\ c \in Placed
    BY <1>1, <1>3 DEF ProcShape, CommitShape
  <2> QED
    BY <2>1 DEF Adopting, NoChange
<1>4. ASSUME x \in Workers PROVE ChangeSees(x, process[x]) /\ ChangeIds(x, process[x])
  <2>1. ProcSees(x, process[x])
    BY DEF RecordInv, Seeing
  <2> QED
    BY <1>1, <1>4, <2>1, ChangeOf DEF ProcSees
<1>5. ASSUME x \in Workers, ch.oldLayers # {}, ch.keepSeq
      PROVE  /\ \A o \in ch.newLayers : Takes(View, ch.oldLayers, o) /\ DOMAIN o.at # {}
             /\ Covers(View, ch.oldLayers, ch.newLayers)
             /\ ch.newLayers # {}
  <2>1. /\ \A o \in ch.newLayers : Takes(View, ch.oldLayers, o) /\ DOMAIN o.at # {}
        /\ Covers(View, ch.oldLayers, ch.newLayers)
    BY <1>2, <1>4, <1>5 DEF ChangeSees
  <2>2. PICK id \in ch.oldLayers : TRUE
    BY <1>5
  <2>3. PICK j \in View : j.id = id
    BY <1>2, <2>2, ViewIs DEF ViewList, IdsOf
  <2>4. DOMAIN j.at # {}
    BY <2>3 DEF RecordInv, Records
  <2>5. ch.newLayers # {}
    BY <2>1, <2>2, <2>3, <2>4 DEF Covers, Inputs
  <2> QED
    BY <2>1, <2>5
<1>6. CASE x \in Maintainers
  <2>1. LayersMerged(ch) \/ PacksMerged(ch) \/ Forgetting(ch)
    BY <1>1, <1>6 DEF ProcShape, MaintainShape
  <2>2. x \in Workers
    BY <1>6 DEF Workers
  <2>3. CASE LayersMerged(ch)
    <3>1. /\ ch.keepSeq /\ ch.oldLayers # {} /\ ch.oldPacks = {} /\ ch.newPacks = {} /\ ch.adopts = {}
      BY <2>3 DEF LayersMerged
    <3>2. PICK l \in LayerRec : ch.newLayers = {l} /\ l.run = l.id /\ l.id \in Plans /\ l.nth = 0 /\ l.seq > 0
      BY <2>3 DEF LayersMerged
    <3>3. Merging(ch.oldLayers, l.seq)
      BY <1>1, <1>2, <1>6, <3>1, <3>2 DEF Merging
    <3> QED
      BY <1>5, <2>2, <3>1, <3>2, <3>3
  <2>4. CASE PacksMerged(ch)
    <3>1. ch.oldLayers = {} /\ ch.adopts = {} /\ ch.newLayers # {}
      BY <2>4 DEF PacksMerged
    <3> QED
      BY <1>4, <1>6, <2>2, <2>4, <3>1
  <2>5. CASE Forgetting(ch)
    BY <2>5 DEF Forgetting
  <2> QED
    BY <2>1, <2>3, <2>4, <2>5
<1>7. CASE x \in Mergers
  <2> DEFINE p == process[x].job.plan
  <2>1. RunSwapped(ch, p) /\ p \in Plans
    BY <1>1, <1>7 DEF ProcShape, MergeShape
  <2>2. ch.keepSeq /\ ch.oldPacks = {} /\ ch.newPacks = {} /\ ch.adopts = {} /\ \A l \in ch.newLayers : l.run = p
    BY <2>1 DEF RunSwapped
  <2>3. x \in Workers
    BY <1>7 DEF Workers
  <2>4. /\ ch.newLayers # {} => ch.oldLayers # {}
        /\ plans[p].there => ch.oldLayers = IdsOf(plans[p].layers)
        /\ ch.oldLayers # {} => plans[p].there
    BY <1>2, <1>4, <1>7, <2>3 DEF ChangeIds
  <2>5. ASSUME ch.oldLayers # {} PROVE \E t : Merging(ch.oldLayers, t) /\ \A l \in ch.newLayers : l.seq = t
    <3>1. plans[p].there /\ ch.oldLayers = IdsOf(plans[p].layers)
      BY <2>4, <2>5
    <3>2. Merging(ch.oldLayers, plans[p].seq)
      BY <1>2, <2>1, <3>1 DEF Merging, LivePlan
    <3>3. \A l \in ch.newLayers : l.seq = plans[p].seq
      BY <1>4, <1>7, <2>3, <3>1 DEF ChangeSees
    <3> QED
      BY <3>2, <3>3
  <2> HIDE DEF p
  <2> QED
    BY <1>5, <2>2, <2>3, <2>4, <2>5
<1>8. x \in Maintainers \/ x \in Mergers \/ \E c \in Commits : x = Committer(c)
  BY Disjoint
<1> QED
  BY <1>3, <1>6, <1>7, <1>8

WinTop(x) == TopSeq(manifest) + Cardinality(Pick(x))
Kepts(x) == Kept(Target(x), process[x].change)
Landed(x, l) == Appended(Kepts(x), l, NewSeq(Target(x), process[x].change, l))
Outs(x) == {Landed(x, l) : l \in process[x].change.newLayers}

\* The pending objects that a change folds in come before those it leaves.
LEMMA PickOrder ==
  ASSUME TypeInv, IdInv, RecordInv, NEW x \in Processes, Matching(x)
  PROVE  /\ Pick(x) \subseteq Late /\ \A a \in Pick(x), b \in Late \ Pick(x) : a < b
         /\ IsFiniteSet(Pick(x)) /\ IsFiniteSet(Late \ Pick(x)) /\ Late \subseteq Nat
         /\ Cardinality(Pick(x)) \in Nat /\ WinTop(x) \in Nat /\ TopSeq(manifest) \in Nat
         /\ \A a \in Pick(x) : Rank(Late, a) = Rank(Pick(x), a)
         /\ \A b \in Late \ Pick(x) : Rank(Late, b) = Cardinality(Pick(x)) + Rank(Late \ Pick(x), b)
<1>1. Pick(x) \subseteq Late
  BY ListedIs DEF IdInv, Pick
<1>2. IsFiniteSet(Late) /\ Late \subseteq Nat /\ Late \subseteq DOMAIN pending /\ TopSeq(manifest) \in Nat
  BY ViewIs DEF ViewList
<1>3. \A j \in process[x].listed \cap DOMAIN pending, k \in DOMAIN pending \ process[x].listed : j < k
  BY DEF RecordInv, Seeing, Listed
<1>4. \A a \in Pick(x), b \in Late \ Pick(x) : a < b
  BY <1>1, <1>2, <1>3 DEF Pick, Late
<1>5. /\ \A a \in Pick(x) : Rank(Late, a) = Rank(Pick(x), a)
      /\ \A b \in Late \ Pick(x) : Rank(Late, b) = Cardinality(Pick(x)) + Rank(Late \ Pick(x), b)
      /\ IsFiniteSet(Pick(x)) /\ IsFiniteSet(Late \ Pick(x)) /\ Cardinality(Pick(x)) \in Nat
  <2>1. Late = Pick(x) \cup (Late \ Pick(x))
    BY <1>1
  <2> HIDE DEF Pick
  <2>2. \A ks, A, B : /\ IsFiniteSet(ks) /\ ks \subseteq Nat /\ ks = A \cup B /\ \A a \in A, b \in B : a < b
             => /\ \A a \in A : Rank(ks, a) = Rank(A, a)
                /\ \A b \in B : Rank(ks, b) = Cardinality(A) + Rank(B, b)
                /\ IsFiniteSet(A) /\ IsFiniteSet(B) /\ Cardinality(A) \in Nat
    BY RankPrefix
  <2> QED
    BY <1>2, <1>4, <2>1, <2>2
<1> QED
  BY <1>1, <1>2, <1>4, <1>5 DEF WinTop

\* The view before and after a change lands.
LEMMA WinView ==
  ASSUME TypeInv, TypeInv', IdInv, IdInv', RecordInv, NEW x \in Processes, Matching(x), manifest' = Claimed(x),
         UNCHANGED <<pending, next>>, NEW tl, tl = WinTop(x), NEW tn, tn = TopSeq(manifest')
  PROVE  /\ View = Target(x).layers \cup Stacked(tl, pending, Late')
         /\ View' = Kepts(x) \cup Outs(x) \cup Stacked(tn, pending, Late')
         /\ Late' = Late \ Pick(x) /\ tl \in Nat /\ tn \in Nat
         /\ manifest'.layers = Kepts(x) \cup Outs(x)
         /\ \A l \in Kepts(x) \cup Outs(x) : l.seq \in Nat /\ l.seq <= tn
         /\ \A l \in Target(x).layers : l.seq \in Nat /\ l.seq <= tl
         /\ manifest.seq + 1 <= tn /\ manifest.seq \in Nat /\ manifest.seq <= tl
<1>1. Late' = Late \ Pick(x)
  BY LandsIs DEF IdInv
<1>2. ViewList /\ ViewList'
  BY ViewIs, ViewIsNext
<1>3. /\ manifest'.layers = Kepts(x) \cup Outs(x) /\ manifest'.seq = manifest.seq + 1
  BY ClaimedIs DEF Kepts, Outs, Landed, Target
<1>4. TopSeq(manifest') \in Nat /\ manifest'.seq <= TopSeq(manifest') /\ \A l \in manifest'.layers : l.seq \in Nat /\ l.seq <= TopSeq(manifest')
  <2>1. ManifestOK(manifest')
    BY DEF TypeInv, Types
  <2>2. manifest'.seq \in Nat /\ Bounded(manifest'.layers) /\ manifest'.layers \subseteq LayerRec
    BY <2>1 DEF ManifestOK, ManifestRec
  <2>3. \A m : m.seq \in Nat /\ Bounded(m.layers) => TopSeq(m) \in Nat /\ TopSeq(m) >= m.seq /\ \A l \in m.layers : l.seq <= TopSeq(m)
    BY TopOf
  <2>4. TopSeq(manifest') \in Nat /\ TopSeq(manifest') >= manifest'.seq /\ \A l \in manifest'.layers : l.seq <= TopSeq(manifest')
    BY <2>2, <2>3
  <2> QED
    BY <2>2, <2>4 DEF LayerRec
<1>5. View' = manifest'.layers \cup Stacked(tn, pending, Late')
  <2>1. View' = manifest'.layers \cup Stacked(TopSeq(manifest'), pending', Late')
    BY <1>2 DEF ViewList
  <2> QED
    BY <2>1
<1>6. /\ Target(x).layers = manifest.layers \cup Stacked(TopSeq(manifest), pending, Pick(x))
      /\ ManifestOK(Target(x))
  BY ListedIs, ClaimView DEF Target, Pick, IdInv
<1>7. /\ View = manifest.layers \cup Stacked(TopSeq(manifest), pending, Late) /\ TopSeq(manifest) \in Nat
      /\ \A k \in Late : pending[k] \in Commits
  BY <1>2 DEF ViewList
<1>8. /\ Pick(x) \subseteq Late /\ IsFiniteSet(Pick(x)) /\ Late \subseteq Nat /\ IsFiniteSet(Late \ Pick(x))
      /\ Cardinality(Pick(x)) \in Nat /\ WinTop(x) \in Nat
      /\ \A a \in Pick(x) : Rank(Late, a) = Rank(Pick(x), a)
      /\ \A b \in Late \ Pick(x) : Rank(Late, b) = Cardinality(Pick(x)) + Rank(Late \ Pick(x), b)
  BY PickOrder
<1>9. Stacked(TopSeq(manifest), pending, Late) = Stacked(TopSeq(manifest), pending, Pick(x)) \cup Stacked(tl, pending, Late \ Pick(x))
  <2> DEFINE top == TopSeq(manifest)
             a(k) == [CommitLayer(pending[k]) EXCEPT !.seq = top + Rank(Late, k)]
             b(k) == [CommitLayer(pending[k]) EXCEPT !.seq = top + Rank(Pick(x), k)]
             d(k) == [CommitLayer(pending[k]) EXCEPT !.seq = tl + Rank(Late \ Pick(x), k)]
  <2>1. \A k \in Pick(x) : a(k) = b(k)
    BY <1>8
  <2>2. \A k \in Late \ Pick(x) : a(k) = d(k)
    <3>1. ASSUME NEW k \in Late \ Pick(x) PROVE top + Rank(Late, k) = tl + Rank(Late \ Pick(x), k)
      <4>1. Rank(Late \ Pick(x), k) \in Nat
        BY <1>8, RankBound
      <4>2. Rank(Late, k) = Cardinality(Pick(x)) + Rank(Late \ Pick(x), k)
        BY <1>8
      <4> QED
        BY <1>7, <1>8, <4>1, <4>2 DEF WinTop
    <3> QED
      BY <3>1
  <2>3. Stacked(top, pending, Late) = {a(k) : k \in Late}
    BY DEF Stacked
  <2>4. Stacked(top, pending, Pick(x)) = {b(k) : k \in Pick(x)}
    BY DEF Stacked
  <2>5. Stacked(tl, pending, Late \ Pick(x)) = {d(k) : k \in Late \ Pick(x)}
    BY DEF Stacked
  <2> HIDE DEF a, b, d
  <2> QED
    BY <1>8, <2>1, <2>2, <2>3, <2>4, <2>5
<1>10. \A l \in Target(x).layers : l.seq \in Nat /\ l.seq <= tl
  <2>1. Target(x).layers \subseteq LayerRec
    BY <1>6 DEF ManifestOK, ManifestRec
  <2>2. \A l \in manifest.layers : l.seq <= TopSeq(manifest)
    <3>1. ManifestOK(manifest)
      BY DEF TypeInv, Types
    <3> QED
      BY <3>1, TopOf DEF ManifestOK, ManifestRec
  <2>3. \A l \in Stacked(TopSeq(manifest), pending, Pick(x)) : l.seq <= TopSeq(manifest) + Cardinality(Pick(x))
    <3>1. Pick(x) \subseteq Nat /\ \A k \in Pick(x) : pending[k] \in Commits
      BY <1>7, <1>8
    <3> HIDE DEF Pick
    <3> QED
      BY <1>7, <1>8, <3>1, StackedIs
  <2> QED
    BY <1>6, <1>7, <1>8, <2>1, <2>2, <2>3 DEF WinTop, LayerRec
<1>11. manifest.seq \in Nat /\ manifest.seq <= tl
  <2>1. ManifestOK(manifest)
    BY DEF TypeInv, Types
  <2>2. manifest.seq \in Nat /\ TopSeq(manifest) >= manifest.seq
    BY <2>1, TopOf DEF ManifestOK, ManifestRec
  <2> QED
    BY <1>7, <1>8, <2>2 DEF WinTop
<1> QED
  BY <1>1, <1>3, <1>4, <1>5, <1>6, <1>7, <1>8, <1>9, <1>10, <1>11

\* What lands: the inputs were listed, and no output was.
LEMMA WinOuts ==
  ASSUME TypeInv, IdInv, NEW x \in Processes, Matching(x), NEW ch, ch = process[x].change
  PROVE  /\ \A o \in Outs(x) : \E l \in ch.newLayers :
               /\ o.id = l.id /\ o.run = l.run /\ o.at = l.at /\ o.seq = NewSeq(Target(x), ch, l)
               /\ o.nth = EndOf(Kepts(x), NewSeq(Target(x), ch, l)) /\ o.id \notin Visible /\ o \in LayerRec
         /\ \A l \in ch.newLayers : \E o \in Outs(x) :
               o.id = l.id /\ o.run = l.run /\ o.at = l.at /\ o.seq = NewSeq(Target(x), ch, l)
         /\ \A o \in Outs(x), w \in Kepts(x) : w.seq = o.seq => w.nth < o.nth
         /\ Kepts(x) = {l \in Target(x).layers : l.id \notin ch.oldLayers}
         /\ ch.oldLayers \subseteq LayerIds(Target(x)) /\ LayerIds(Target(x)) \subseteq Visible
         /\ \A k \in Late \ Pick(x) : pending[k] \notin LayerIds(Target(x))
         /\ ManifestOK(Target(x)) /\ Target(x).seq = manifest.seq
<1>1. /\ \A l \in ch.newLayers :
           /\ Landed(x, l) \in LayerRec /\ Landed(x, l).id = l.id /\ Landed(x, l).run = l.run /\ Landed(x, l).at = l.at
           /\ Landed(x, l).seq = NewSeq(Target(x), ch, l) /\ Landed(x, l).nth = EndOf(Kepts(x), NewSeq(Target(x), ch, l))
  BY ClaimedIs DEF Landed, Kepts, Target
<1>2. \A l \in ch.newLayers : l.id \notin Visible
  BY ChangeOf DEF Unlisted
<1>3. ManifestOK(Target(x)) /\ Target(x).seq = manifest.seq
  BY ClaimView DEF Target
<1>4. Bounded(Kepts(x))
  BY <1>3, KeptIs DEF Kepts
<1>5. \A s : \A w \in Kepts(x) : w.seq = s => w.nth < EndOf(Kepts(x), s)
  BY <1>4, EndIs
<1>6. \A o : o \in Outs(x) <=> \E l \in ch.newLayers : o = Landed(x, l)
  BY DEF Outs
<1>7. Kepts(x) = {l \in Target(x).layers : l.id \notin ch.oldLayers}
  BY DEF Kepts, Kept
<1>8. Applies(Target(x), ch)
  BY DEF IdInv, Names, Target
<1>9. ch.oldLayers \subseteq LayerIds(Target(x))
  BY <1>8 DEF Applies
<1>10. /\ LayerIds(Target(x)) = LayerIds(manifest) \cup {pending[k] : k \in Pick(x)}
       /\ Pick(x) \subseteq Late
  BY ListedIs DEF IdInv, Target, Pick
<1>11. LayerIds(Target(x)) \subseteq Visible
  BY <1>10 DEF Visible
<1>12. \A k \in Late \ Pick(x) : pending[k] \notin LayerIds(Target(x))
  <2>1. Apart(manifest, pending, Late)
    BY NamesApart DEF IdInv
  <2> HIDE DEF Pick, Late
  <2> QED
    BY <1>10, <2>1 DEF Apart
<1> QED
  BY <1>1, <1>2, <1>3, <1>5, <1>6, <1>7, <1>9, <1>11, <1>12

\* The view moved as Lands says.
LEMMA WinLands ==
  ASSUME TypeInv, TypeInv', IdInv, IdInv', RecordInv, NEW x \in Processes, Matching(x), manifest' = Claimed(x),
         UNCHANGED <<pending, next>>, NEW tl, tl = WinTop(x), NEW tn, tn = TopSeq(manifest'),
         tl <= tn + 1, tn <= tl + 1, NEW ch, ch = process[x].change
  PROVE  /\ Lands(View, View', ch.oldLayers, Outs(x), tl, tn)
         /\ \A v \in View : v.seq > tl => \E k \in Late' : v.id = pending[k]
         /\ \A w \in View' : w \in Outs(x) \/ w \in Kepts(x) \/ w.seq > tn
<1> DEFINE O == Outs(x)
           K == Kepts(x)
           T == Target(x).layers
           S == Stacked(tl, pending, Late')
           R == Stacked(tn, pending, Late')
<1>1. /\ View = T \cup S /\ View' = K \cup O \cup R
      /\ Late' = Late \ Pick(x) /\ tl \in Nat /\ tn \in Nat
      /\ \A l \in K \cup O : l.seq \in Nat /\ l.seq <= tn
      /\ \A l \in T : l.seq \in Nat /\ l.seq <= tl
  BY WinView
<1>2. /\ \A o \in O : o.id \notin Visible
      /\ K = {l \in T : l.id \notin ch.oldLayers}
      /\ \A k \in Late' : pending[k] \notin ch.oldLayers
      /\ ch.oldLayers \subseteq {l.id : l \in T}
  <2>1. /\ \A k \in Late \ Pick(x) : pending[k] \notin LayerIds(Target(x))
        /\ \A o \in Outs(x) : o.id \notin Visible
        /\ Kepts(x) = {l \in Target(x).layers : l.id \notin ch.oldLayers}
        /\ ch.oldLayers \subseteq LayerIds(Target(x))
    BY WinOuts
  <2>2. LayerIds(Target(x)) = {l.id : l \in T}
    BY DEF LayerIds
  <2> QED
    BY <1>1, <2>1, <2>2
<1>3. IsFiniteSet(Late') /\ Late' \subseteq Nat /\ \A k \in Late' : pending[k] \in Commits
  <2>1. IsFiniteSet(Late \ Pick(x)) /\ Late \subseteq Nat /\ \A k \in Late : pending[k] \in Commits
    BY PickOrder, ViewIs DEF ViewList
  <2> QED
    BY <1>1, <2>1
<1>4. List(View) /\ List(View') /\ IdsOf(View) = Visible
  BY ViewIs, ViewIsNext DEF ViewList
<1> HIDE DEF O, K, T, S, R
<1>5. ASSUME NEW l \in S
      PROVE  /\ \E k \in Late' : l.id = pending[k] /\ l.seq = tl + Rank(Late', k) /\ l.run = pending[k] /\ l.nth = 0 /\ l.at = CommitLayer(pending[k]).at
             /\ l.seq > tl
    BY <1>1, <1>3, <1>5, StackedIs DEF S
<1>6. ASSUME NEW l \in R
      PROVE  /\ \E k \in Late' : l.id = pending[k] /\ l.seq = tn + Rank(Late', k) /\ l.run = pending[k] /\ l.nth = 0 /\ l.at = CommitLayer(pending[k]).at
             /\ l.seq > tn
    BY <1>1, <1>3, <1>6, StackedIs DEF R
<1>7. ASSUME NEW l \in S PROVE \E w \in R : Was(w, l, tl, tn)
  <2>1. PICK k \in Late' : l.id = pending[k] /\ l.seq = tl + Rank(Late', k) /\ l.run = pending[k] /\ l.nth = 0 /\ l.at = CommitLayer(pending[k]).at
    BY <1>5
  <2>2. Rank(Late', k) \in Nat
    BY <1>3, RankBound
  <2> DEFINE w == [CommitLayer(pending[k]) EXCEPT !.seq = tn + Rank(Late', k)]
  <2>3. w \in R
    BY DEF R, Stacked
  <2>4. w.id = pending[k] /\ w.seq = tn + Rank(Late', k) /\ w.run = pending[k] /\ w.nth = 0 /\ w.at = CommitLayer(pending[k]).at
    BY DEF CommitLayer
  <2> HIDE DEF w
  <2>5. Was(w, l, tl, tn)
    BY <1>1, <1>5, <2>1, <2>2, <2>4 DEF Was
  <2> QED
    BY <2>3, <2>5
<1>8. ASSUME NEW w \in R PROVE \E l \in S : Was(w, l, tl, tn)
  <2>1. PICK k \in Late' : w.id = pending[k] /\ w.seq = tn + Rank(Late', k) /\ w.run = pending[k] /\ w.nth = 0 /\ w.at = CommitLayer(pending[k]).at
    BY <1>6
  <2>2. Rank(Late', k) \in Nat /\ Rank(Late', k) >= 1
    BY <1>3, RankBound
  <2> DEFINE l == [CommitLayer(pending[k]) EXCEPT !.seq = tl + Rank(Late', k)]
  <2>3. l \in S
    BY DEF S, Stacked
  <2>4. l.id = pending[k] /\ l.seq = tl + Rank(Late', k) /\ l.run = pending[k] /\ l.nth = 0 /\ l.at = CommitLayer(pending[k]).at
    BY DEF CommitLayer
  <2> HIDE DEF l
  <2>5. Was(w, l, tl, tn)
    BY <1>1, <2>1, <2>2, <2>4 DEF Was
  <2> QED
    BY <2>3, <2>5
<1>9. \A l \in K : Was(l, l, tl, tn)
  BY <1>1, <1>2 DEF Was
<1>10. \A l \in S : l.id \notin ch.oldLayers
  BY <1>2, <1>5
<1>11. \A w \in View' : w \in O \/ \E v \in View : v.id \notin ch.oldLayers /\ Was(w, v, tl, tn)
  BY <1>1, <1>2, <1>8, <1>9, <1>10
<1>12. \A v \in View : v.id \notin ch.oldLayers => \E w \in View' : Was(w, v, tl, tn)
  <2>1. \A v \in T : v.id \notin ch.oldLayers => \E w \in View' : Was(w, v, tl, tn)
    BY <1>1, <1>2, <1>9
  <2>2. \A v \in S : \E w \in View' : Was(w, v, tl, tn)
    BY <1>1, <1>7
  <2>3. View = T \cup S
    BY <1>1
  <2>4. ASSUME NEW v \in View, v.id \notin ch.oldLayers PROVE \E w \in View' : Was(w, v, tl, tn)
    <3>1. CASE v \in T
      BY <2>1, <2>4, <3>1
    <3>2. CASE v \in S
      BY <2>2, <3>2
    <3> QED
      BY <2>3, <3>1, <3>2
  <2> QED
    BY <2>4
<1>13. \A v \in View : v.seq <= tl => v.id \in ch.oldLayers \/ v.seq <= tn
  <2>1. \A v \in View : v.seq \in Nat
    BY <1>4 DEF List, LayerRec
  <2>2. ASSUME NEW v \in View, v.seq <= tl PROVE v.id \in ch.oldLayers \/ v.seq <= tn
    <3>1. v \notin S
      BY <1>1, <1>5, <2>1, <2>2
    <3> QED
      BY <1>1, <1>2, <3>1
  <2> QED
    BY <2>2
<1>14. \A v \in View : v.id \in ch.oldLayers => v.seq <= tl
  BY <1>1, <1>10
<1>15. \A u, v \in View : u.seq > tl /\ u.seq = v.seq => u = v
  <2>1. \A u, v \in S : u.seq = v.seq => u = v
    BY <1>1, <1>3, StackedApart DEF S
  <2> QED
    BY <1>1, <2>1
<1>16. \A o \in O : o.seq <= tn /\ o.id \notin IdsOf(View)
  BY <1>1, <1>2, <1>4
<1>17. O \subseteq View'
  BY <1>1
<1>18. Lands(View, View', ch.oldLayers, O, tl, tn)
  BY <1>1, <1>4, <1>11, <1>12, <1>13, <1>14, <1>15, <1>16, <1>17 DEF Lands
<1> QED
  BY <1>1, <1>5, <1>6, <1>18 DEF O, K

\* The newest of the layers a change lands on, or the number of the manifest, is at the top.
LEMMA TopReached ==
  ASSUME TypeInv, IdInv, RecordInv, NEW x \in Processes, Matching(x)
  PROVE  WinTop(x) = manifest.seq \/ \E l \in Target(x).layers : l.seq = WinTop(x)
<1> DEFINE top == TopSeq(manifest)
           ks == Pick(x)
<1>1. /\ Target(x).layers = manifest.layers \cup Stacked(top, pending, ks)
  BY ListedIs DEF Target, Pick, IdInv
<1>2. top \in Nat /\ Cardinality(ks) \in Nat /\ IsFiniteSet(ks) /\ ks \subseteq Nat /\ ks \subseteq Late
  BY PickOrder
<1>3. CASE ks = {}
  <2>1. WinTop(x) = top
    BY <1>2, <1>3, FS_EmptySet DEF WinTop
  <2>2. ManifestOK(manifest)
    BY DEF TypeInv, Types
  <2>3. top = manifest.seq \/ \E l \in manifest.layers : l.seq = top
    BY <2>2, TopOf DEF ManifestOK, ManifestRec
  <2> QED
    BY <1>1, <2>1, <2>3
<1>4. CASE ks # {}
  <2>1. \A k \in ks : k <= next.key /\ next.key \in Nat
    <3>1. \A k \in DOMAIN pending : k \in Nat /\ k < next.key
      BY DEF TypeInv, KeyFacts
    <3>2. next.key \in Nat
      BY DEF TypeInv, Types
    <3>3. ks \subseteq DOMAIN pending
      BY <1>2 DEF Late
    <3> QED
      BY <3>1, <3>2, <3>3
  <2> HIDE DEF ks
  <2>2. PICK k \in ks : \A j \in ks : j <= k
    <3>1. next.key \in Nat
      BY <1>4, <2>1
    <3>2. Max(ks) \in ks /\ \A j \in ks : j <= Max(ks)
      BY <1>2, <1>4, <2>1, <3>1, MaxOf
    <3> QED
      BY <3>2
  <2>3. Rank(ks, k) = Cardinality(ks)
    <3>1. {j \in ks : j <= k} = ks
      BY <2>2
    <3> QED
      BY <3>1 DEF Rank
  <2> DEFINE l == [CommitLayer(pending[k]) EXCEPT !.seq = top + Rank(ks, k)]
  <2>4. l \in Stacked(top, pending, ks)
    BY <2>2 DEF Stacked
  <2>5. l.seq = WinTop(x)
    BY <2>3 DEF CommitLayer, WinTop, ks
  <2> QED
    BY <1>1, <2>4, <2>5 DEF ks
<1> QED
  BY <1>3, <1>4

\* A change with inputs lands as a merge does.
LEMMA WinMerges ==
  ASSUME TypeInv, TypeInv', IdInv, IdInv', RecordInv, NEW x \in Processes, Matching(x), manifest' = Claimed(x),
         UNCHANGED <<pending, next>>, NEW tl, tl = WinTop(x), NEW tn, tn = TopSeq(manifest'),
         NEW ch, ch = process[x].change, ch.oldLayers # {}
  PROVE  \E t : /\ Merging(ch.oldLayers, t)
                /\ Merges(View, View', ch.oldLayers, t, Outs(x), tl, tn)
                /\ \A o, p \in Outs(x) : o.run = p.run /\ o.nth = p.nth
<1>1. PICK t : Merging(ch.oldLayers, t) /\ \A l \in ch.newLayers : l.seq = t
  BY WinShape
<1>2. ch.keepSeq /\ ch.newLayers # {} /\ \A l, j \in ch.newLayers : l.run = j.run
  BY WinShape
<1>3. Fits(View, ch.oldLayers, t)
  BY <1>1 DEF RecordInv, Ordering
<1>4. /\ \A o \in Outs(x) : o.seq = t /\ o.nth = EndOf(Kepts(x), t) /\ o \in LayerRec
      /\ \A o, p \in Outs(x) : o.run = p.run /\ o.nth = p.nth
      /\ Outs(x) # {}
      /\ \A o \in Outs(x), w \in Kepts(x) : w.seq = o.seq => w.nth < o.nth
  <2>1. \A l \in ch.newLayers : NewSeq(Target(x), ch, l) = t
    BY <1>1, <1>2 DEF NewSeq
  <2>2. \A o \in Outs(x) : \E l \in ch.newLayers :
                 /\ o.run = l.run /\ o.seq = NewSeq(Target(x), ch, l)
                 /\ o.nth = EndOf(Kepts(x), NewSeq(Target(x), ch, l)) /\ o \in LayerRec
    BY WinOuts
  <2>3. \A l \in ch.newLayers : \E o \in Outs(x) : o.id = l.id
    BY WinOuts
  <2>4. \A o \in Outs(x), w \in Kepts(x) : w.seq = o.seq => w.nth < o.nth
    BY WinOuts
  <2> QED
    BY <1>2, <2>1, <2>2, <2>3, <2>4
<1>5. t \in Nat
  BY <1>4 DEF LayerRec
<1>6. /\ View = Target(x).layers \cup Stacked(tl, pending, Late') /\ tl \in Nat /\ tn \in Nat
      /\ \A l \in Kepts(x) \cup Outs(x) : l.seq \in Nat /\ l.seq <= tn
      /\ \A l \in Target(x).layers : l.seq \in Nat /\ l.seq <= tl
      /\ manifest.seq + 1 <= tn /\ manifest.seq \in Nat /\ manifest.seq <= tl
      /\ manifest'.layers = Kepts(x) \cup Outs(x)
  BY WinView
<1>7. t <= tn
  BY <1>4, <1>6
<1>8. Kepts(x) = {l \in Target(x).layers : l.id \notin ch.oldLayers}
      /\ ch.oldLayers \subseteq LayerIds(Target(x)) /\ LayerIds(Target(x)) \subseteq Visible
  BY WinOuts
<1>9. List(View) /\ IdsOf(View) = Visible /\ \A v \in View : v.seq \in Nat
  BY ViewIs DEF ViewList, List, LayerRec
<1>10. \A j \in Inputs(View, ch.oldLayers) : j \in Target(x).layers
  <2> SUFFICES ASSUME NEW j \in View, j.id \in ch.oldLayers PROVE j \in Target(x).layers
    BY DEF Inputs
  <2>1. PICK i \in Target(x).layers : i.id = j.id
    BY <1>8 DEF LayerIds
  <2> QED
    BY <1>6, <1>9, <2>1 DEF List
<1>11. tl <= tn + 1
  <2>1. CASE tl = manifest.seq
    BY <1>6, <2>1
  <2>2. ASSUME NEW l \in Target(x).layers, l.seq = tl PROVE tl <= tn + 1
    <3>1. CASE l.id \in ch.oldLayers
      <4>1. l \in Inputs(View, ch.oldLayers)
        BY <1>6, <3>1 DEF Inputs
      <4>2. l.seq <= t + 1
        BY <1>3, <4>1 DEF Fits
      <4> QED
        BY <1>5, <1>6, <1>7, <2>2, <4>2
    <3>2. CASE l.id \notin ch.oldLayers
      BY <1>6, <1>8, <2>2, <3>2
    <3> QED
      BY <3>1, <3>2
  <2> QED
    BY <2>1, <2>2, TopReached
<1>12. tn <= tl + 1
  <2>1. ManifestOK(manifest')
    BY DEF TypeInv, Types
  <2>2. tn = manifest'.seq \/ \E l \in manifest'.layers : l.seq = tn
    <3>1. \A m : m.seq \in Nat /\ Bounded(m.layers) => TopSeq(m) = m.seq \/ \E l \in m.layers : l.seq = TopSeq(m)
      BY TopOf
    <3> QED
      BY <2>1, <3>1 DEF ManifestOK, ManifestRec
  <2>3. manifest'.seq = manifest.seq + 1
    BY ClaimedIs
  <2>4. ASSUME NEW l \in Kepts(x) PROVE l.seq <= tl
    BY <1>6, <1>8
  <2>5. t <= tl + 1
    <3>1. PICK j \in Inputs(View, ch.oldLayers) : t <= j.seq + 1
      BY <1>3 DEF Fits
    <3>2. j.seq \in Nat /\ j.seq <= tl
      BY <1>6, <1>10
    <3> QED
      BY <1>5, <1>6, <3>1, <3>2
  <2> QED
    BY <1>4, <1>6, <2>2, <2>3, <2>4, <2>5
<1>13. /\ Lands(View, View', ch.oldLayers, Outs(x), tl, tn)
       /\ \A w \in View' : w \in Outs(x) \/ w \in Kepts(x) \/ w.seq > tn
  BY <1>11, <1>12, WinLands
<1>14. \A o \in Outs(x) : o.seq = t /\ \A w \in View' \ Outs(x) : w.seq = t => w.nth < o.nth
  <2> SUFFICES ASSUME NEW o \in Outs(x), NEW w \in View' \ Outs(x), w.seq = t PROVE w.nth < o.nth
    BY <1>4
  <2>1. w \in Kepts(x)
    BY <1>5, <1>6, <1>7, <1>13
  <2> QED
    BY <1>4, <2>1
<1>15. Merges(View, View', ch.oldLayers, t, Outs(x), tl, tn)
  BY <1>3, <1>5, <1>8, <1>9, <1>13, <1>14 DEF Merges
<1> QED
  BY <1>1, <1>4, <1>15

\* A change without lands on top.
LEMMA WinTops ==
  ASSUME TypeInv, TypeInv', IdInv, IdInv', RecordInv, NEW x \in Processes, Matching(x), manifest' = Claimed(x),
         UNCHANGED <<pending, next>>, NEW tl, tl = WinTop(x), NEW tn, tn = TopSeq(manifest'),
         NEW ch, ch = process[x].change, ch.oldLayers = {}
  PROVE  Tops(View, View', Outs(x), tl, tn)
<1>1. /\ tl \in Nat /\ tn \in Nat
      /\ \A l \in Kepts(x) \cup Outs(x) : l.seq \in Nat /\ l.seq <= tn
      /\ \A l \in Target(x).layers : l.seq \in Nat /\ l.seq <= tl
      /\ manifest.seq + 1 <= tn /\ manifest.seq \in Nat /\ manifest.seq <= tl
      /\ manifest'.layers = Kepts(x) \cup Outs(x)
  BY WinView
<1>2. /\ Kepts(x) = Target(x).layers
      /\ ManifestOK(Target(x)) /\ Target(x).seq = manifest.seq
  <2>1. /\ Kepts(x) = {l \in Target(x).layers : l.id \notin ch.oldLayers}
        /\ ManifestOK(Target(x)) /\ Target(x).seq = manifest.seq
    BY WinOuts
  <2> QED
    BY <2>1
<1>3. \A o \in Outs(x) : \E l \in ch.newLayers : o.id = l.id /\ o \in LayerRec /\ o.seq = NewSeq(Target(x), ch, l)
  BY WinOuts
<1>4. ASSUME NEW o \in Outs(x)
      PROVE  /\ \A v \in Target(x).layers : v.seq < o.seq
             /\ o.seq <= tl + 1
             /\ \A p \in Outs(x) : o = p
  <2>1. PICK l \in ch.newLayers : o.id = l.id /\ o \in LayerRec /\ o.seq = NewSeq(Target(x), ch, l)
    BY <1>3
  <2>2. PacksMerged(ch)
    BY <2>1, WinShape
  <2>3. ~ch.keepSeq /\ \A j \in ch.newLayers : j = l
    BY <2>1, <2>2 DEF PacksMerged
  <2> DEFINE m == [Target(x) EXCEPT !.layers = Kept(Target(x), ch)]
  <2>4. o.seq = TopSeq(m) + 1
    BY <2>1, <2>3 DEF NewSeq
  <2>5. m.layers = Target(x).layers /\ m.seq = manifest.seq /\ m.seq \in Nat /\ Bounded(m.layers)
    <3>1. Kept(Target(x), ch) = Target(x).layers
      BY <1>2 DEF Kepts
    <3> QED
      BY <1>1, <1>2, <3>1 DEF ManifestOK, ManifestRec
  <2> HIDE DEF m
  <2>6. /\ TopSeq(m) \in Nat
        /\ \A v \in m.layers : v.seq <= TopSeq(m)
        /\ TopSeq(m) = m.seq \/ \E v \in m.layers : v.seq = TopSeq(m)
    BY <2>5, TopOf
  <2>7. \A p \in Outs(x) : o = p
    <3>1. \A p \in Outs(x) : \E j \in ch.newLayers : p = Landed(x, j)
      BY DEF Outs
    <3> QED
      BY <2>3, <3>1
  <2> QED
    BY <1>1, <2>4, <2>5, <2>6, <2>7
<1>5. tl <= tn + 1
  <2>1. ASSUME NEW l \in Target(x).layers, l.seq = tl PROVE tl <= tn + 1
    BY <1>1, <1>2, <2>1
  <2>2. tl = manifest.seq => tl <= tn + 1
    BY <1>1
  <2> QED
    BY <2>1, <2>2, TopReached
<1>6. tn <= tl + 1
  <2>1. ManifestOK(manifest')
    BY DEF TypeInv, Types
  <2>2. tn = manifest'.seq \/ \E l \in manifest'.layers : l.seq = tn
    <3>1. \A m : m.seq \in Nat /\ Bounded(m.layers) => TopSeq(m) = m.seq \/ \E l \in m.layers : l.seq = TopSeq(m)
      BY TopOf
    <3> QED
      BY <2>1, <3>1 DEF ManifestOK, ManifestRec
  <2>3. manifest'.seq = manifest.seq + 1
    BY ClaimedIs
  <2> QED
    BY <1>1, <1>2, <1>4, <2>2, <2>3
<1>7. /\ Lands(View, View', {}, Outs(x), tl, tn)
      /\ \A v \in View : v.seq > tl => \E k \in Late' : v.id = pending[k]
  BY <1>5, <1>6, WinLands
<1>8. ASSUME NEW o \in Outs(x), NEW v \in View, v.seq <= tl PROVE v.seq < o.seq
  <2>1. v \in Target(x).layers
    <3>1. View = Target(x).layers \cup Stacked(tl, pending, Late')
      BY WinView
    <3>2. ASSUME v \in Stacked(tl, pending, Late') PROVE FALSE
      <4>1. IsFiniteSet(Late \ Pick(x)) /\ Late \subseteq Nat /\ \A k \in Late : pending[k] \in Commits
        BY PickOrder, ViewIs DEF ViewList
      <4>2. Late' = Late \ Pick(x)
        BY WinView
      <4>3. IsFiniteSet(Late') /\ Late' \subseteq Nat /\ \A k \in Late' : pending[k] \in Commits
        BY <4>1, <4>2
      <4>4. v.seq > tl /\ v.seq \in Nat
        BY <1>1, <3>2, <4>3, StackedIs DEF LayerRec
      <4> QED
        BY <1>1, <1>8, <4>4
    <3> QED
      BY <3>1, <3>2
  <2> QED
    BY <1>4, <2>1
<1> QED
  BY <1>4, <1>7, <1>8 DEF Tops

\* Entries after a change landed.
LEMMA WinEntries ==
  ASSUME TypeInv, TypeInv', IdInv, IdInv', RecordInv, NEW x \in Processes, Matching(x), manifest' = Claimed(x),
         UNCHANGED <<pending, files, next>>, NEW ch, ch = process[x].change
  PROVE  /\ Replaced(View', Lost') /\ Held(View, View') /\ Taken(View, View', Outs(x))
         /\ ch.oldLayers # {} \/ Outs(x) = {} => Taken(View, View', {})
<1> DEFINE tl == WinTop(x)
           tn == TopSeq(manifest')
<1>1. Replaced(View, Lost)
  BY DEF RecordInv, Records
<1>2. \A id \in Ids : id \in Lost' => id \in Lost \/ id \in ch.oldPacks
  <2>1. \A id : Pack(id) \in manifest'.retired => Pack(id) \in manifest.retired \/ id \in ch.oldPacks
    BY LandsIs DEF IdInv
  <2> QED
    BY <2>1 DEF Lost
<1>3. /\ \A o \in Outs(x) : \E l \in ch.newLayers : l.at = o.at
      /\ \A l \in ch.newLayers : \E o \in Outs(x) : l.at = o.at
  <2>1. \A o \in Outs(x) : \E l \in ch.newLayers : o.at = l.at
    BY WinOuts
  <2>2. \A l \in ch.newLayers : \E o \in Outs(x) : o.at = l.at
    BY WinOuts
  <2> QED
    BY <2>1, <2>2
<1>4. \A v \in View : \A k \in DOMAIN v.at : v.at[k] \in Ids
  BY InView
<1>5. Lost' \subseteq Ids
  BY DEF Lost
<1>6. CASE ch.oldLayers # {}
  <2>1. /\ ch.oldPacks = {} /\ \A o \in ch.newLayers : Takes(View, ch.oldLayers, o) /\ DOMAIN o.at # {}
        /\ Covers(View, ch.oldLayers, ch.newLayers)
    BY <1>6, WinShape
  <2>2. PICK t : Merges(View, View', ch.oldLayers, t, Outs(x), tl, tn)
    <3>1. UNCHANGED <<pending, next>>
      OBVIOUS
    <3> QED
      BY <1>6, <3>1, WinMerges
  <2> HIDE DEF tl, tn
  <2>3. Taken(View, View', {}) /\ Held(View, View')
    BY <1>3, <2>1, <2>2, MergeEntries
  <2>4. Replaced(View', Lost)
    BY <1>1, <1>3, <2>1, <2>2, MergeReplaced
  <2>5. Lost' \subseteq Lost
    BY <1>2, <1>5, <2>1
  <2>6. Replaced(View', Lost')
    BY <2>4, <2>5 DEF Replaced
  <2>7. Taken(View, View', Outs(x))
    BY <2>3 DEF Taken
  <2> QED
    BY <2>3, <2>6, <2>7
<1>7. CASE ch.oldLayers = {}
  <2>1. Tops(View, View', Outs(x), tl, tn)
    <3>1. UNCHANGED <<pending, next>>
      OBVIOUS
    <3> QED
      BY <1>7, <3>1, WinTops
  <2>2. CASE ch.newLayers = {}
    <3>1. ch.oldPacks = {} /\ Outs(x) = {}
      <4>1. ch.oldPacks = {}
        BY <1>7, <2>2, WinShape
      <4> QED
        BY <2>2, <4>1 DEF Outs
    <3>2. \A o \in Outs(x) : \A k \in DOMAIN o.at : o.at[k] \notin Lost'
      BY <3>1
    <3>3. \A v \in View : \A k \in DOMAIN v.at :
             v.at[k] \in Lost' => v.at[k] \in Lost \/ (v.seq <= tl /\ \E o \in Outs(x) : k \in DOMAIN o.at)
      BY <1>2, <1>5, <3>1
    <3> HIDE DEF tl, tn
    <3>4. Replaced(View', Lost') /\ Taken(View, View', Outs(x)) /\ Held(View, View')
      BY <1>1, <2>1, <3>2, <3>3, TopEntries
    <3> QED
      BY <3>1, <3>4
  <2>3. CASE ch.newLayers # {}
    <3>1. x \in Maintainers /\ PacksMerged(ch) /\ ChangeSees(x, process[x])
      BY <1>7, <2>3, WinShape
    <3>2. PICK n \in LayerRec, pk \in PackRec :
             /\ ch.newLayers = {n} /\ n.id \in Plans /\ ch.newPacks = {pk} /\ pk.id = n.id
             /\ \A k \in DOMAIN n.at : n.at[k] = n.id
      BY <3>1 DEF PacksMerged
    <3>3. ~ch.keepSeq
      BY <3>1 DEF PacksMerged
    <3>4. /\ Pack(pk.id) \in files
          /\ \A l \in View : \A k \in DOMAIN l.at : l.at[k] \in ch.oldPacks => k \in DOMAIN n.at
      BY <3>1, <3>2, <3>3 DEF ChangeSees
    <3>5. PackFree(pk.id)
      BY <3>2, ChangeOf
    <3>6. ch.oldPacks \subseteq PackIds(Target(x))
      BY LandsIs DEF IdInv
    <3>7. PackIds(Target(x)) = PackIds(manifest) \cup ({pending[k] : k \in Pick(x)} \ Placed)
      BY ListedIs DEF IdInv, Target, Pick
    <3>8. Pick(x) \subseteq Late /\ Late' = Late \ Pick(x) /\ \A k \in Late : pending[k] \in Commits
      <4>1. Late' = Late \ Pick(x)
        BY LandsIs DEF IdInv
      <4> QED
        BY <4>1, PickOrder, ViewIs DEF ViewList
    <3>9. n.id \notin Lost'
      <4>1. n.id \notin Lost
        BY <3>2, <3>4, <3>5 DEF Lost, PackFree
      <4>2. n.id \notin Commits /\ n.id \in Ids
        BY <3>2, Constants
      <4>3. n.id \notin ch.oldPacks
        BY <3>2, <3>5, <3>6, <3>7, <3>8, <4>2 DEF PackFree
      <4> QED
        BY <1>2, <4>1, <4>2, <4>3
    <3>10. \A o \in Outs(x) : \A k \in DOMAIN o.at : o.at[k] \notin Lost'
      BY <1>3, <3>2, <3>9
    <3>11. ASSUME NEW v \in View, NEW k \in DOMAIN v.at, v.at[k] \in Lost', v.at[k] \notin Lost
           PROVE  v.seq <= tl /\ \E o \in Outs(x) : k \in DOMAIN o.at
      <4>1. v.at[k] \in ch.oldPacks
        BY <1>2, <1>5, <3>11
      <4>2. k \in DOMAIN n.at
        BY <3>4, <4>1
      <4>3. \E o \in Outs(x) : k \in DOMAIN o.at
        BY <1>3, <3>2, <4>2
      <4>4. v \notin Stacked(tl, pending, Late')
        <5> SUFFICES ASSUME v \in Stacked(tl, pending, Late') PROVE FALSE
          OBVIOUS
        <5>1. IsFiniteSet(Late') /\ Late' \subseteq Nat /\ (\A j \in Late' : pending[j] \in Commits) /\ tl \in Nat
          <6>1. IsFiniteSet(Late \ Pick(x)) /\ Late \subseteq Nat /\ tl \in Nat
            BY PickOrder
          <6> QED
            BY <3>8, <6>1
        <5>2. PICK j \in Late' : \A i \in DOMAIN v.at : v.at[i] = pending[j]
          BY <5>1, StackedIs
        <5>3. j \in Late /\ j \notin Pick(x) /\ pending[j] \in ch.oldPacks /\ pending[j] \in Commits
          BY <3>8, <4>1, <5>2
        <5>4. PackFree(pending[j])
          <6>1. pending[j] \notin manifest.adopted
            BY <5>3 DEF RecordInv, Records
          <6>2. CASE pending[j] \in Placed
            BY <5>3, <6>1, <6>2 DEF IdInv, Packs
          <6>3. CASE pending[j] \notin Placed
            BY <5>3, <6>3 DEF IdInv, Packs
          <6> QED
            BY <6>2, <6>3
        <5>5. \A i \in Pick(x) : pending[i] # pending[j]
          <6>1. Apart(manifest, pending, Late)
            BY NamesApart DEF IdInv
          <6> QED
            BY <3>8, <5>3, <6>1 DEF Apart
        <5> QED
          BY <3>6, <3>7, <5>3, <5>4, <5>5 DEF PackFree
      <4>5. View = Target(x).layers \cup Stacked(tl, pending, Late') /\ \A l \in Target(x).layers : l.seq <= tl
        BY WinView
      <4> QED
        BY <4>3, <4>4, <4>5
    <3>12. \A v \in View : \A k \in DOMAIN v.at :
             v.at[k] \in Lost' => v.at[k] \in Lost \/ (v.seq <= tl /\ \E o \in Outs(x) : k \in DOMAIN o.at)
      BY <3>11
    <3> HIDE DEF tl, tn
    <3>13. Replaced(View', Lost') /\ Taken(View, View', Outs(x)) /\ Held(View, View')
      BY <1>1, <2>1, <3>10, <3>12, TopEntries
    <3>14. Outs(x) # {}
      BY <1>3, <3>2
    <3> QED
      BY <1>7, <3>13, <3>14
  <2> QED
    BY <2>2, <2>3
<1> QED
  BY <1>6, <1>7

\* Records after a change landed.
LEMMA WinKeeps ==
  ASSUME TypeInv, TypeInv', IdInv, IdInv', RecordInv, NEW x \in Processes, Matching(x), manifest' = Claimed(x),
         UNCHANGED <<pending, files, named, next>>
  PROVE  Records'
<1> DEFINE ch == process[x].change
           O == Outs(x)
<1>1. /\ \A c \in named : \A k \in KeysOf[c] : \E l \in View : k \in DOMAIN l.at
      /\ \A l \in View : DOMAIN l.at # {} /\ \A k \in DOMAIN l.at : l.at[k] < next.id
      /\ \A pk \in manifest.packs \cup {CommitPack(c) : c \in Commits} :
            /\ pk.keys # {}
            /\ \A l \in View : \A k \in DOMAIN l.at : l.at[k] = pk.id => k \in pk.keys
      /\ \A c \in Commits \ named : Pack(c) \in files /\ c \notin manifest.adopted
      /\ \A k \in Late : pending[k] \notin manifest.adopted
  BY DEF RecordInv, Records
<1>2. /\ Replaced(View', Lost') /\ Held(View, View') /\ Taken(View, View', O)
      /\ ch.oldLayers # {} \/ O = {} => Taken(View, View', {})
  <2>1. UNCHANGED <<pending, files, next>>
    OBVIOUS
  <2> QED
    BY <2>1, WinEntries
<1>3. View' \subseteq Kepts(x) \cup O \cup Stacked(TopSeq(manifest'), pending, Late')
  <2>1. UNCHANGED <<pending, next>>
    OBVIOUS
  <2> QED
    BY <2>1, WinView
<1>4. \A o \in O : \E l \in ch.newLayers : o.id = l.id /\ o.at = l.at
  BY WinOuts
<1>5. /\ ch.oldLayers # {} => /\ ch.newPacks = {} /\ ch.adopts = {} /\ \A o \in ch.newLayers : DOMAIN o.at # {}
      /\ ch.oldLayers = {} /\ ch.newLayers # {} => x \in Maintainers /\ PacksMerged(ch) /\ ChangeSees(x, process[x])
      /\ ch.oldLayers = {} /\ ch.newLayers = {} => ch.newPacks = {}
  BY WinShape
<1>6. /\ \A l \in ch.newLayers : l.id \in Plans /\ l.id < next.id
      /\ \A pk \in ch.newPacks : PackFree(pk.id) /\ \E l \in ch.newLayers : l.id = pk.id
  BY ChangeOf
<1>7. ASSUME NEW c \in ch.adopts PROVE x = Committer(c) /\ c \in named /\ c \in Commits /\ \A k \in Late' : pending[k] # c
  <2>1. PICK d \in Commits : x = Committer(d) /\ ch.adopts = {d} /\ d \in Placed
    BY <1>7, WinShape
  <2>2. d = c
    BY <1>7, <2>1
  <2>3. ProcSees(x, process[x])
    BY DEF RecordInv, Seeing
  <2>4. process[x].pc = "claim" /\ process[x].base.seq = manifest.seq
    BY DEF Matching
  <2>5. c \in named /\ \A k \in Late : pending[k] = c => k \in process[x].listed
    BY <2>1, <2>2, <2>3, <2>4 DEF ProcSees
  <2>6. Late' = Late \ Pick(x)
    BY LandsIs DEF IdInv
  <2> QED
    BY <2>1, <2>2, <2>5, <2>6 DEF Pick, Late
<1>8. ManifestOK(manifest) /\ ManifestOK(manifest')
  BY DEF TypeInv, Types
<1> HIDE DEF O
<1>9. ASSUME ch.oldLayers = {}, NEW o \in O
      PROVE  /\ x \in Maintainers /\ ch.newPacks # {} /\ ~ch.keepSeq /\ ch.newLayers # {}
             /\ \A pk \in ch.newPacks : o.id = pk.id /\ pk.keys = DOMAIN o.at
             /\ \A k \in DOMAIN o.at : o.at[k] = o.id
             /\ o.id \in Plans /\ o.id < next.id /\ PackFree(o.id) /\ DOMAIN o.at # {}
  <2>1. PICK l \in ch.newLayers : o.id = l.id /\ o.at = l.at
    BY <1>4
  <2>2. PacksMerged(ch) /\ ChangeSees(x, process[x]) /\ x \in Maintainers
    BY <1>5, <1>9, <2>1
  <2>3. PICK n \in LayerRec, pk \in PackRec :
           /\ ch.newLayers = {n} /\ ch.newPacks = {pk} /\ pk.id = n.id /\ pk.keys = DOMAIN n.at
           /\ \A k \in DOMAIN n.at : n.at[k] = n.id
    BY <2>2 DEF PacksMerged
  <2>4. ~ch.keepSeq
    BY <2>2 DEF PacksMerged
  <2>5. DOMAIN n.at # {}
    BY <2>2, <2>3, <2>4 DEF ChangeSees
  <2> QED
    BY <1>6, <2>1, <2>2, <2>3, <2>4, <2>5
<1>10. \A c \in named' : \A k \in KeysOf[c] : \E l \in View' : k \in DOMAIN l.at
  BY <1>1, <1>2 DEF Held
<1>11. ASSUME NEW l \in View' PROVE DOMAIN l.at # {} /\ \A k \in DOMAIN l.at : l.at[k] < next'.id
  <2>1. CASE ch.oldLayers # {}
    <3>1. Taken(View, View', {})
      BY <1>2, <2>1
    <3>2. \A k \in DOMAIN l.at : \E v \in View : k \in DOMAIN v.at /\ v.at[k] = l.at[k]
      BY <3>1 DEF Taken
    <3>3. DOMAIN l.at # {}
      <4>1. CASE l \in O
        BY <1>4, <1>5, <2>1, <4>1
      <4>2. CASE l \notin O
        <5>1. l \in Kepts(x) \cup Stacked(TopSeq(manifest'), pending, Late')
          BY <1>3, <4>2
        <5>2. l \in Kepts(x) => l \in View
          <6>1. \A tl : tl = WinTop(x) => View = Target(x).layers \cup Stacked(tl, pending, Late')
            <7>1. UNCHANGED <<pending, next>>
              OBVIOUS
            <7> QED
              BY <7>1, WinView
          <6>2. Kepts(x) = {j \in Target(x).layers : j.id \notin ch.oldLayers}
            BY WinOuts
          <6> QED
            BY <6>1, <6>2
        <5>3. l \in Stacked(TopSeq(manifest'), pending, Late') => DOMAIN l.at # {}
          <6>1. IsFiniteSet(Late \ Pick(x)) /\ Late \subseteq Nat /\ \A j \in Late : pending[j] \in Commits
            BY PickOrder, ViewIs DEF ViewList
          <6>2. Late' = Late \ Pick(x)
            BY LandsIs DEF IdInv
          <6>3. TopSeq(manifest') \in Nat
            BY <1>8, TopOf DEF ManifestOK, ManifestRec
          <6>4. IsFiniteSet(Late') /\ Late' \subseteq Nat /\ \A j \in Late' : pending[j] \in Commits
            BY <6>1, <6>2
          <6>5. ASSUME l \in Stacked(TopSeq(manifest'), pending, Late') PROVE \E j \in Late' : DOMAIN l.at = KeysOf[pending[j]]
            BY <6>3, <6>4, <6>5, StackedIs
          <6>6. \A c \in Commits : KeysOf[c] # {}
            BY KeyedLayoutConstants DEF Commits
          <6> QED
            BY <6>4, <6>5, <6>6
        <5> QED
          BY <1>1, <5>1, <5>2, <5>3
      <4> QED
        BY <4>1, <4>2
    <3> QED
      BY <1>1, <3>2, <3>3
  <2>2. CASE ch.oldLayers = {} /\ l \in O
    <3>1. DOMAIN l.at # {} /\ l.id < next.id /\ \A k \in DOMAIN l.at : l.at[k] = l.id
      BY <1>9, <2>2
    <3> QED
      BY <3>1
  <2>3. CASE ch.oldLayers = {} /\ l \notin O
    <3>1. PICK v \in View : v.at = l.at
      <4>1. \A tl, tn : tl = WinTop(x) /\ tn = TopSeq(manifest') => Tops(View, View', O, tl, tn)
        <5>1. UNCHANGED <<pending, next>>
          OBVIOUS
        <5> QED
          BY <2>3, <5>1, WinTops DEF O
      <4>2. Tops(View, View', O, WinTop(x), TopSeq(manifest'))
        BY <4>1
      <4> QED
        BY <2>3, <4>2 DEF Tops, Lands, Was
    <3> QED
      BY <1>1, <3>1
  <2> QED
    BY <2>1, <2>2, <2>3
<1>12. manifest'.packs = {p \in Target(x).packs : p.id \notin ch.oldPacks} \cup {p \in ch.newPacks : ~Final(p)}
                         \cup {CommitPack(c) : c \in ch.adopts}
  BY ClaimedIs DEF Target
<1>13. Target(x).packs \subseteq manifest.packs \cup {CommitPack(c) : c \in Commits}
  <2>1. /\ Target(x).packs = manifest.packs \cup NewPacks(pending, Unfolded(manifest, process[x].listed))
    BY ClaimView DEF Target
  <2>2. \A k \in Unfolded(manifest, process[x].listed) : pending[k] \in Commits
    BY ListedKeys
  <2> QED
    BY <2>1, <2>2 DEF NewPacks
<1>14. ASSUME NEW pk \in manifest.packs \cup {CommitPack(c) : c \in Commits}
       PROVE  pk.keys # {} /\ \A l \in View' : \A k \in DOMAIN l.at : l.at[k] = pk.id => k \in pk.keys
  <2> SUFFICES ASSUME NEW l \in View', NEW k \in DOMAIN l.at, l.at[k] = pk.id PROVE k \in pk.keys
    BY <1>1
  <2>1. ASSUME \E v \in View : k \in DOMAIN v.at /\ v.at[k] = l.at[k] PROVE k \in pk.keys
    BY <1>1, <2>1
  <2>2. CASE ch.oldLayers # {}
    BY <1>2, <2>1, <2>2 DEF Taken
  <2>3. CASE l \notin O
    BY <1>2, <2>1, <2>3 DEF Taken
  <2>4. CASE ch.oldLayers = {} /\ l \in O
    <3>1. l.id = pk.id /\ l.id \in Plans /\ PackFree(l.id)
      BY <1>9, <2>4
    <3>2. pk \notin manifest.packs
      BY <3>1 DEF PackFree, PackIds
    <3>3. PICK c \in Commits : pk = CommitPack(c)
      BY <3>2
    <3>4. pk.id \in Commits
      BY <3>3, CommitFiles
    <3> QED
      BY <3>1, <3>4, Constants
  <2> QED
    BY <2>2, <2>3, <2>4
<1>15. ASSUME NEW pk \in ch.newPacks
       PROVE  pk.keys # {} /\ \A l \in View' : \A k \in DOMAIN l.at : l.at[k] = pk.id => k \in pk.keys
  <2>1. ch.oldLayers = {} /\ ch.newLayers # {}
    BY <1>5, <1>15
  <2>2. PICK l0 \in ch.newLayers : TRUE
    BY <2>1
  <2>3. PICK o \in O : o.id = l0.id
    <3>1. \A l \in ch.newLayers : \E o \in Outs(x) : o.id = l.id
      BY WinOuts
    <3> QED
      BY <3>1 DEF O
  <2>4. pk.keys = DOMAIN o.at /\ DOMAIN o.at # {}
    BY <1>9, <2>1, <2>3
  <2> SUFFICES ASSUME NEW l \in View', NEW k \in DOMAIN l.at, l.at[k] = pk.id PROVE k \in pk.keys
    BY <2>4
  <2>5. CASE l \in O
    BY <1>9, <2>1, <2>5
  <2>6. CASE l \notin O
    <3>1. \E v \in View : k \in DOMAIN v.at /\ v.at[k] = pk.id
      BY <1>2, <2>6 DEF Taken
    <3>2. ChangeSees(x, process[x]) /\ x \in Maintainers
      BY <1>5, <2>1
    <3>3. ~Entered(pk.id)
      BY <1>15, <3>2 DEF ChangeSees
    <3> QED
      BY <3>1, <3>3 DEF Entered
  <2> QED
    BY <2>5, <2>6
<1>16. ASSUME NEW pk \in manifest'.packs \cup {CommitPack(c) : c \in Commits}
       PROVE  pk.keys # {} /\ \A l \in View' : \A k \in DOMAIN l.at : l.at[k] = pk.id => k \in pk.keys
  <2>1. \A c \in ch.adopts : c \in Commits
    BY <1>7
  <2>2. pk \in manifest.packs \cup {CommitPack(c) : c \in Commits} \/ pk \in ch.newPacks
    BY <1>12, <1>13, <2>1
  <2> QED
    BY <1>14, <1>15, <2>2
<1>17. manifest'.adopted = manifest.adopted \cup ch.adopts /\ Late' \subseteq Late
  <2>1. /\ Target(x).adopted = manifest.adopted /\ manifest'.adopted = Target(x).adopted \cup ch.adopts
    BY ClaimView, ClaimedIs DEF Target
  <2>2. Late' = Late \ Pick(x)
    BY LandsIs DEF IdInv
  <2> QED
    BY <2>1, <2>2
<1>18. \A c \in Commits \ named' : Pack(c) \in files' /\ c \notin manifest'.adopted
  BY <1>1, <1>7, <1>17
<1>19. \A k \in Late' : pending'[k] \notin manifest'.adopted
  BY <1>1, <1>7, <1>17
<1>20. Replaced(View, Lost)'
  BY <1>2 DEF Replaced, Newer
<1> QED
  BY <1>10, <1>11, <1>16, <1>18, <1>19, <1>20 DEF Records

LEMMA WinRecorded ==
  ASSUME TypeInv, TypeInv', IdInv, IdInv', RecordInv, OneMaintainer, NEW x \in Processes, Matching(x),
         manifest' = Claimed(x), Goto(x, "clear"), UNCHANGED <<pending, files, plans, queue, lease, named, next>>
  PROVE  RecordInv'
<1> DEFINE ch == process[x].change
           A == ch.oldLayers
           O == Outs(x)
           r == [process[x] EXCEPT !.pc = "clear"]
           tl == WinTop(x)
           tn == TopSeq(manifest')
<1>1. process' = [process EXCEPT ![x] = r] /\ r.pc = "clear"
  <2>1. "clear" \in Steps
    BY DEF Steps
  <2> QED
    BY <2>1, GotoIs
<1>2. /\ \A id : Seen(id) => Seen(id)' /\ (id \in Visible' => id \in Visible)
      /\ \A id \in A : id \notin Visible'
  BY WinNames
<1>3. UNCHANGED <<pending, next>>
  OBVIOUS
<1>4. plans' = plans /\ files' = files /\ named' = named
  OBVIOUS
<1> HIDE DEF r
<1>5. r.pc \notin {"update", "claim"}
  BY <1>1
<1>6. \A v \in View : v.seq > tl => \E k \in Late' : v.id = pending[k]
  <2>1. CASE A # {}
    <3>1. \E t : Merges(View, View', A, t, O, tl, tn)
      BY <1>3, <2>1, WinMerges
    <3>2. Lands(View, View', A, O, tl, tn)
      BY <3>1 DEF Merges
    <3> HIDE DEF A, O, tl, tn
    <3>3. tl <= tn + 1 /\ tn <= tl + 1
      BY <3>2 DEF Lands
    <3> QED
      BY <1>3, <3>3, WinLands DEF tl, tn
  <2>2. CASE A = {}
    <3>1. Tops(View, View', O, tl, tn)
      BY <1>3, <2>2, WinTops
    <3> HIDE DEF A, O, tl, tn
    <3>2. tl <= tn + 1 /\ tn <= tl + 1
      BY <3>1 DEF Tops, Lands
    <3> QED
      BY <1>3, <3>2, WinLands DEF tl, tn
  <2> QED
    BY <2>1, <2>2
<1>7. ASSUME NEW B, NEW s, Merging(B, s), NEW j \in Inputs(View, B), j.seq > tl
      PROVE  Exact(View, B, s) /\ x \notin Maintainers
  <2>1. PICK k \in Late' : j.id = pending[k]
    BY <1>6, <1>7 DEF Inputs
  <2>2. k \in Late \ process[x].listed
    <3>1. Late' = Late \ Pick(x)
      BY LandsIs DEF IdInv
    <3> QED
      BY <2>1, <3>1 DEF Pick, Late
  <2>3. pending[k] \in B
    BY <1>7, <2>1 DEF Inputs
  <2>4. Listed(x)
    BY DEF RecordInv, Seeing
  <2> QED
    BY <1>7, <2>2, <2>3, <2>4 DEF Listed
<1>8. Moves(A, O, tl, tn)
  <2>1. Lands(View, View', A, O, tl, tn)
    <3>1. CASE A # {}
      <4>1. \E t : Merges(View, View', A, t, O, tl, tn)
        BY <1>3, <3>1, WinMerges
      <4> QED
        BY <4>1 DEF Merges
    <3>2. CASE A = {}
      <4>1. Tops(View, View', O, tl, tn)
        BY <1>3, <3>2, WinTops
      <4> QED
        BY <3>2, <4>1 DEF Tops
    <3> QED
      BY <3>1, <3>2
  <2> HIDE DEF A, O, tl, tn
  <2> QED
    BY <1>2, <1>4, <2>1 DEF Moves
<1>9. Ordering'
  <2>1. CASE A # {}
    <3>1. PICK t : /\ Merging(A, t) /\ Merges(View, View', A, t, O, tl, tn)
                   /\ \A o, p \in O : o.run = p.run /\ o.nth = p.nth
      BY <1>3, <2>1, WinMerges
    <3> HIDE DEF A, O, tl, tn
    <3>2. \A B, s : Merging(B, s) => \A j \in Inputs(View, B) : j.seq > tl => Exact(View, B, s)
      BY <1>7
    <3> QED
      BY <1>1, <1>5, <1>8, <3>1, <3>2, MergesOrder, ZenonT(60)
  <2>2. CASE A = {}
    <3>1. Tops(View, View', O, tl, tn)
      BY <1>3, <2>2, WinTops
    <3>2. O # {} => x \in Maintainers
      <4>1. ch.oldLayers = {} /\ ch.newLayers # {} => x \in Maintainers
        BY WinShape
      <4> QED
        BY <2>2, <4>1 DEF Outs
    <3> HIDE DEF A, O, tl, tn
    <3>3. \A B, s : Merging(B, s) => \A j \in Inputs(View, B) : j.seq > tl => Exact(View, B, s) /\ O = {}
      BY <1>7, <3>2
    <3>4. Moves({}, O, tl, tn)
      BY <1>8, <2>2
    <3> QED
      BY <1>1, <1>5, <3>1, <3>3, <3>4, TopsOrder
  <2> QED
    BY <2>1, <2>2
<1>10. manifest'.seq = manifest.seq + 1 /\ manifest.seq \in Nat
  <2>1. ManifestOK(manifest)
    BY DEF TypeInv, Types
  <2> QED
    BY <2>1, ClaimedIs DEF ManifestOK, ManifestRec
<1>11. ASSUME NEW y \in Processes \ {x} PROVE process'[y] = process[y] /\ process[y].base.seq # manifest'.seq
  <2>1. process'[y] = process[y]
    BY <1>1 DEF TypeInv, Types
  <2>2. process[y].base.seq <= manifest.seq
    BY DEF TypeInv, KeyFacts
  <2>3. process[y].base.seq \in Nat
    BY ProcessTyped DEF ProcRec, ManifestRec
  <2> QED
    BY <1>10, <2>1, <2>2, <2>3
<1>12. /\ \A p \in Plans : PlanSees(plans[p])'
       /\ \A y \in Processes : ProcSees(y, process[y])'
  <2>1. \A y \in Maintainers \ {x} : \A l \in View' : \A k \in DOMAIN l.at :
              l.at[k] \in Commits \ named \/ \E v \in View : k \in DOMAIN v.at /\ v.at[k] = l.at[k]
    <3> SUFFICES ASSUME NEW y \in Maintainers \ {x}
                 PROVE  \A l \in View' : \A k \in DOMAIN l.at : \E v \in View : k \in DOMAIN v.at /\ v.at[k] = l.at[k]
      OBVIOUS
    <3>1. x \notin Maintainers
      BY DEF OneMaintainer
    <3>2. A # {} \/ O = {}
      <4>1. ch.oldLayers = {} /\ ch.newLayers # {} => x \in Maintainers
        BY WinShape
      <4> QED
        BY <3>1, <4>1 DEF Outs
    <3>3. UNCHANGED <<pending, files, next>>
      OBVIOUS
    <3>4. Taken(View, View', {})
      BY <3>2, <3>3, WinEntries
    <3> QED
      BY <3>4 DEF Taken
  <2>2. \A c \in Commits : x = Committer(c) /\ r.pc \in {"save", "clear"} => c \in named'
    <3>1. ProcSees(x, process[x]) /\ process[x].pc = "claim"
      BY DEF RecordInv, Seeing, Matching
    <3> QED
      BY <1>4, <3>1 DEF ProcSees
  <2>3. named \subseteq named'
    BY <1>4
  <2>4. \A c \in Commits, y \in Processes \ {x} : y = Committer(c) /\ process[y].pc = "claim" /\ process[y].base.seq = manifest'.seq =>
              \A k \in Late' : pending'[k] = c => k \in process[y].listed
    BY <1>11
  <2> HIDE DEF A, O, tl, tn
  <2> QED
    BY <1>1, <1>4, <1>5, <1>8, <2>1, <2>2, <2>3, <2>4, MovedSeen
<1>13. \A y \in Processes : Listed(y)'
  <2> SUFFICES ASSUME NEW y \in Processes PROVE ~Matching(y)'
    BY DEF Listed
  <2>1. CASE y = x
    <3>1. process'[y].pc = "clear"
      BY <1>1, <2>1 DEF TypeInv, Types
    <3> QED
      BY <3>1 DEF Matching
  <2>2. CASE y # x
    BY <1>11, <2>2 DEF Matching
  <2> QED
    BY <2>1, <2>2
<1>14. Records'
  <2>1. UNCHANGED <<pending, files, named, next>>
    OBVIOUS
  <2> QED
    BY <2>1, WinKeeps
<1> QED
  BY <1>9, <1>12, <1>13, <1>14 DEF RecordInv, Seeing

LEMMA ClaimNumberRecorded ==
  ASSUME TypeInv, TypeInv', IdInv, IdInv', RecordInv, OneMaintainer, NEW x \in Processes, ClaimNumber(x)
  PROVE  RecordInv'
<1>1. CASE manifest.seq = process[x].base.seq
  <2>1. /\ Matching(x) /\ manifest' = Claimed(x) /\ Goto(x, "clear")
        /\ UNCHANGED <<pending, files, plans, queue, lease, named, next>>
    BY <1>1, WinIs
  <2> QED
    BY <2>1, WinRecorded
<1> QED
  BY <1>1, RetryRecorded

\* The repository begins empty.
LEMMA InitRecorded ==
  ASSUME Init
  PROVE  RecordInv
<1>1. TypeInv /\ IdInv
  BY InitType, InitIds
<1>2. /\ manifest = EmptyManifest /\ DOMAIN pending = {} /\ files = {Layer(c) : c \in Commits} \cup {Pack(c) : c \in Commits}
      /\ plans = [p \in Plans |-> NoPlan] /\ named = {}
  BY DEF Init
<1>3. /\ manifest.layers = {} /\ manifest.packs = {} /\ manifest.adopted = {} /\ manifest.retired = {} /\ Late = {}
  BY <1>2 DEF EmptyManifest, Late
<1>4. View = {}
  <2>1. View = manifest.layers \cup Stacked(TopSeq(manifest), pending, Late)
    BY <1>1, ViewIs DEF ViewList
  <2> QED
    BY <1>3, <2>1 DEF Stacked
<1>5. \A x \in Processes : process[x].pc \in {"append", "idle"}
  BY DEF Init, Idle, At
<1>6. \A p \in Plans : ~LivePlan(plans[p])
  BY <1>2 DEF LivePlan, NoPlan
<1>7. \A x \in Processes : ~Changing(process[x]) /\ ~Matching(x)
  BY <1>5 DEF Changing, Matching
<1>8. \A B, s : ~Merging(B, s)
  BY <1>6, <1>7, Disjoint DEF Merging
<1>9. Ordering
  BY <1>4, <1>8 DEF Ordering, Places
<1>10. \A c \in Commits : KeysOf[c] # {} /\ CommitPack(c).keys = KeysOf[c]
  BY KeyedLayoutConstants, CommitFiles DEF Commits
<1>11. Records
  BY <1>2, <1>3, <1>4, <1>10 DEF Records, Replaced
<1>12. Seeing
  <2>1. \A p \in Plans : PlanSees(plans[p])
    BY <1>6 DEF PlanSees
  <2>2. \A x \in Processes : ProcSees(x, process[x])
    BY <1>5, <1>7 DEF ProcSees
  <2> QED
    BY <1>7, <2>1, <2>2 DEF Seeing, Listed
<1> QED
  BY <1>9, <1>11, <1>12 DEF RecordInv

\* The step of the induction.
LEMMA RecordStep ==
  ASSUME TypeInv, IdInv, RecordInv, [Next]_vars, OneMaintainer, ~TornReads, ~LateKeys
  PROVE  RecordInv'
<1>1. TypeInv' /\ IdInv'
  BY TypeStep, IdStep
<1>2. ASSUME NEW x \in Processes, Change(x) PROVE RecordInv'
  BY <1>1, <1>2, ReadNewestRecorded, ClaimNumberRecorded, ClearPendingRecorded DEF Change
<1>3. ASSUME NEW c \in Commits, Commit(c) PROVE RecordInv'
  BY <1>1, <1>3, CommitStepRecorded, AppendRunsRecorded DEF Commit
<1>4. ASSUME NEW w \in Maintainers, Maintain(w) PROVE RecordInv'
  BY <1>1, <1>4, MaintainPlainRecorded, MergeLayersRecorded, SplitMergeRecorded, MergePacksRecorded, SweepRecorded
    DEF Maintain
<1>5. ASSUME NEW g \in Mergers, Merge(g) PROVE RecordInv'
  BY <1>1, <1>5, MergeJobRecorded, MergeRangeRecorded, ClaimSwapRecorded, MergeSwapRecorded DEF Merge
<1>6. ASSUME NEW x \in Maintainers \cup Mergers, ListMerge(x) \/ DropMerge(x) PROVE RecordInv'
  BY <1>1, <1>6, ListMergeRecorded, DropMergeRecorded DEF Workers
<1>7. ASSUME NEW m \in queue, LoseMessage(m) PROVE RecordInv'
  BY <1>1, <1>7, LoseMessageRecorded
<1>8. ASSUME NEW p \in Plans, Age(p) PROVE RecordInv'
  BY <1>1, <1>8, AgeRecorded
<1>9. ASSUME UNCHANGED vars PROVE RecordInv'
  <2>1. UNCHANGED <<manifest, pending, files, process, named, next>> /\ plans' = plans
    BY <1>9 DEF vars
  <2> QED
    BY <1>1, <2>1, OldRecorded
<1> QED
  BY <1>2, <1>3, <1>4, <1>5, <1>6, <1>7, <1>8, <1>9 DEF Next

\* The invariant implies the property: the newest entry of a record names a pack that is there.
LEMMA RecordsView ==
  ASSUME TypeInv, IdInv, Stored, RecordInv
  PROVE  NothingLost
<1>1. LayersStored
  BY StoredView
<1>2. ASSUME NEW c \in named, NEW k \in KeysOf[c]
      PROVE  /\ \E l \in View : k \in DOMAIN l.at
             /\ Pack(NewestWith(View, k).at[k]) \in files
  <2>1. \E l \in View : k \in DOMAIN l.at
    BY <1>2 DEF RecordInv, Records
  <2>2. Sorted(View) /\ Bounded(View)
    BY ViewIs DEF ViewList
  <2> DEFINE l == NewestWith(View, k)
  <2>3. l \in View /\ k \in DOMAIN l.at /\ \A j \in View : k \in DOMAIN j.at => j = l \/ Newer(l, j)
    BY <2>1, <2>2, NewestIs
  <2> HIDE DEF l
  <2>4. Replaced(View, Lost)
    BY DEF RecordInv, Records
  <2>5. \A j \in View : j.seq \in Nat /\ j.nth \in Nat
    BY InView
  <2>6. l.at[k] \notin Lost
    <3> SUFFICES ASSUME l.at[k] \in Lost PROVE FALSE
      OBVIOUS
    <3>1. PICK j \in View : k \in DOMAIN j.at /\ Newer(j, l)
      BY <2>3, <2>4 DEF Replaced
    <3> QED
      BY <2>3, <2>5, <3>1 DEF Newer
  <2>7. l.at[k] \in Ids
    BY <2>3, InView
  <2> QED
    BY <2>1, <2>6, <2>7 DEF Lost, l
<1> QED
  BY <1>1, <1>2 DEF NothingLost, View

-----------------------------------------------------------------------------
(* The theorem.                                                            *)

\* Nothing is lost, whatever commits, maintainers, split merges and their repeated jobs do, and
\* for any commits, records, ranges, workers and limits: a record that a commit named is in the
\* newest manifest with the pending objects folded in, and its newest entry there names a pack that
\* is stored (keyed.ts).  The lease keeps other maintainers out (OneMaintainer).  The three schedules
\* are ruled out in which the code does lose a record or a layer: a change between a retried
\* appendRuns' two reads, a split merge's job that looks for its inputs once its run is swapped in,
\* and a pending object that lands behind one with a later key.
THEOREM RecordsKept == ~TornReads /\ ~LateRepeats /\ ~LateKeys /\ OneMaintainer /\ Spec => []NothingLost
<1> SUFFICES ASSUME ~TornReads, ~LateRepeats, ~LateKeys, OneMaintainer PROVE Spec => []NothingLost
  OBVIOUS
<1>1. Init => TypeInv /\ IdInv /\ Stored /\ RecordInv
  BY InitType, InitIds, InitStored, InitRecorded
<1>2. TypeInv /\ IdInv /\ Stored /\ RecordInv /\ [Next]_vars => TypeInv' /\ IdInv' /\ Stored' /\ RecordInv'
  BY TypeStep, IdStep, StoredKept, RecordStep
<1>3. TypeInv /\ IdInv /\ Stored /\ RecordInv => NothingLost
  BY RecordsView
<1> QED
  BY <1>1, <1>2, <1>3, PTL DEF Spec
===============================================================================
