------------------------ MODULE SemanticEngine_proofs -------------------------
(***************************************************************************)
(* SemanticEngine for every number of notes, engines and embedders.         *)
(***************************************************************************)
EXTENDS MCSemanticEngine, FiniteSetTheorems, SequenceTheorems, WellFoundedInduction, TLAPS

------------------------------------------------------------------------------
(* Induction, and the sequences the model is built of *)

(* What holds of 0 and passes on to the next number holds of all: there would
   be a least one it does not hold of.                                       *)
LEMMA Induction ==
  ASSUME NEW S, 0 \in S, \A n \in Nat : n \in S => n + 1 \in S
  PROVE  Nat \subseteq S
<1> DEFINE Less == {ss \in Nat \X Nat : ss[1] < ss[2]}
           Rest == Nat \ S
<1> SUFFICES ASSUME Rest # {} PROVE FALSE OBVIOUS
<1>1. IsWellFoundedOn(Less, Nat)
  BY NatLessThanWellFounded DEF OpToRel
<1>2. PICK x \in Rest : \A y \in Rest : ~(<<y, x>> \in Less)
  <2> HIDE DEF Less, Rest
  <2>1. Rest \subseteq Nat BY DEF Rest
  <2>2. QED BY <1>1, <2>1, WFMin
<1>3. x \in Nat /\ x # 0 BY <1>2
<1>4. x - 1 \in Nat /\ (x - 1) + 1 = x BY <1>3
<1>5. <<x - 1, x>> \in Less BY <1>3, <1>4
<1>6. x - 1 \in S BY <1>2, <1>4, <1>5
<1>7. QED BY <1>2, <1>4, <1>6

(* Max picks one of the numbers it is given. *)
LEMMA MaxIsOneOf ==
  ASSUME NEW n \in Nat, NEW T \in SUBSET (0 .. n), T # {}
  PROVE  Max(T) \in T
<1> DEFINE Good(k) == \A R \in SUBSET (0 .. k) : R # {} => \E x \in R : \A y \in R : x >= y
           G == {k \in Nat : Good(k)}
<1>1. 0 \in G
  <2>1. \A R \in SUBSET (0 .. 0) : R # {} => R = {0}
    <3>1. 0 .. 0 = {0} OBVIOUS
    <3>2. QED BY <3>1
  <2>2. \A R \in SUBSET (0 .. 0) : R # {} => 0 \in R /\ \A y \in R : 0 >= y BY <2>1
  <2>3. QED BY <2>2
<1>2. \A k \in Nat : k \in G => k + 1 \in G
  <2> SUFFICES ASSUME NEW k \in Nat, Good(k), NEW R \in SUBSET (0 .. k + 1), R # {}
               PROVE  \E x \in R : \A y \in R : x >= y
    OBVIOUS
  <2>1. CASE k + 1 \in R BY <2>1
  <2>2. CASE k + 1 \notin R
    <3>1. R \in SUBSET (0 .. k) BY <2>2
    <3>2. QED BY <3>1
  <2>3. QED BY <2>1, <2>2
<1>3. Nat \subseteq G
  <2> HIDE DEF G
  <2>1. QED BY <1>1, <1>2, Induction
<1>4. Good(n) BY <1>3
<1>5. \E x \in T : \A y \in T : x >= y BY <1>4
<1>6. QED BY <1>5 DEF Max

LEMMA FunctionIsSeq ==
  ASSUME NEW S, NEW n \in Nat, NEW f \in [1 .. n -> S]
  PROVE  f \in Seq(S) /\ Len(f) = n /\ DOMAIN f = 1 .. n
OBVIOUS

(* The prefixes of a flattened sequence: the function FlattenSeq defines exists. *)
LEMMA FlattenExists ==
  ASSUME NEW S, NEW seqs \in Seq(Seq(S)), Len(seqs) # 0
  PROVE  \E f \in [1 .. Len(seqs) -> Seq(S)] :
           /\ FlattenSeq(seqs) = f[Len(seqs)]
           /\ f = [i \in 1 .. Len(seqs) |-> IF i = 1 THEN seqs[i] ELSE f[i - 1] \o seqs[i]]
<1> DEFINE N == Len(seqs)
           Good(f, n) == \A i \in 1 .. n : f[i] = IF i = 1 THEN seqs[i] ELSE f[i - 1] \o seqs[i]
           P(n) == \E f \in [1 .. n -> Seq(S)] : Good(f, n)
           G == {n \in Nat : n <= N => P(n)}
<1>1. P(0)
  <2>1. [i \in 1 .. 0 |-> <<>>] \in [1 .. 0 -> Seq(S)] OBVIOUS
  <2>2. Good([i \in 1 .. 0 |-> <<>>], 0) OBVIOUS
  <2> HIDE DEF Good
  <2>3. QED BY <2>1, <2>2
<1>2. ASSUME NEW n \in Nat, P(n), n + 1 <= N PROVE P(n + 1)
  <2>1. PICK g \in [1 .. n -> Seq(S)] : Good(g, n) BY <1>2
  <2> DEFINE h == [i \in 1 .. n + 1 |->
                     IF i <= n THEN g[i]
                     ELSE IF n = 0 THEN seqs[n + 1] ELSE g[n] \o seqs[n + 1]]
  <2>2. seqs[n + 1] \in Seq(S) BY <1>2
  <2>3. n # 0 => g[n] \in Seq(S) OBVIOUS
  <2>4. h \in [1 .. n + 1 -> Seq(S)] BY <2>2, <2>3
  <2>5. Good(h, n + 1)
    <3> SUFFICES ASSUME NEW i \in 1 .. n + 1
                 PROVE  h[i] = IF i = 1 THEN seqs[i] ELSE h[i - 1] \o seqs[i]
      OBVIOUS
    <3>1. CASE i <= n
      <4>1. i \in 1 .. n BY <3>1
      <4>2. g[i] = IF i = 1 THEN seqs[i] ELSE g[i - 1] \o seqs[i] BY <2>1, <4>1
      <4>3. i # 1 => i - 1 \in 1 .. n BY <4>1
      <4>4. i # 1 => h[i - 1] = g[i - 1] BY <4>3
      <4>5. h[i] = g[i] BY <3>1
      <4> HIDE DEF h
      <4>6. QED BY <4>2, <4>4, <4>5
    <3>2. CASE i = n + 1
      <4>1. n # 0 => n \in 1 .. n + 1 /\ (n + 1) - 1 = n /\ n <= n /\ n + 1 # 1 OBVIOUS
      <4>2. ~(n + 1 <= n) OBVIOUS
      <4>3. QED BY <3>2, <4>1, <4>2
    <3>3. QED BY <3>1, <3>2
  <2>6. QED
    <3> HIDE DEF Good, h
    <3>1. QED BY <2>4, <2>5
<1>3. P(N)
  <2> HIDE DEF P
  <2>1. 0 \in G BY <1>1
  <2>2. \A n \in Nat : n \in G => n + 1 \in G BY <1>2
  <2>3. Nat \subseteq G
    <3> HIDE DEF G
    <3>1. QED BY <2>1, <2>2, Induction
  <2>4. N \in Nat /\ N <= N OBVIOUS
  <2>5. QED BY <2>3, <2>4
<1>4. PICK f \in [1 .. N -> Seq(S)] : Good(f, N) BY <1>3
<1>5. f = [i \in 1 .. N |-> IF i = 1 THEN seqs[i] ELSE f[i - 1] \o seqs[i]] BY <1>4
<1> DEFINE F == CHOOSE g : g = [i \in 1 .. N |-> IF i = 1 THEN seqs[i] ELSE g[i - 1] \o seqs[i]]
<1>6. F = [i \in 1 .. N |-> IF i = 1 THEN seqs[i] ELSE F[i - 1] \o seqs[i]] BY <1>5
<1>7. FlattenSeq(seqs) = F[N] BY DEF FlattenSeq
<1> HIDE DEF F
<1> DEFINE H == {n \in Nat : n + 1 <= N => F[n + 1] \in Seq(S)}
<1>8. 0 \in H
  <2>1. F[1] = seqs[1] BY <1>6
  <2>2. QED BY <2>1
<1>9. \A n \in Nat : n \in H => n + 1 \in H
  <2> SUFFICES ASSUME NEW n \in Nat, n \in H, (n + 1) + 1 <= N PROVE F[(n + 1) + 1] \in Seq(S)
    OBVIOUS
  <2>1. F[n + 1] \in Seq(S) OBVIOUS
  <2>2. (n + 1) + 1 \in 1 .. N /\ (n + 1) + 1 # 1 /\ ((n + 1) + 1) - 1 = n + 1 OBVIOUS
  <2>3. F[(n + 1) + 1] = F[n + 1] \o seqs[(n + 1) + 1] BY <1>6, <2>2
  <2>4. seqs[(n + 1) + 1] \in Seq(S) BY <2>2
  <2>5. QED BY <2>1, <2>3, <2>4
<1>10. Nat \subseteq H
  <2> HIDE DEF H
  <2>1. QED BY <1>8, <1>9, Induction
<1>11. \A i \in 1 .. N : F[i] \in Seq(S)
  <2> SUFFICES ASSUME NEW i \in 1 .. N PROVE F[i] \in Seq(S) OBVIOUS
  <2>1. i - 1 \in Nat /\ (i - 1) + 1 = i OBVIOUS
  <2>2. i - 1 \in H BY <2>1, <1>10
  <2>3. QED BY <2>1, <2>2
<1>12. F \in [1 .. N -> Seq(S)] BY <1>6, <1>11
<1>13. WITNESS F \in [1 .. N -> Seq(S)]
<1>14. QED BY <1>6, <1>7

(* Element k of the flattened sequence s is number v[k] of part w[k] of the first n
   parts: part after part, and all of each.                                        *)
Comes(s, seqs, n, w, v) ==
  /\ \A k \in DOMAIN s :
       /\ w[k] \in 1 .. n /\ v[k] \in DOMAIN seqs[w[k]]
       /\ s[k] = seqs[w[k]][v[k]]
  /\ \A k, l \in DOMAIN s : k < l => w[k] < w[l] \/ (w[k] = w[l] /\ v[k] < v[l])
  /\ \A i \in 1 .. n : \A x \in DOMAIN seqs[i] : \E k \in DOMAIN s : w[k] = i /\ v[k] = x

LEMMA Flattened ==
  ASSUME NEW S, NEW seqs \in Seq(Seq(S))
  PROVE  /\ FlattenSeq(seqs) \in Seq(S)
         /\ \E w \in [DOMAIN FlattenSeq(seqs) -> Nat], v \in [DOMAIN FlattenSeq(seqs) -> Nat] :
              Comes(FlattenSeq(seqs), seqs, Len(seqs), w, v)
<1>1. CASE Len(seqs) = 0
  <2>1. FlattenSeq(seqs) = <<>> BY <1>1 DEF FlattenSeq
  <2> DEFINE none == [k \in {} |-> 0]
  <2>2. none \in [DOMAIN FlattenSeq(seqs) -> Nat] BY <2>1
  <2>3. Comes(FlattenSeq(seqs), seqs, Len(seqs), none, none) BY <1>1, <2>1 DEF Comes
  <2> HIDE DEF none
  <2>4. FlattenSeq(seqs) \in Seq(S) BY <2>1
  <2>5. QED BY <2>2, <2>3, <2>4
<1>2. CASE Len(seqs) # 0
  <2> DEFINE N == Len(seqs)
  <2>1. PICK f \in [1 .. N -> Seq(S)] :
          /\ FlattenSeq(seqs) = f[N]
          /\ f = [i \in 1 .. N |-> IF i = 1 THEN seqs[i] ELSE f[i - 1] \o seqs[i]]
    BY <1>2, FlattenExists
  <2> DEFINE P(n) == \E w \in [DOMAIN f[n] -> Nat], v \in [DOMAIN f[n] -> Nat] :
                       Comes(f[n], seqs, n, w, v)
             G == {n \in Nat : n + 1 <= N => P(n + 1)}
  <2>2. P(1)
    <3>1. f[1] = seqs[1] /\ f[1] \in Seq(S) BY <2>1, <1>2
    <3> DEFINE w == [k \in DOMAIN f[1] |-> 1]
               v == [k \in DOMAIN f[1] |-> k]
    <3>2. w \in [DOMAIN f[1] -> Nat] /\ v \in [DOMAIN f[1] -> Nat] BY <3>1
    <3>3. \A k \in DOMAIN f[1] : w[k] = 1 /\ v[k] = k /\ k \in Nat BY <3>1
    <3>4. Comes(f[1], seqs, 1, w, v)
      <4> HIDE DEF w, v
      <4>1. QED BY <3>1, <3>3 DEF Comes
    <3> HIDE DEF w, v
    <3>5. QED BY <3>2, <3>4
  <2>3. ASSUME NEW n \in 1 .. N, P(n), n + 1 <= N PROVE P(n + 1)
    <3>1. PICK w \in [DOMAIN f[n] -> Nat], v \in [DOMAIN f[n] -> Nat] :
            Comes(f[n], seqs, n, w, v)
      BY <2>3
    <3> DEFINE s == f[n]
               t == seqs[n + 1]
               ww == [k \in DOMAIN (s \o t) |-> IF k <= Len(s) THEN w[k] ELSE n + 1]
               vv == [k \in DOMAIN (s \o t) |-> IF k <= Len(s) THEN v[k] ELSE k - Len(s)]
    <3>2. n + 1 \in 1 .. N /\ n + 1 # 1 /\ (n + 1) - 1 = n BY <2>3
    <3>3. f[n + 1] = s \o t BY <2>1, <3>2
    <3>4. s \in Seq(S) /\ t \in Seq(S)
      <4>1. t \in Seq(S) BY <3>2
      <4>2. QED BY <4>1
    <3>5. /\ DOMAIN (s \o t) = 1 .. Len(s) + Len(t)
          /\ DOMAIN s = 1 .. Len(s) /\ Len(s) \in Nat /\ DOMAIN t = 1 .. Len(t) /\ Len(t) \in Nat
          /\ \A k \in 1 .. Len(s) : (s \o t)[k] = s[k]
          /\ \A k \in 1 .. Len(s) + Len(t) : ~(k <= Len(s)) =>
               (s \o t)[k] = t[k - Len(s)] /\ k - Len(s) \in 1 .. Len(t)
      BY <3>4
    <3>6. /\ ww \in [DOMAIN (s \o t) -> Nat] /\ vv \in [DOMAIN (s \o t) -> Nat]
      <4>1. w \in [1 .. Len(s) -> Nat] /\ v \in [1 .. Len(s) -> Nat] BY <3>5
      <4> HIDE DEF s, t
      <4>2. QED BY <4>1, <3>5
    <3>7. Comes(s, seqs, n, w, v) BY <3>1
    <3>8. /\ \A k \in 1 .. Len(s) : ww[k] = w[k] /\ vv[k] = v[k]
          /\ \A k \in 1 .. Len(s) + Len(t) : ~(k <= Len(s)) => ww[k] = n + 1 /\ vv[k] = k - Len(s)
      <4> HIDE DEF s, t
      <4>1. QED BY <3>5
    <3> HIDE DEF s, ww, vv
    <3>9. \A k \in DOMAIN (s \o t) :
            /\ ww[k] \in 1 .. n + 1 /\ vv[k] \in DOMAIN seqs[ww[k]]
            /\ (s \o t)[k] = seqs[ww[k]][vv[k]]
      <4> SUFFICES ASSUME NEW k \in DOMAIN (s \o t)
                   PROVE  /\ ww[k] \in 1 .. n + 1 /\ vv[k] \in DOMAIN seqs[ww[k]]
                          /\ (s \o t)[k] = seqs[ww[k]][vv[k]]
        OBVIOUS
      <4>1. CASE k <= Len(s)
        <5>1. k \in 1 .. Len(s) BY <3>5, <4>1
        <5>2. w[k] \in 1 .. n /\ v[k] \in DOMAIN seqs[w[k]] /\ s[k] = seqs[w[k]][v[k]]
          BY <3>5, <3>7, <5>1 DEF Comes
        <5>3. ww[k] = w[k] /\ vv[k] = v[k] /\ (s \o t)[k] = s[k] BY <3>5, <3>8, <5>1
        <5>4. QED BY <5>2, <5>3
      <4>2. CASE ~(k <= Len(s))
        <5>1. (s \o t)[k] = t[k - Len(s)] /\ k - Len(s) \in 1 .. Len(t) BY <3>5, <4>2
        <5>2. ww[k] = n + 1 /\ vv[k] = k - Len(s) BY <3>5, <3>8, <4>2
        <5>3. QED BY <5>1, <5>2, <3>5
      <4>3. QED BY <4>1, <4>2
    <3>10. \A k, l \in DOMAIN (s \o t) :
             k < l => ww[k] < ww[l] \/ (ww[k] = ww[l] /\ vv[k] < vv[l])
      <4> SUFFICES ASSUME NEW k \in DOMAIN (s \o t), NEW l \in DOMAIN (s \o t), k < l
                   PROVE  ww[k] < ww[l] \/ (ww[k] = ww[l] /\ vv[k] < vv[l])
        OBVIOUS
      <4>1. CASE l <= Len(s)
        <5>1. k \in 1 .. Len(s) /\ l \in 1 .. Len(s) BY <3>5, <4>1
        <5>2. w[k] < w[l] \/ (w[k] = w[l] /\ v[k] < v[l]) BY <3>5, <3>7, <5>1 DEF Comes
        <5>3. QED BY <3>8, <5>1, <5>2
      <4>2. CASE k <= Len(s) /\ ~(l <= Len(s))
        <5>1. k \in 1 .. Len(s) BY <3>5, <4>2
        <5>2. w[k] \in 1 .. n BY <3>5, <3>7, <5>1 DEF Comes
        <5>3. ww[k] = w[k] /\ ww[l] = n + 1 BY <3>5, <3>8, <4>2, <5>1
        <5>4. QED BY <5>2, <5>3
      <4>3. CASE ~(k <= Len(s)) /\ ~(l <= Len(s))
        <5>1. ww[k] = n + 1 /\ ww[l] = n + 1 /\ vv[k] = k - Len(s) /\ vv[l] = l - Len(s)
          BY <3>5, <3>8, <4>3
        <5>2. QED BY <5>1, <3>5
      <4>4. QED BY <4>1, <4>2, <4>3, <3>5
    <3>11. \A i \in 1 .. n + 1 : \A x \in DOMAIN seqs[i] :
             \E k \in DOMAIN (s \o t) : ww[k] = i /\ vv[k] = x
      <4> SUFFICES ASSUME NEW i \in 1 .. n + 1, NEW x \in DOMAIN seqs[i]
                   PROVE  \E k \in DOMAIN (s \o t) : ww[k] = i /\ vv[k] = x
        OBVIOUS
      <4>1. CASE i <= n
        <5>1. PICK k \in DOMAIN s : w[k] = i /\ v[k] = x BY <3>7, <4>1 DEF Comes
        <5>2. k \in 1 .. Len(s) /\ k \in DOMAIN (s \o t) BY <5>1, <3>5
        <5>3. QED BY <3>8, <5>1, <5>2
      <4>2. CASE i = n + 1
        <5>1. x \in 1 .. Len(t) BY <3>5, <4>2
        <5>2. /\ Len(s) + x \in DOMAIN (s \o t) /\ Len(s) + x \in 1 .. Len(s) + Len(t)
              /\ ~(Len(s) + x <= Len(s)) /\ (Len(s) + x) - Len(s) = x
          BY <3>5, <5>1
        <5>3. ww[Len(s) + x] = n + 1 /\ vv[Len(s) + x] = x BY <3>8, <5>2
        <5>4. QED BY <4>2, <5>2, <5>3
      <4>3. QED BY <4>1, <4>2
    <3>12. Comes(s \o t, seqs, n + 1, ww, vv) BY <3>9, <3>10, <3>11 DEF Comes
    <3> HIDE DEF t
    <3>13. QED BY <3>3, <3>6, <3>12
  <2>4. P(N)
    <3> HIDE DEF P
    <3>1. 0 \in G BY <2>2
    <3>2. \A n \in Nat : n \in G => n + 1 \in G
      <4> SUFFICES ASSUME NEW n \in Nat, n \in G, (n + 1) + 1 <= N PROVE P((n + 1) + 1) OBVIOUS
      <4>1. n + 1 \in 1 .. N /\ P(n + 1) OBVIOUS
      <4>2. QED BY <4>1, <2>3
    <3>3. Nat \subseteq G
      <4> HIDE DEF G
      <4>1. QED BY <3>1, <3>2, Induction
    <3>4. N - 1 \in Nat /\ (N - 1) + 1 = N BY <1>2
    <3>5. N - 1 \in G BY <3>3, <3>4
    <3>6. P((N - 1) + 1) BY <3>4, <3>5
    <3>7. QED BY <3>4, <3>6
  <2>5. f[N] \in Seq(S)
    <3>1. N \in 1 .. N BY <1>2
    <3>2. QED BY <3>1, Zenon
  <2>6. QED BY <2>1, <2>4, <2>5
<1>3. Len(seqs) \in Nat OBVIOUS
<1>4. QED BY <1>1, <1>2

------------------------------------------------------------------------------
(* What the chunks are *)

Chunk == [path : Paths, n : Nat, text : Texts]

LEMMA ChunksOfIt ==
  ASSUME NEW p \in Paths, NEW text
  PROVE  /\ ChunksOf(p, text) \in Seq(Chunk)
         /\ \A n \in DOMAIN ChunksOf(p, text) :
              ChunksOf(p, text)[n] = [path |-> p, n |-> n - 1, text |-> text]
         /\ text \notin Texts => ChunksOf(p, text) = <<>>
         /\ text \in Texts => Len(ChunksOf(p, text)) = Pieces[text]
<1>1. CASE text \in Texts
  <2>1. Pieces[text] \in Nat BY <1>1, PiecesAssumption
  <2> DEFINE s == [i \in 1 .. Pieces[text] |-> [path |-> p, n |-> i - 1, text |-> text]]
  <2>2. ChunksOf(p, text) = s BY <1>1 DEF ChunksOf
  <2>3. \A i \in 1 .. Pieces[text] : s[i] \in Chunk BY <1>1, <2>1 DEF Chunk
  <2>4. s \in Seq(Chunk)
    <3>1. s \in [1 .. Pieces[text] -> Chunk] BY <2>3
    <3> HIDE DEF s
    <3>2. QED BY <2>1, <3>1
  <2>5. Len(s) = Pieces[text] /\ DOMAIN s = 1 .. Pieces[text] BY <2>1
  <2>6. \A n \in DOMAIN s : s[n] = [path |-> p, n |-> n - 1, text |-> text] OBVIOUS
  <2> HIDE DEF s
  <2>7. QED BY <1>1, <2>2, <2>4, <2>5, <2>6
<1>2. CASE text \notin Texts
  BY <1>2 DEF ChunksOf
<1>3. QED BY <1>1, <1>2

(* The chunks among these that are of the note p are text, in its order. *)
Shows(chunks, p, text) ==
  /\ \A i \in DOMAIN chunks : chunks[i].path = p => \E n \in DOMAIN text : chunks[i] = text[n]
  /\ \A n \in DOMAIN text : \E i \in DOMAIN chunks : chunks[i].path = p /\ chunks[i] = text[n]
  /\ \A i, j \in DOMAIN chunks :
       chunks[i].path = p /\ chunks[j].path = p /\ i < j => chunks[i].n < chunks[j].n

LEMMA TellsByNotes ==
  ASSUME NEW m
  PROVE  Tells(m) <=> \A p \in Paths : /\ Shows(m.chunks, p, ChunksOf(p, m.manifest[p]))
                                       /\ m.paths[p] = Len(ChunksOf(p, m.manifest[p]))
<1> DEFINE OfNote(p) == {i \in DOMAIN m.chunks : m.chunks[i].path = p}
           Text(p) == ChunksOf(p, m.manifest[p])
<1>1. ASSUME NEW p \in Paths
      PROVE  Shows(m.chunks, p, Text(p)) <=>
               /\ {m.chunks[i] : i \in OfNote(p)} = {Text(p)[n] : n \in DOMAIN Text(p)}
               /\ \A i \in OfNote(p), j \in OfNote(p) : i < j => m.chunks[i].n < m.chunks[j].n
  <2> DEFINE text == Text(p)
  <2> HIDE DEF text
  <2>1. Shows(m.chunks, p, text) <=>
               /\ {m.chunks[i] : i \in OfNote(p)} = {text[n] : n \in DOMAIN text}
               /\ \A i \in OfNote(p), j \in OfNote(p) : i < j => m.chunks[i].n < m.chunks[j].n
    <3> DEFINE Had == {m.chunks[i] : i \in OfNote(p)}
               Due == {text[n] : n \in DOMAIN text}
    <3>1. Had \subseteq Due <=>
            \A i \in DOMAIN m.chunks :
              m.chunks[i].path = p => \E n \in DOMAIN text : m.chunks[i] = text[n]
      OBVIOUS
    <3>2. Due \subseteq Had <=>
            \A n \in DOMAIN text :
              \E i \in DOMAIN m.chunks : m.chunks[i].path = p /\ m.chunks[i] = text[n]
      OBVIOUS
    <3>3. Had = Due <=> Had \subseteq Due /\ Due \subseteq Had OBVIOUS
    <3>4. (\A i \in OfNote(p), j \in OfNote(p) : i < j => m.chunks[i].n < m.chunks[j].n) <=>
            \A i, j \in DOMAIN m.chunks :
              m.chunks[i].path = p /\ m.chunks[j].path = p /\ i < j => m.chunks[i].n < m.chunks[j].n
      OBVIOUS
    <3> HIDE DEF Had, Due, OfNote
    <3>5. QED BY <3>1, <3>2, <3>3, <3>4 DEF Shows, Had, Due
  <2>2. QED BY <2>1 DEF text
<1>2. QED BY <1>1 DEF Tells

(* A chunk's note and its number, which make up its id, tell it from all the others. *)
LEMMA IdsAreUnique ==
  ASSUME NEW m, m.chunks \in Seq(Chunk), Tells(m)
  PROVE  \A i, j \in DOMAIN m.chunks : Id(m.chunks[i]) = Id(m.chunks[j]) => i = j
<1> SUFFICES ASSUME NEW i \in DOMAIN m.chunks, NEW j \in DOMAIN m.chunks,
                    Id(m.chunks[i]) = Id(m.chunks[j]), i # j
             PROVE  FALSE
  OBVIOUS
<1>1. m.chunks[i] \in Chunk /\ m.chunks[j] \in Chunk /\ i \in Nat /\ j \in Nat OBVIOUS
<1>2. /\ m.chunks[i].path \in Paths /\ m.chunks[i].path = m.chunks[j].path
      /\ m.chunks[i].n = m.chunks[j].n /\ m.chunks[i].n \in Nat
  BY <1>1 DEF Id, Chunk
<1>3. Shows(m.chunks, m.chunks[i].path, ChunksOf(m.chunks[i].path, m.manifest[m.chunks[i].path]))
  BY <1>2, TellsByNotes
<1>4. i < j \/ j < i BY <1>1
<1>5. m.chunks[i].n < m.chunks[j].n \/ m.chunks[j].n < m.chunks[i].n BY <1>2, <1>3, <1>4 DEF Shows
<1>6. QED BY <1>2, <1>5

(* Chunks of which those with these ids left: k is number w[k] of what there was. *)
Left(kept, chunks, ids, w) ==
  /\ \A k \in DOMAIN kept : /\ w[k] \in DOMAIN chunks /\ kept[k] = chunks[w[k]]
                            /\ Id(chunks[w[k]]) \notin ids
  /\ \A k, l \in DOMAIN kept : k < l => w[k] < w[l]
  /\ \A i \in DOMAIN chunks : Id(chunks[i]) \notin ids => \E k \in DOMAIN kept : w[k] = i

LEMMA LeftWithout ==
  ASSUME NEW chunks \in Seq(Chunk), NEW ids
  PROVE  /\ Without(chunks, ids) \in Seq(Chunk)
         /\ \E w \in [DOMAIN Without(chunks, ids) -> Nat] :
              Left(Without(chunks, ids), chunks, ids, w)
<1> DEFINE seqs == [i \in DOMAIN chunks |-> IF Id(chunks[i]) \in ids THEN <<>> ELSE <<chunks[i]>>]
           s == Without(chunks, ids)
<1>1. \A i \in DOMAIN chunks : chunks[i] \in Chunk OBVIOUS
<1>2. \A i \in DOMAIN chunks :
        /\ seqs[i] \in Seq(Chunk)
        /\ Id(chunks[i]) \in ids => seqs[i] = <<>>
        /\ Id(chunks[i]) \notin ids => seqs[i] = <<chunks[i]>>
  BY <1>1
<1>3. seqs \in Seq(Seq(Chunk)) /\ DOMAIN seqs = DOMAIN chunks /\ Len(seqs) = Len(chunks)
  <2>1. DOMAIN chunks = 1 .. Len(chunks) /\ Len(chunks) \in Nat OBVIOUS
  <2>2. DOMAIN seqs = DOMAIN chunks OBVIOUS
  <2>3. seqs = [i \in DOMAIN chunks |-> seqs[i]] OBVIOUS
  <2> HIDE DEF seqs
  <2>4. seqs \in [1 .. Len(chunks) -> Seq(Chunk)] BY <1>2, <2>1, <2>3
  <2>5. QED BY <2>1, <2>2, <2>4
<1>4. s = FlattenSeq(seqs) BY DEF Without
<1> HIDE DEF seqs, s
<1>5. s \in Seq(Chunk) BY <1>3, <1>4, Flattened
<1>6. PICK w \in [DOMAIN s -> Nat], v \in [DOMAIN s -> Nat] : Comes(s, seqs, Len(seqs), w, v)
  BY <1>3, <1>4, Flattened
<1>7. ASSUME NEW k \in DOMAIN s
      PROVE  /\ w[k] \in DOMAIN chunks /\ s[k] = chunks[w[k]]
             /\ Id(chunks[w[k]]) \notin ids /\ v[k] = 1
  <2>1. w[k] \in DOMAIN chunks /\ v[k] \in DOMAIN seqs[w[k]] /\ s[k] = seqs[w[k]][v[k]]
    BY <1>3, <1>6 DEF Comes
  <2>2. CASE Id(chunks[w[k]]) \in ids
    <3>1. seqs[w[k]] = <<>> BY <1>2, <2>1, <2>2
    <3>2. QED BY <2>1, <3>1
  <2>3. CASE Id(chunks[w[k]]) \notin ids
    <3>1. seqs[w[k]] = <<chunks[w[k]]>> BY <1>2, <2>1, <2>3
    <3>2. QED BY <2>1, <2>3, <3>1
  <2>4. QED BY <2>2, <2>3
<1>8. \A k, l \in DOMAIN s : k < l => w[k] < w[l]
  <2> SUFFICES ASSUME NEW k \in DOMAIN s, NEW l \in DOMAIN s, k < l PROVE w[k] < w[l] OBVIOUS
  <2>1. w[k] < w[l] \/ v[k] < v[l] BY <1>6 DEF Comes
  <2>2. QED BY <1>7, <2>1
<1>9. \A i \in DOMAIN chunks : Id(chunks[i]) \notin ids => \E k \in DOMAIN s : w[k] = i
  <2> SUFFICES ASSUME NEW i \in DOMAIN chunks, Id(chunks[i]) \notin ids
               PROVE  \E k \in DOMAIN s : w[k] = i
    OBVIOUS
  <2>1. seqs[i] = <<chunks[i]>> BY <1>2
  <2>2. 1 \in DOMAIN seqs[i] BY <2>1
  <2>3. i \in 1 .. Len(seqs) BY <1>3
  <2>4. QED BY <1>6, <2>2, <2>3 DEF Comes
<1>10. QED
  <2>1. /\ \A k \in DOMAIN s : /\ w[k] \in DOMAIN chunks /\ s[k] = chunks[w[k]]
                               /\ Id(chunks[w[k]]) \notin ids
    BY <1>7
  <2>2. Left(s, chunks, ids, w) BY <1>8, <1>9, <2>1 DEF Left
  <2>3. QED BY <1>5, <1>6, <2>2 DEF s

(* An update: the chunks of p leave, those of its text come, and all others stay. *)
Updated(m, p, text, n) ==
  /\ m.chunks \in Seq(Chunk) /\ m.manifest \in [Paths -> Texts \cup {None}]
  /\ m.paths \in [Paths -> Nat] /\ Tells(m)
  /\ n.chunks = Without(m.chunks, Ids(p, m.paths[p])) \o ChunksOf(p, text)
  /\ n.manifest = [m.manifest EXCEPT ![p] = text]
  /\ n.paths = [m.paths EXCEPT ![p] = Len(ChunksOf(p, text))]

GainsOnly(m, p, n) ==
  \A i \in DOMAIN n.chunks :
    n.chunks[i].path = p \/ \E j \in DOMAIN m.chunks : n.chunks[i] = m.chunks[j]

LEMMA UpdatedTells ==
  ASSUME NEW m, NEW p \in Paths, NEW text, NEW n, Updated(m, p, text, n)
  PROVE  Tells(n) /\ n.chunks \in Seq(Chunk) /\ GainsOnly(m, p, n)
<1> USE DEF Updated
<1> DEFINE kept == Without(m.chunks, Ids(p, m.paths[p]))
           new == ChunksOf(p, text)
           all == kept \o new
<1>1. \A i \in DOMAIN m.chunks : m.chunks[i] \in Chunk OBVIOUS
<1>2. \A q \in Paths : /\ Shows(m.chunks, q, ChunksOf(q, m.manifest[q]))
                       /\ m.paths[q] = Len(ChunksOf(q, m.manifest[q]))
  BY TellsByNotes
<1>3. \A i \in DOMAIN m.chunks : Id(m.chunks[i]) \in Ids(p, m.paths[p]) <=> m.chunks[i].path = p
  <2> SUFFICES ASSUME NEW i \in DOMAIN m.chunks
               PROVE  Id(m.chunks[i]) \in Ids(p, m.paths[p]) <=> m.chunks[i].path = p
    OBVIOUS
  <2>1. CASE m.chunks[i].path = p
    <3> DEFINE old == ChunksOf(p, m.manifest[p])
    <3>1. PICK k \in DOMAIN old : m.chunks[i] = old[k] BY <1>2, <2>1 DEF Shows
    <3>2. old[k] = [path |-> p, n |-> k - 1, text |-> m.manifest[p]] BY ChunksOfIt
    <3>3. old \in Seq(Chunk) /\ Len(old) = m.paths[p] BY <1>2, ChunksOfIt
    <3>4. k - 1 \in 0 .. m.paths[p] - 1
      <4> HIDE DEF old
      <4>1. QED BY <3>1, <3>3
    <3>5. Id(m.chunks[i]) = <<p, k - 1>> BY <3>1, <3>2 DEF Id
    <3>6. QED BY <2>1, <3>4, <3>5 DEF Ids
  <2>2. CASE m.chunks[i].path # p
    BY <2>2 DEF Id, Ids
  <2>3. QED BY <2>1, <2>2
<1>4. kept \in Seq(Chunk) /\ new \in Seq(Chunk)
  BY LeftWithout, ChunksOfIt
<1>5. PICK w \in [DOMAIN kept -> Nat] : Left(kept, m.chunks, Ids(p, m.paths[p]), w)
  BY LeftWithout
<1>6. \A k \in DOMAIN new : new[k] = [path |-> p, n |-> k - 1, text |-> text]
  BY ChunksOfIt
<1> HIDE DEF kept, new
<1>7. /\ all \in Seq(Chunk) /\ DOMAIN all = 1 .. Len(kept) + Len(new)
      /\ DOMAIN kept = 1 .. Len(kept) /\ Len(kept) \in Nat
      /\ DOMAIN new = 1 .. Len(new) /\ Len(new) \in Nat
      /\ \A i \in DOMAIN all : /\ i <= Len(kept) => i \in DOMAIN kept /\ all[i] = kept[i]
                               /\ i > Len(kept) => i - Len(kept) \in DOMAIN new
                                                   /\ all[i] = new[i - Len(kept)]
      /\ \A k \in DOMAIN kept : k \in DOMAIN all /\ k <= Len(kept) /\ all[k] = kept[k]
      /\ \A k \in DOMAIN new : /\ k + Len(kept) \in DOMAIN all /\ k + Len(kept) > Len(kept)
                               /\ all[k + Len(kept)] = new[k]
  <2>1. all \in Seq(Chunk) /\ DOMAIN all = 1 .. Len(kept) + Len(new) BY <1>4
  <2>2. /\ DOMAIN kept = 1 .. Len(kept) /\ Len(kept) \in Nat
        /\ DOMAIN new = 1 .. Len(new) /\ Len(new) \in Nat
    BY <1>4
  <2>3. \A i \in 1 .. Len(kept) + Len(new) :
          /\ i <= Len(kept) => i \in DOMAIN kept /\ all[i] = kept[i]
          /\ i > Len(kept) => i - Len(kept) \in DOMAIN new /\ all[i] = new[i - Len(kept)]
    BY <1>4
  <2> HIDE DEF all
  <2>4. \A k \in DOMAIN kept : k \in DOMAIN all /\ k <= Len(kept) /\ all[k] = kept[k]
    BY <2>1, <2>2, <2>3
  <2>5. \A k \in DOMAIN new : /\ k + Len(kept) \in DOMAIN all /\ k + Len(kept) > Len(kept)
                              /\ all[k + Len(kept)] = new[k]
    <3> SUFFICES ASSUME NEW k \in DOMAIN new
                 PROVE  /\ k + Len(kept) \in DOMAIN all /\ k + Len(kept) > Len(kept)
                        /\ all[k + Len(kept)] = new[k]
      OBVIOUS
    <3>1. /\ k + Len(kept) \in 1 .. Len(kept) + Len(new) /\ k + Len(kept) > Len(kept)
          /\ (k + Len(kept)) - Len(kept) = k
      BY <2>2
    <3>2. QED BY <2>1, <2>3, <3>1
  <2>6. QED BY <2>1, <2>2, <2>3, <2>4, <2>5
<1>8. /\ \A i \in DOMAIN all : i <= Len(kept) <=> all[i].path # p
      /\ \A i \in DOMAIN all :
           all[i].path # p => all[i] = m.chunks[w[i]] /\ w[i] \in DOMAIN m.chunks
      /\ \A i \in DOMAIN all : all[i].path = p => i > Len(kept)
  <2>1. \A k \in DOMAIN kept :
          kept[k] = m.chunks[w[k]] /\ w[k] \in DOMAIN m.chunks /\ kept[k].path # p
    BY <1>3, <1>5 DEF Left
  <2>2. \A k \in DOMAIN new : new[k].path = p BY <1>6
  <2> HIDE DEF all
  <2>3. \A i \in DOMAIN all : i <= Len(kept) \/ i > Len(kept) BY <1>7
  <2>4. QED BY <1>7, <2>1, <2>2, <2>3
<1> HIDE DEF all
<1>9. Shows(all, p, new)
  <2>1. \A i \in DOMAIN all : all[i].path = p => \E k \in DOMAIN new : all[i] = new[k]
    BY <1>7, <1>8
  <2>2. \A k \in DOMAIN new : \E i \in DOMAIN all : all[i].path = p /\ all[i] = new[k]
    BY <1>6, <1>7
  <2>3. ASSUME NEW i \in DOMAIN all, NEW j \in DOMAIN all, all[i].path = p, all[j].path = p, i < j
        PROVE  all[i].n < all[j].n
    <3>1. /\ i - Len(kept) \in DOMAIN new /\ all[i] = new[i - Len(kept)]
          /\ j - Len(kept) \in DOMAIN new /\ all[j] = new[j - Len(kept)]
      BY <1>7, <1>8, <2>3
    <3>2. all[i].n = (i - Len(kept)) - 1 /\ all[j].n = (j - Len(kept)) - 1 BY <1>6, <3>1
    <3>3. QED BY <1>7, <2>3, <3>2
  <2>4. QED BY <2>1, <2>2, <2>3 DEF Shows
<1>10. ASSUME NEW q \in Paths, q # p, NEW it, Shows(m.chunks, q, it)
       PROVE  Shows(all, q, it)
  <2>1. \A i \in DOMAIN all : all[i].path = q => \E k \in DOMAIN it : all[i] = it[k]
    BY <1>8, <1>10 DEF Shows
  <2>2. ASSUME NEW k \in DOMAIN it
        PROVE  \E i \in DOMAIN all : all[i].path = q /\ all[i] = it[k]
    <3>1. PICK i \in DOMAIN m.chunks : m.chunks[i].path = q /\ m.chunks[i] = it[k]
      BY <1>10 DEF Shows
    <3>2. PICK j \in DOMAIN kept : w[j] = i BY <1>3, <1>5, <1>10, <3>1 DEF Left
    <3>3. j \in DOMAIN all /\ all[j] = m.chunks[i] BY <1>5, <1>7, <3>2 DEF Left
    <3>4. QED BY <3>1, <3>3
  <2>3. ASSUME NEW i \in DOMAIN all, NEW j \in DOMAIN all, all[i].path = q, all[j].path = q, i < j
        PROVE  all[i].n < all[j].n
    <3>1. i \in DOMAIN kept /\ j \in DOMAIN kept BY <1>7, <1>8, <1>10, <2>3
    <3>2. w[i] < w[j] BY <1>5, <2>3, <3>1 DEF Left
    <3>3. /\ w[i] \in DOMAIN m.chunks /\ all[i] = m.chunks[w[i]]
          /\ w[j] \in DOMAIN m.chunks /\ all[j] = m.chunks[w[j]]
      BY <1>8, <1>10, <2>3
    <3>4. QED BY <1>10, <2>3, <3>2, <3>3 DEF Shows
  <2>4. QED BY <2>1, <2>2, <2>3 DEF Shows
<1>11. n.chunks = all BY DEF all, kept, new
<1>12. ASSUME NEW q \in Paths
       PROVE  /\ Shows(n.chunks, q, ChunksOf(q, n.manifest[q]))
              /\ n.paths[q] = Len(ChunksOf(q, n.manifest[q]))
  <2>1. CASE q = p
    <3>1. n.manifest[p] = text /\ n.paths[p] = Len(new) BY DEF new
    <3>2. QED BY <1>9, <1>11, <2>1, <3>1 DEF new
  <2>2. CASE q # p
    <3>1. n.manifest[q] = m.manifest[q] /\ n.paths[q] = m.paths[q] BY <2>2
    <3>2. QED BY <1>2, <1>10, <1>11, <2>2, <3>1
  <2>3. QED BY <2>1, <2>2
<1>13. Tells(n) BY <1>12, TellsByNotes
<1>14. QED BY <1>7, <1>8, <1>11, <1>13 DEF GainsOnly

(* SetToSeq lists each element once. *)
LEMMA Listed ==
  ASSUME NEW S, IsFiniteSet(S)
  PROVE  /\ SetToSeq(S) \in Seq(S)
         /\ \A i, j \in DOMAIN SetToSeq(S) : SetToSeq(S)[i] = SetToSeq(S)[j] => i = j
         /\ \A x \in S : \E i \in DOMAIN SetToSeq(S) : SetToSeq(S)[i] = x
<1> DEFINE N == Cardinality(S)
<1>1. N \in Nat /\ ExistsBijection(1 .. N, S) BY FS_CardinalityType
<1>2. PICK f \in Bijection(1 .. N, S) : TRUE BY <1>1 DEF ExistsBijection
<1>3. f \in [1 .. N -> S] /\ IsInjective(f) BY <1>2 DEF Bijection, Injection
<1>4. SetToSeq(S) \in [1 .. N -> S] /\ IsInjective(SetToSeq(S)) BY <1>3 DEF SetToSeq
<1> DEFINE s == SetToSeq(S)
<1> HIDE DEF s, N
<1>5. s \in Injection(1 .. N, S) BY <1>4 DEF Injection, s
<1>6. IsFiniteSet(1 .. N) /\ Cardinality(1 .. N) = N
  <2>1. N = 0 \/ N >= 1 BY <1>1
  <2>2. IsFiniteSet(1 .. N) /\ Cardinality(1 .. N) = IF 1 > N THEN 0 ELSE N - 1 + 1
    BY <1>1, FS_Interval
  <2>3. QED BY <1>1, <2>1, <2>2
<1>7. s \in Surjection(1 .. N, S) BY <1>5, <1>6, FS_Injection DEF N
<1>8. \A x \in S : \E i \in 1 .. N : s[i] = x BY <1>7 DEF Surjection
<1>9. s \in [1 .. N -> S] /\ \A i, j \in 1 .. N : s[i] = s[j] => i = j
  BY <1>4 DEF s, IsInjective
<1>10. s \in Seq(S) /\ DOMAIN s = 1 .. N BY <1>1, <1>9
<1>11. QED BY <1>8, <1>9, <1>10 DEF s

(* A scan of the whole vault. *)
LEMMA ScannedTells ==
  ASSUME NEW notes, notes = SetToSeq({p \in Paths \ linked : ChunksOf(p, file[p]) # <<>>}),
         NEW n,
         n.chunks = FlattenSeq([i \in DOMAIN notes |-> ChunksOf(notes[i], file[notes[i]])]),
         n.manifest = [p \in Paths |-> Found(p)],
         n.paths = [p \in Paths |-> IF Found(p) = None THEN 0 ELSE Pieces[file[p]]]
  PROVE  /\ Tells(n) /\ n.chunks \in Seq(Chunk)
         /\ n.manifest \in [Paths -> Texts \cup {None}] /\ n.paths \in [Paths -> Nat]
<1> DEFINE S == {p \in Paths \ linked : ChunksOf(p, file[p]) # <<>>}
           seqs == [i \in DOMAIN notes |-> ChunksOf(notes[i], file[notes[i]])]
           all == FlattenSeq(seqs)
<1>1. S \in SUBSET Paths OBVIOUS
<1>2. IsFiniteSet(S)
  <2> HIDE DEF S
  <2>1. QED BY <1>1, PathsAssumption, FS_Subset
<1>3. /\ notes \in Seq(S)
      /\ \A i, j \in DOMAIN notes : notes[i] = notes[j] => i = j
      /\ \A p \in S : \E i \in DOMAIN notes : notes[i] = p
  <2>1. notes = SetToSeq(S) OBVIOUS
  <2> HIDE DEF S
  <2>2. /\ SetToSeq(S) \in Seq(S)
        /\ \A i, j \in DOMAIN SetToSeq(S) : SetToSeq(S)[i] = SetToSeq(S)[j] => i = j
        /\ \A p \in S : \E i \in DOMAIN SetToSeq(S) : SetToSeq(S)[i] = p
    BY <1>2, Listed
  <2>3. QED BY <2>1, <2>2
<1>4. \A p \in S : p \in Paths /\ file[p] \in Texts /\ Found(p) = file[p] /\ Found(p) # None
  BY ChunksOfIt, NamesAssumption DEF Found
<1>5. \A p \in Paths : p \notin S => Found(p) = None /\ ChunksOf(p, Found(p)) = <<>>
  BY ChunksOfIt, NamesAssumption DEF Found
<1> HIDE DEF S
<1>6. /\ \A i \in DOMAIN notes : notes[i] \in S /\ seqs[i] = ChunksOf(notes[i], file[notes[i]])
                                 /\ seqs[i] \in Seq(Chunk)
      /\ DOMAIN notes = 1 .. Len(notes) /\ Len(notes) \in Nat
  <2>1. \A i \in DOMAIN notes : notes[i] \in S BY <1>3
  <2>2. \A i \in DOMAIN notes : seqs[i] \in Seq(Chunk) BY <1>4, <2>1, ChunksOfIt
  <2>3. QED BY <1>3, <2>1, <2>2
<1>7. seqs \in Seq(Seq(Chunk)) /\ DOMAIN seqs = DOMAIN notes /\ Len(seqs) = Len(notes)
  <2>1. seqs = [i \in 1 .. Len(notes) |-> seqs[i]] BY <1>6
  <2> HIDE DEF seqs
  <2>2. seqs \in [1 .. Len(notes) -> Seq(Chunk)] BY <1>6, <2>1
  <2>3. QED BY <1>6, <2>2, FunctionIsSeq
<1> HIDE DEF seqs
<1>8. all \in Seq(Chunk) BY <1>7, Flattened
<1>9. PICK w \in [DOMAIN all -> Nat], v \in [DOMAIN all -> Nat] : Comes(all, seqs, Len(seqs), w, v)
  BY <1>7, Flattened
<1> HIDE DEF all
<1>10. \A k \in DOMAIN all :
         /\ w[k] \in DOMAIN notes /\ v[k] \in DOMAIN seqs[w[k]] /\ v[k] \in Nat
         /\ all[k] = [path |-> notes[w[k]], n |-> v[k] - 1, text |-> file[notes[w[k]]]]
         /\ all[k] = seqs[w[k]][v[k]]
  <2> SUFFICES ASSUME NEW k \in DOMAIN all
               PROVE  /\ w[k] \in DOMAIN notes /\ v[k] \in DOMAIN seqs[w[k]] /\ v[k] \in Nat
                      /\ all[k] = [path |-> notes[w[k]], n |-> v[k] - 1, text |-> file[notes[w[k]]]]
                      /\ all[k] = seqs[w[k]][v[k]]
    OBVIOUS
  <2>1. w[k] \in DOMAIN notes /\ v[k] \in DOMAIN seqs[w[k]] /\ all[k] = seqs[w[k]][v[k]]
    BY <1>6, <1>7, <1>9 DEF Comes
  <2>2. notes[w[k]] \in Paths /\ seqs[w[k]] = ChunksOf(notes[w[k]], file[notes[w[k]]])
    BY <1>4, <1>6, <2>1
  <2>3. seqs[w[k]][v[k]] =
          [path |-> notes[w[k]], n |-> v[k] - 1, text |-> file[notes[w[k]]]]
    <3>1. ChunksOf(notes[w[k]], file[notes[w[k]]])[v[k]] =
            [path |-> notes[w[k]], n |-> v[k] - 1, text |-> file[notes[w[k]]]]
      <4> DEFINE q == notes[w[k]]
                 t == file[q]
                 x == v[k]
      <4>1. q \in Paths /\ x \in DOMAIN ChunksOf(q, t) BY <2>1, <2>2
      <4> HIDE DEF q, t, x
      <4>2. ChunksOf(q, t)[x] = [path |-> q, n |-> x - 1, text |-> t] BY <4>1, ChunksOfIt
      <4>3. QED BY <4>2 DEF q, t, x
    <3>2. QED BY <2>2, <3>1
  <2>4. v[k] \in Nat BY <1>9
  <2>5. QED BY <2>1, <2>3, <2>4
<1>11. ASSUME NEW p \in Paths
       PROVE  Shows(all, p, ChunksOf(p, Found(p)))
  <2>1. ASSUME NEW k \in DOMAIN all, all[k].path = p
        PROVE  \E x \in DOMAIN ChunksOf(p, Found(p)) : all[k] = ChunksOf(p, Found(p))[x]
    <3>1. notes[w[k]] = p BY <1>10, <2>1
    <3>2. p \in S BY <1>6, <1>10, <3>1
    <3>3. w[k] \in DOMAIN notes /\ v[k] \in DOMAIN seqs[w[k]] /\ all[k] = seqs[w[k]][v[k]]
      BY <1>10
    <3>4. seqs[w[k]] = ChunksOf(p, file[p]) BY <1>6, <3>1, <3>3
    <3>5. QED BY <1>4, <3>2, <3>3, <3>4
  <2>2. ASSUME NEW x \in DOMAIN ChunksOf(p, Found(p))
        PROVE  \E k \in DOMAIN all : all[k].path = p /\ all[k] = ChunksOf(p, Found(p))[x]
    <3>1. p \in S BY <1>5, <2>2
    <3>2. PICK i \in DOMAIN notes : notes[i] = p BY <1>3, <3>1
    <3>3. seqs[i] = ChunksOf(p, Found(p)) BY <1>4, <1>6, <3>1, <3>2
    <3>4. i \in 1 .. Len(seqs) BY <1>6, <1>7
    <3>5. PICK k \in DOMAIN all : w[k] = i /\ v[k] = x BY <1>9, <2>2, <3>3, <3>4 DEF Comes
    <3>6. QED BY <1>10, <3>2, <3>3, <3>5
  <2>3. ASSUME NEW k \in DOMAIN all, NEW l \in DOMAIN all,
               all[k].path = p, all[l].path = p, k < l
        PROVE  all[k].n < all[l].n
    <3>1. notes[w[k]] = p /\ notes[w[l]] = p BY <1>10, <2>3
    <3>2. w[k] = w[l]
      <4>1. w[k] \in DOMAIN notes /\ w[l] \in DOMAIN notes BY <1>10
      <4>2. notes[w[k]] = notes[w[l]] BY <3>1
      <4>3. QED BY <1>3, <4>1, <4>2, Zenon
    <3>3. w[k] \in Nat BY <1>6, <1>10
    <3>4. v[k] < v[l] BY <1>9, <2>3, <3>2, <3>3 DEF Comes
    <3>5. all[k].n = v[k] - 1 /\ all[l].n = v[l] - 1 /\ v[k] \in Nat /\ v[l] \in Nat BY <1>10
    <3>6. QED BY <3>4, <3>5
  <2>4. QED BY <2>1, <2>2, <2>3 DEF Shows
<1>12. n.chunks = all BY DEF all, seqs
<1>13. ASSUME NEW p \in Paths
       PROVE  /\ n.paths[p] = Len(ChunksOf(p, Found(p))) /\ n.paths[p] \in Nat
              /\ Found(p) \in Texts \cup {None}
  <2>1. CASE p \in S BY <1>4, <2>1, ChunksOfIt, PiecesAssumption
  <2>2. CASE p \notin S BY <1>5, <2>2
  <2>3. QED BY <2>1, <2>2
<1>14. Tells(n)
  <2>1. \A p \in Paths : n.manifest[p] = Found(p) OBVIOUS
  <2>2. QED BY <1>11, <1>12, <1>13, <2>1, TellsByNotes
<1>15. n.manifest \in [Paths -> Texts \cup {None}] BY <1>13
<1>16. n.paths \in [Paths -> Nat] BY <1>13
<1>17. QED BY <1>8, <1>12, <1>14, <1>15, <1>16

------------------------------------------------------------------------------
(* The inductive invariant *)

Vector == [of : Chunk, by : Embedders]
Manifests == [Paths -> Texts \cup {None}]
PathIndexes == [Paths -> Nat]
Memory == [index : {None} \cup Seq(Vector), chunks : Seq(Chunk),
           manifest : Manifests, paths : PathIndexes]
Steps == {"idle", "load", "scan", "detect", "apply", "embed", "persist"}

JobOK ==
  /\ pc \in [Engines -> Steps]
  /\ at \in [Engines -> 0 .. 4]
  /\ changed \in [Engines -> SUBSET Paths]
  /\ todo \in [Engines -> SUBSET Paths]
  /\ rows \in [Engines -> Seq(Chunk)]

MindOK ==
  /\ mem \in [Engines -> Memory]
  /\ by \in [Engines -> Embedders]
  /\ torn \in [Engines -> BOOLEAN]
  /\ unaligned \in [Engines -> BOOLEAN]

(* The files are there, cut off perhaps. *)
FilesThere ==
  /\ disk[1] \in {Torn} \cup Seq(Vector)
  /\ disk[2] \in {Torn} \cup Seq(Chunk)
  /\ disk[3] \in {Torn} \cup Manifests
  /\ disk[4] \in {Torn} \cup PathIndexes

StoreOK ==
  /\ DOMAIN disk = 1 .. 5
  /\ disk[1] \in {None, Torn} \cup Seq(Vector)
  /\ disk[2] \in {None, Torn} \cup Seq(Chunk)
  /\ disk[3] \in {None, Torn} \cup Manifests
  /\ disk[4] \in {None, Torn} \cup PathIndexes
  /\ disk[5] \in {None, Torn} \cup Embedders
  /\ patched \subseteq Engines

Matches(index, chunks) ==
  Len(index) = Len(chunks) /\ \A i \in DOMAIN chunks : index[i].of = chunks[i]
MadeBy(index, m) == \A i \in DOMAIN index : index[i].by = m

(* Memory that is of one piece tells what is indexed. *)
Told(e) == (pc[e] = "load" => at[e] = 0) /\ ~torn[e] => Tells(mem[e])

(* Vectors and chunks line up, and an embedder the store does not take for this
   engine's may have made them, except while they are written.                  *)
Aligned(e) ==
  pc[e] \in {"idle", "detect", "persist"} /\ ~unaligned[e] /\ mem[e].index # None =>
    /\ Matches(mem[e].index, mem[e].chunks)
    /\ \E m \in Embedders :
         /\ MadeBy(mem[e].index, m)
         /\ disk[5] = by[e] \/ pc[e] = "persist" => m = by[e]

(* The rows an incremental run started from are those of the vectors it keeps. *)
Reuses(e) ==
  pc[e] \in {"apply", "embed"} /\ rows[e] # <<>> =>
    /\ mem[e].index \in Seq(Vector) /\ Len(mem[e].index) = Len(rows[e])
    /\ ~unaligned[e] => Matches(mem[e].index, rows[e]) /\ MadeBy(mem[e].index, by[e])

(* What is not changed is among them, and its id finds it. *)
Covers(e) ==
  pc[e] \in {"apply", "embed"} /\ ~torn[e] /\ rows[e] # <<>> =>
    /\ todo[e] \subseteq changed[e]
    /\ \A i, j \in DOMAIN rows[e] : Id(rows[e][i]) = Id(rows[e][j]) => i = j
    /\ \A i \in DOMAIN mem[e].chunks : mem[e].chunks[i].path \notin changed[e] =>
         \E j \in DOMAIN rows[e] : rows[e][j] = mem[e].chunks[i]

Holds(m, k) ==
  /\ k > 0 => m.index = disk[1]
  /\ k > 1 => m.chunks = disk[2]
  /\ k > 2 => m.manifest = disk[3]
  /\ k > 3 => m.paths = disk[4]

(* A store nobody has touched is in memory as far as it was loaded. *)
Loads(e) ==
  pc[e] = "load" /\ at[e] > 0 =>
    /\ torn[e] <=> unaligned[e]
    /\ patched = {} /\ ~torn[e] => Holds(mem[e], at[e])

(* What an engine has written is what it has in memory, unless another wrote too. *)
Writes(e) ==
  pc[e] = "persist" /\ at[e] > 0 => e \in patched /\ (patched = {e} => Holds(mem[e], at[e]))

Progress(e) ==
  /\ pc[e] = "load" => FilesThere /\ at[e] < 4
  /\ pc[e] \notin {"load", "persist"} => at[e] = 0

Stored == [index |-> disk[1], chunks |-> disk[2], manifest |-> disk[3], paths |-> disk[4]]

Snapshot ==
  /\ disk[5] \in Embedders
  /\ Matches(disk[1], disk[2]) /\ MadeBy(disk[1], disk[5])
  /\ Tells(Stored)

(* A store without unfinished business is of one piece, or not there yet. *)
StoreWhole ==
  patched = {} =>
    \/ Snapshot
    \/ (\A i \in 1 .. 5 : disk[i] = None) /\ \A e \in Engines : pc[e] # "load"

EngineInv(e) ==
  /\ Told(e) /\ Aligned(e) /\ Reuses(e) /\ Covers(e) /\ Loads(e) /\ Writes(e) /\ Progress(e)

IInv == JobOK /\ MindOK /\ StoreOK /\ StoreWhole /\ \A e \in Engines : EngineInv(e)

------------------------------------------------------------------------------
(* Engines that have no part in a step *)

LEMMA TellsByFields ==
  ASSUME NEW m, NEW n, m.chunks = n.chunks, m.manifest = n.manifest, m.paths = n.paths
  PROVE  Tells(m) <=> Tells(n)
BY DEF Tells

SameEngine(o) ==
  /\ mem'[o] = mem[o] /\ by'[o] = by[o] /\ torn'[o] = torn[o] /\ unaligned'[o] = unaligned[o]
  /\ pc'[o] = pc[o] /\ at'[o] = at[o]
  /\ changed'[o] = changed[o] /\ todo'[o] = todo[o] /\ rows'[o] = rows[o]

LEMMA Untouched ==
  ASSUME NEW o \in Engines, EngineInv(o), SameEngine(o), UNCHANGED <<disk, patched>>
  PROVE  EngineInv(o)'
<1>1. Told(o)' BY DEF EngineInv, Told, SameEngine
<1>2. Aligned(o)' BY DEF EngineInv, Aligned, SameEngine
<1>3. Reuses(o)' BY DEF EngineInv, Reuses, SameEngine
<1>4. Covers(o)' BY DEF EngineInv, Covers, SameEngine
<1>5. Loads(o)' BY DEF EngineInv, Loads, Holds, SameEngine
<1>6. Writes(o)' BY DEF EngineInv, Writes, Holds, SameEngine
<1>7. Progress(o)' BY DEF EngineInv, Progress, FilesThere, SameEngine
<1>8. QED BY <1>1, <1>2, <1>3, <1>4, <1>5, <1>6, <1>7 DEF EngineInv

(* An engine that stops while it writes cuts one file off. *)
LEMMA CutOff ==
  ASSUME StoreOK, JobOK, NEW e \in Engines, StopWriting(e)
  PROVE  /\ StoreOK'
         /\ \/ UNCHANGED <<disk, patched>>
            \/ /\ patched' = patched \cup {e}
               /\ \A k \in 1 .. 5 : disk'[k] = disk[k] \/ disk'[k] = Torn
<1>1. CASE UNCHANGED <<disk, patched>> BY <1>1 DEF StoreOK
<1>2. CASE ~UNCHANGED <<disk, patched>>
  <2>1. patched' = patched \cup {e} /\ disk' = [disk EXCEPT ![at[e] + 1] = Torn]
    BY <1>2 DEF StopWriting
  <2>2. at[e] + 1 \in 1 .. 5
    <3>1. at[e] \in 0 .. 4 BY Zenon DEF JobOK
    <3>2. QED BY <3>1
  <2>3. DOMAIN disk = 1 .. 5 BY DEF StoreOK
  <2>4. DOMAIN disk' = 1 .. 5 /\ \A k \in 1 .. 5 : disk'[k] = disk[k] \/ disk'[k] = Torn
    BY <2>1, <2>2, <2>3
  <2>5. disk'[1] \in {disk[1], Torn} /\ disk'[2] \in {disk[2], Torn} /\ disk'[3] \in {disk[3], Torn}
        /\ disk'[4] \in {disk[4], Torn} /\ disk'[5] \in {disk[5], Torn}
    BY <2>4
  <2>6. StoreOK' BY <2>1, <2>4, <2>5 DEF StoreOK
  <2>7. QED BY <2>1, <2>4, <2>6
<1>3. QED BY <1>1, <1>2

LEMMA Bystander ==
  ASSUME IInv, NEW e \in Engines, NEW o \in Engines, o # e, SameEngine(o), StopWriting(e)
  PROVE  EngineInv(o)'
<1>1. EngineInv(o) /\ StoreOK /\ JobOK /\ MindOK BY DEF IInv
<1>2. CASE UNCHANGED <<disk, patched>> BY <1>1, <1>2, Untouched
<1>3. CASE ~UNCHANGED <<disk, patched>>
  <2>1. patched' = patched \cup {e} /\ \A k \in 1 .. 5 : disk'[k] = disk[k] \/ disk'[k] = Torn
    BY <1>1, <1>3, CutOff
  <2>2. disk'[5] = disk[5] \/ disk'[5] = Torn BY <2>1
  <2>3. by[o] \in Embedders BY <1>1 DEF MindOK
  <2>4. Told(o)' BY <1>1 DEF EngineInv, Told, SameEngine
  <2>5. Aligned(o)' BY <1>1, <2>2, <2>3, NamesAssumption DEF EngineInv, Aligned, SameEngine
  <2>6. Reuses(o)' BY <1>1 DEF EngineInv, Reuses, SameEngine
  <2>7. Covers(o)' BY <1>1 DEF EngineInv, Covers, SameEngine
  <2>8. Loads(o)' BY <1>1, <2>1 DEF EngineInv, Loads, SameEngine
  <2>9. Writes(o)' BY <1>1, <2>1 DEF EngineInv, Writes, SameEngine
  <2>10. Progress(o)'
    <3>1. disk'[1] \in {disk[1], Torn} /\ disk'[2] \in {disk[2], Torn}
          /\ disk'[3] \in {disk[3], Torn} /\ disk'[4] \in {disk[4], Torn}
      BY <2>1
    <3>2. FilesThere => FilesThere' BY <3>1 DEF FilesThere
    <3>3. QED BY <1>1, <3>2 DEF EngineInv, Progress, SameEngine
  <2>11. QED BY <2>4, <2>5, <2>6, <2>7, <2>8, <2>9, <2>10 DEF EngineInv
<1>4. QED BY <1>2, <1>3

------------------------------------------------------------------------------
(* Every step keeps the invariant *)

(* A job begins, or nothing of this happens. *)
LEMMA Begins ==
  ASSUME IInv, NEW e \in Engines,
         UNCHANGED <<disk, mem, by, at, changed, todo, rows, patched, torn, unaligned>>,
         \/ UNCHANGED pc
         \/ pc[e] = "idle" /\ \/ pc' = Set(pc, e, "scan") \/ pc' = Set(pc, e, "detect")
                              \/ pc' = Set(pc, e, "load") /\ CacheFilesExist
  PROVE  IInv'
<1>1. JobOK /\ MindOK /\ StoreOK /\ StoreWhole /\ \A o \in Engines : EngineInv(o) BY DEF IInv
<1>2. CASE UNCHANGED pc
  <2>1. \A o \in Engines : SameEngine(o) BY <1>2 DEF SameEngine
  <2>2. \A o \in Engines : EngineInv(o)' BY <1>1, <2>1, Untouched
  <2>3. JobOK' BY <1>1, <1>2 DEF JobOK
  <2>4. MindOK' /\ StoreOK' BY <1>1 DEF MindOK, StoreOK
  <2>5. StoreWhole' BY <1>1, <1>2 DEF StoreWhole, Snapshot, Stored
  <2>6. QED BY <2>2, <2>3, <2>4, <2>5 DEF IInv
<1>3. ASSUME NEW step \in {"scan", "detect", "load"}, pc[e] = "idle", pc' = Set(pc, e, step),
             step = "load" => CacheFilesExist
      PROVE  IInv'
  <2>1. step \in Steps BY DEF Steps
  <2>2. pc' \in [Engines -> Steps] /\ pc'[e] = step /\ \A o \in Engines \ {e} : pc'[o] = pc[o]
    <3>1. pc \in [Engines -> Steps] BY <1>1 DEF JobOK
    <3>2. QED BY <1>3, <2>1, <3>1 DEF Set
  <2>3. JobOK' BY <1>1, <2>2 DEF JobOK
  <2>4. MindOK' /\ StoreOK' BY <1>1 DEF MindOK, StoreOK
  <2>5. ASSUME NEW o \in Engines, o # e PROVE EngineInv(o)'
    <3>1. SameEngine(o) BY <2>2, <2>5 DEF SameEngine
    <3>2. QED BY <1>1, <3>1, Untouched
  <2>6. EngineInv(e)'
    <3>1. EngineInv(e) /\ at[e] = 0 BY <1>1, <1>3 DEF EngineInv, Progress
    <3>2. Told(e)' BY <1>3, <2>2, <3>1 DEF EngineInv, Told
    <3>3. Aligned(e)' BY <1>3, <2>2, <3>1 DEF EngineInv, Aligned
    <3>4. Reuses(e)' BY <1>3, <2>2 DEF Reuses
    <3>5. Covers(e)' BY <1>3, <2>2 DEF Covers
    <3>6. Loads(e)' BY <3>1 DEF Loads
    <3>7. Writes(e)' BY <3>1 DEF Writes
    <3>8. Progress(e)'
      <4>1. step = "load" => FilesThere'
        BY <1>1, <1>3 DEF CacheFilesExist, FilesThere, StoreOK
      <4>2. QED BY <1>3, <2>2, <3>1, <4>1 DEF Progress
    <3>9. QED BY <3>2, <3>3, <3>4, <3>5, <3>6, <3>7, <3>8 DEF EngineInv
  <2>7. StoreWhole'
    <3>1. CASE Snapshot BY <3>1 DEF StoreWhole, Snapshot, Stored
    <3>2. CASE patched = {} /\ ~Snapshot
      <4>1. (\A i \in 1 .. 5 : disk[i] = None) /\ \A o \in Engines : pc[o] # "load"
        BY <1>1, <3>2 DEF StoreWhole
      <4>2. disk[1] = None BY <4>1
      <4>3. step # "load" BY <1>3, <4>2 DEF CacheFilesExist
      <4>4. \A o \in Engines : pc'[o] # "load" BY <2>2, <4>1, <4>3
      <4>5. QED BY <4>1, <4>4 DEF StoreWhole
    <3>3. CASE patched # {} BY <3>3 DEF StoreWhole
    <3>4. QED BY <3>1, <3>2, <3>3
  <2>8. QED BY <2>3, <2>4, <2>5, <2>6, <2>7 DEF IInv
<1>4. QED BY <1>2, <1>3

SameJob(o) ==
  /\ pc'[o] = pc[o] /\ at'[o] = at[o]
  /\ changed'[o] = changed[o] /\ todo'[o] = todo[o] /\ rows'[o] = rows[o]

LEMMA Finishes ==
  ASSUME JobOK, NEW e \in Engines, Finish(e)
  PROVE  /\ JobOK' /\ pc'[e] = "idle" /\ at'[e] = 0
         /\ \A o \in Engines \ {e} : SameJob(o)
<1>1. "idle" \in Steps /\ 0 \in 0 .. 4 /\ {} \in SUBSET Paths /\ <<>> \in Seq(Chunk) BY DEF Steps
<1>2. pc' \in [Engines -> Steps] /\ pc'[e] = "idle" /\ \A o \in Engines \ {e} : pc'[o] = pc[o]
  BY <1>1 DEF Finish, JobOK, Set
<1>3. at' \in [Engines -> 0 .. 4] /\ at'[e] = 0 /\ \A o \in Engines \ {e} : at'[o] = at[o]
  BY <1>1 DEF Finish, JobOK, Set
<1>4. changed' \in [Engines -> SUBSET Paths] /\ \A o \in Engines \ {e} : changed'[o] = changed[o]
  BY <1>1 DEF Finish, JobOK, Set
<1>5. todo' \in [Engines -> SUBSET Paths] /\ \A o \in Engines \ {e} : todo'[o] = todo[o]
  BY <1>1 DEF Finish, JobOK, Set
<1>6. rows' \in [Engines -> Seq(Chunk)] /\ \A o \in Engines \ {e} : rows'[o] = rows[o]
  BY <1>1 DEF Finish, JobOK, Set
<1>7. QED BY <1>2, <1>3, <1>4, <1>5, <1>6 DEF JobOK, SameJob

LEMMA Completes ==
  ASSUME JobOK, NEW e \in Engines, Complete(e)
  PROVE  /\ JobOK' /\ pc'[e] \in {"idle", "detect"} /\ at'[e] = 0
         /\ \A o \in Engines \ {e} : SameJob(o)
<1>1. CASE Finish(e) BY <1>1, Finishes
<1>2. CASE ~Finish(e)
  <2>1. pc' = Set(pc, e, "detect") /\ at' = Set(at, e, 0) /\ UNCHANGED job
    BY <1>2 DEF Complete
  <2>2. "detect" \in Steps /\ 0 \in 0 .. 4 BY DEF Steps
  <2>3. pc' \in [Engines -> Steps] /\ pc'[e] = "detect" /\ \A o \in Engines \ {e} : pc'[o] = pc[o]
    BY <2>1, <2>2 DEF JobOK, Set
  <2>4. at' \in [Engines -> 0 .. 4] /\ at'[e] = 0 /\ \A o \in Engines \ {e} : at'[o] = at[o]
    BY <2>1, <2>2 DEF JobOK, Set
  <2>5. QED BY <2>1, <2>3, <2>4 DEF JobOK, SameJob, job
<1>3. QED BY <1>1, <1>2

LEMMA StoreStays ==
  ASSUME StoreWhole, UNCHANGED <<disk, patched>>,
         \A o \in Engines : pc'[o] = "load" => pc[o] = "load"
  PROVE  StoreWhole'
<1>1. CASE patched # {} BY <1>1 DEF StoreWhole
<1>2. CASE Snapshot BY <1>2 DEF StoreWhole, Snapshot, Stored
<1>3. CASE (\A i \in 1 .. 5 : disk[i] = None) /\ \A e \in Engines : pc[e] # "load"
  BY <1>3 DEF StoreWhole
<1>4. QED BY <1>1, <1>2, <1>3 DEF StoreWhole

LEMMA PersistNothingInv ==
  ASSUME IInv, NEW e \in Engines, PersistNothing(e)
  PROVE  IInv'
<1>1. JobOK /\ MindOK /\ StoreOK /\ StoreWhole /\ \A o \in Engines : EngineInv(o) BY DEF IInv
<1>2. /\ pc[e] = "persist" /\ mem[e].index = None
      /\ UNCHANGED <<disk, mem, by, patched, torn, unaligned>>
  BY DEF PersistNothing, flags
<1>3. /\ JobOK' /\ pc'[e] \in {"idle", "detect"} /\ at'[e] = 0
      /\ \A o \in Engines \ {e} : SameJob(o)
  BY <1>1, Completes DEF PersistNothing
<1>4. MindOK' /\ StoreOK' BY <1>1, <1>2 DEF MindOK, StoreOK
<1>5. StoreWhole'
  <2>1. \A o \in Engines : pc'[o] = "load" => pc[o] = "load" BY <1>3 DEF SameJob
  <2>2. QED BY <1>1, <1>2, <2>1, StoreStays
<1>6. ASSUME NEW o \in Engines, o # e PROVE EngineInv(o)'
  <2>1. SameEngine(o) BY <1>2, <1>3, <1>6 DEF SameEngine, SameJob
  <2>2. QED BY <1>1, <1>2, <2>1, Untouched
<1>7. EngineInv(e)'
  <2>1. Told(e)' BY <1>1, <1>2, <1>3 DEF EngineInv, Told
  <2>2. Aligned(e)' BY <1>2 DEF Aligned
  <2>3. Reuses(e)' /\ Covers(e)' /\ Loads(e)' /\ Writes(e)' /\ Progress(e)'
    BY <1>3 DEF Reuses, Covers, Loads, Writes, Progress
  <2>4. QED BY <2>1, <2>2, <2>3 DEF EngineInv
<1>8. QED BY <1>3, <1>4, <1>5, <1>6, <1>7 DEF IInv

(* One field of memory is read from its file. *)
LEMMA FieldLoaded ==
  ASSUME IInv, NEW e \in Engines, pc[e] = "load",
         disk[at[e] + 1] # Torn, mem' = [mem EXCEPT ![e][Names[at[e] + 1]] = disk[at[e] + 1]]
  PROVE  /\ mem' \in [Engines -> Memory] /\ \A o \in Engines \ {e} : mem'[o] = mem[o]
         /\ Holds(mem[e], at[e]) => Holds(mem'[e], at[e] + 1)
<1>1. JobOK /\ MindOK /\ EngineInv(e) BY DEF IInv
<1>2. FilesThere /\ at[e] \in {0, 1, 2, 3}
  BY <1>1 DEF EngineInv, Progress, JobOK
<1>3. mem[e] \in Memory /\ mem \in [Engines -> Memory] BY <1>1 DEF MindOK
<1>4. CASE at[e] = 0
  <2>1. mem' = [mem EXCEPT ![e].index = disk[1]] /\ disk[1] \in Seq(Vector)
    <3>1. at[e] + 1 = 1 /\ Names[1] = "index" BY <1>4 DEF Names
    <3>2. mem' = [mem EXCEPT ![e]["index"] = disk[1]] /\ disk[1] # Torn BY <3>1
    <3>3. QED BY <1>2, <3>2 DEF FilesThere
  <2>2. mem'[e] = [mem[e] EXCEPT !.index = disk[1]] BY <1>3, <2>1
  <2>3. mem'[e] \in Memory /\ Holds(mem'[e], 1) BY <1>3, <2>1, <2>2 DEF Memory, Holds
  <2>4. QED BY <1>3, <1>4, <2>1, <2>3
<1>5. CASE at[e] = 1
  <2>1. mem' = [mem EXCEPT ![e].chunks = disk[2]] /\ disk[2] \in Seq(Chunk)
    <3>1. at[e] + 1 = 2 /\ Names[2] = "chunks" BY <1>5 DEF Names
    <3>2. mem' = [mem EXCEPT ![e]["chunks"] = disk[2]] /\ disk[2] # Torn BY <3>1
    <3>3. QED BY <1>2, <3>2 DEF FilesThere
  <2>2. mem'[e] = [mem[e] EXCEPT !.chunks = disk[2]] BY <1>3, <2>1
  <2>3. mem'[e] \in Memory BY <1>3, <2>1, <2>2 DEF Memory
  <2>4. Holds(mem[e], 1) => Holds(mem'[e], 2) BY <1>3, <2>2 DEF Holds, Memory
  <2>5. QED BY <1>3, <1>5, <2>1, <2>3, <2>4
<1>6. CASE at[e] = 2
  <2>1. mem' = [mem EXCEPT ![e].manifest = disk[3]] /\ disk[3] \in Manifests
    <3>1. at[e] + 1 = 3 /\ Names[3] = "manifest" BY <1>6 DEF Names
    <3>2. mem' = [mem EXCEPT ![e]["manifest"] = disk[3]] /\ disk[3] # Torn BY <3>1
    <3>3. QED BY <1>2, <3>2 DEF FilesThere
  <2>2. mem'[e] = [mem[e] EXCEPT !.manifest = disk[3]] BY <1>3, <2>1
  <2>3. mem'[e] \in Memory BY <1>3, <2>1, <2>2 DEF Memory
  <2>4. Holds(mem[e], 2) => Holds(mem'[e], 3) BY <1>3, <2>2 DEF Holds, Memory
  <2>5. QED BY <1>3, <1>6, <2>1, <2>3, <2>4
<1>7. CASE at[e] = 3
  <2>1. mem' = [mem EXCEPT ![e].paths = disk[4]] /\ disk[4] \in PathIndexes
    <3>1. at[e] + 1 = 4 /\ Names[4] = "paths" BY <1>7 DEF Names
    <3>2. mem' = [mem EXCEPT ![e]["paths"] = disk[4]] /\ disk[4] # Torn BY <3>1
    <3>3. QED BY <1>2, <3>2 DEF FilesThere
  <2>2. mem'[e] = [mem[e] EXCEPT !.paths = disk[4]] BY <1>3, <2>1
  <2>3. mem'[e] \in Memory BY <1>3, <2>1, <2>2 DEF Memory
  <2>4. Holds(mem[e], 3) => Holds(mem'[e], 4) BY <1>3, <2>2 DEF Holds, Memory
  <2>5. QED BY <1>3, <1>7, <2>1, <2>3, <2>4
<1>8. QED BY <1>2, <1>4, <1>5, <1>6, <1>7

LEMMA LoadInv ==
  ASSUME IInv, NEW e \in Engines, Load(e)
  PROVE  IInv'
<1>1. JobOK /\ MindOK /\ StoreOK /\ StoreWhole /\ \A o \in Engines : EngineInv(o) BY DEF IInv
<1>2. /\ pc[e] = "load" /\ FilesThere /\ at[e] \in 0 .. 3
      /\ UNCHANGED <<disk, by, patched>>
  BY <1>1 DEF Load, EngineInv, Progress, JobOK
<1>3. StoreOK' BY <1>1, <1>2 DEF StoreOK
<1>4. CASE /\ pc' = Set(pc, e, "scan") /\ at' = Set(at, e, 0)
           /\ torn' = Set(torn, e, at[e] + 1 > 1 \/ torn[e])
           /\ UNCHANGED <<mem, job, unaligned>>
  <2>1. UNCHANGED <<changed, todo, rows>> BY <1>4 DEF job
  <2>2. /\ pc' \in [Engines -> Steps] /\ pc'[e] = "scan" /\ \A o \in Engines \ {e} : pc'[o] = pc[o]
        /\ at' \in [Engines -> 0 .. 4] /\ at'[e] = 0 /\ \A o \in Engines \ {e} : at'[o] = at[o]
    BY <1>1, <1>4 DEF JobOK, Set, Steps
  <2>3. /\ torn' \in [Engines -> BOOLEAN] /\ \A o \in Engines \ {e} : torn'[o] = torn[o]
        /\ torn'[e] <=> (at[e] > 0 \/ torn[e])
    <3> DEFINE value == at[e] + 1 > 1 \/ torn[e]
    <3>1. value \in BOOLEAN /\ (value <=> (at[e] > 0 \/ torn[e])) BY <1>2
    <3> HIDE DEF value
    <3>2. torn' = [torn EXCEPT ![e] = value] BY <1>4 DEF Set, value
    <3>3. QED BY <1>1, <3>1, <3>2 DEF MindOK
  <2>4. JobOK' BY <1>1, <2>1, <2>2 DEF JobOK
  <2>5. MindOK' BY <1>1, <1>2, <1>4, <2>3 DEF MindOK
  <2>6. \A o \in Engines : pc'[o] = "load" => pc[o] = "load" BY <2>2
  <2>7. StoreWhole' BY <1>1, <1>2, <2>6, StoreStays
  <2>8. ASSUME NEW o \in Engines, o # e PROVE EngineInv(o)'
    <3>1. SameEngine(o) BY <1>2, <1>4, <2>1, <2>2, <2>3, <2>8 DEF SameEngine
    <3>2. QED BY <1>1, <1>2, <3>1, Untouched
  <2>9. EngineInv(e)'
    <3>1. Told(e)'
      <4>1. ~torn'[e] => at[e] = 0 /\ ~torn[e] BY <1>2, <2>3
      <4>2. QED BY <1>1, <1>2, <1>4, <4>1 DEF EngineInv, Told
    <3>2. Aligned(e)' /\ Reuses(e)' /\ Covers(e)' /\ Loads(e)' /\ Writes(e)' /\ Progress(e)'
      BY <2>2 DEF Aligned, Reuses, Covers, Loads, Writes, Progress
    <3>3. QED BY <3>1, <3>2 DEF EngineInv
  <2>10. QED BY <1>3, <2>4, <2>5, <2>7, <2>8, <2>9 DEF IInv
<1>5. CASE /\ disk[at[e] + 1] # Torn
           /\ mem' = [mem EXCEPT ![e][Names[at[e] + 1]] = disk[at[e] + 1]]
           /\ \/ at[e] + 1 < 4 /\ at' = Set(at, e, at[e] + 1) /\ UNCHANGED <<pc, job>>
              \/ at[e] + 1 = 4 /\ Complete(e)
           /\ torn' = Set(torn, e, patched # {} \/ (at[e] + 1 > 1 /\ torn[e]))
           /\ unaligned' = Set(unaligned, e, patched # {} \/ (at[e] + 1 > 1 /\ unaligned[e]))
  <2>1. /\ mem' \in [Engines -> Memory] /\ \A o \in Engines \ {e} : mem'[o] = mem[o]
        /\ Holds(mem[e], at[e]) => Holds(mem'[e], at[e] + 1)
    BY <1>2, <1>5, FieldLoaded
  <2>2. /\ torn' \in [Engines -> BOOLEAN] /\ \A o \in Engines \ {e} : torn'[o] = torn[o]
        /\ torn'[e] <=> patched # {} \/ (at[e] > 0 /\ torn[e])
    <3> DEFINE value == patched # {} \/ (at[e] + 1 > 1 /\ torn[e])
    <3>1. value \in BOOLEAN /\ (value <=> patched # {} \/ (at[e] > 0 /\ torn[e])) BY <1>2
    <3> HIDE DEF value
    <3>2. torn' = [torn EXCEPT ![e] = value] BY <1>5 DEF Set, value
    <3>3. QED BY <1>1, <3>1, <3>2 DEF MindOK
  <2>3. /\ unaligned' \in [Engines -> BOOLEAN]
        /\ \A o \in Engines \ {e} : unaligned'[o] = unaligned[o]
        /\ unaligned'[e] <=> patched # {} \/ (at[e] > 0 /\ unaligned[e])
    <3> DEFINE value == patched # {} \/ (at[e] + 1 > 1 /\ unaligned[e])
    <3>1. value \in BOOLEAN /\ (value <=> patched # {} \/ (at[e] > 0 /\ unaligned[e])) BY <1>2
    <3> HIDE DEF value
    <3>2. unaligned' = [unaligned EXCEPT ![e] = value] BY <1>5 DEF Set, value
    <3>3. QED BY <1>1, <3>1, <3>2 DEF MindOK
  <2>4. MindOK' BY <1>1, <1>2, <2>1, <2>2, <2>3 DEF MindOK
  <2>5. /\ JobOK' /\ \A o \in Engines \ {e} : SameJob(o)
        /\ \/ pc'[e] = "load" /\ at'[e] = at[e] + 1 /\ at[e] + 1 < 4
           \/ pc'[e] \in {"idle", "detect"} /\ at'[e] = 0 /\ at[e] + 1 = 4
    <3>1. CASE at[e] + 1 < 4 /\ at' = Set(at, e, at[e] + 1) /\ UNCHANGED <<pc, job>>
      <4>1. at' \in [Engines -> 0 .. 4] /\ at'[e] = at[e] + 1
            /\ \A o \in Engines \ {e} : at'[o] = at[o]
        BY <1>1, <1>2, <3>1 DEF JobOK, Set
      <4>2. QED BY <1>1, <1>2, <3>1, <4>1 DEF JobOK, SameJob, job
    <3>2. CASE at[e] + 1 = 4 /\ Complete(e)
      BY <1>1, <3>2, Completes
    <3>3. QED BY <1>5, <3>1, <3>2
  <2>6. \A o \in Engines : pc'[o] = "load" => pc[o] = "load" BY <1>2, <2>5 DEF SameJob
  <2>7. StoreWhole' BY <1>1, <1>2, <2>6, StoreStays
  <2>8. ASSUME NEW o \in Engines, o # e PROVE EngineInv(o)'
    <3>1. SameEngine(o) BY <1>2, <2>1, <2>2, <2>3, <2>5, <2>8 DEF SameEngine, SameJob
    <3>2. QED BY <1>1, <1>2, <3>1, Untouched
  <2>9. /\ torn'[e] <=> unaligned'[e]
        /\ patched = {} /\ ~torn'[e] => Holds(mem'[e], at[e] + 1)
    <3>1. at[e] > 0 => torn[e] <=> unaligned[e] BY <1>1, <1>2 DEF EngineInv, Loads
    <3>2. at[e] = 0 => Holds(mem[e], at[e]) BY DEF Holds
    <3>3. patched = {} /\ ~torn'[e] => Holds(mem[e], at[e])
      BY <1>1, <1>2, <2>2, <3>2 DEF EngineInv, Loads
    <3>4. QED BY <1>2, <2>1, <2>2, <2>3, <3>1, <3>3
  <2>10. ASSUME at[e] + 1 = 4, ~torn'[e]
         PROVE  /\ Tells(mem'[e]) /\ Matches(mem'[e].index, mem'[e].chunks)
                /\ disk[5] \in Embedders /\ MadeBy(mem'[e].index, disk[5])
    <3>1. patched = {} BY <2>2, <2>10
    <3>2. Snapshot BY <1>1, <1>2, <3>1 DEF StoreWhole
    <3>3. /\ mem'[e].index = disk[1] /\ mem'[e].chunks = disk[2]
          /\ mem'[e].manifest = disk[3] /\ mem'[e].paths = disk[4]
      BY <1>2, <2>9, <2>10, <3>1 DEF Holds
    <3>4. Tells(mem'[e]) BY <3>2, <3>3, TellsByFields DEF Snapshot, Stored
    <3>5. QED BY <3>2, <3>3, <3>4 DEF Snapshot
  <2>11. EngineInv(e)'
    <3>1. Told(e)' BY <1>2, <2>5, <2>10 DEF Told
    <3>2. Aligned(e)'
      <4>1. CASE pc'[e] = "load" BY <4>1 DEF Aligned
      <4>2. CASE at[e] + 1 = 4
        <5>1. pc'[e] # "persist" BY <2>5
        <5>2. QED BY <1>2, <2>9, <2>10, <4>2, <5>1 DEF Aligned
      <4>3. QED BY <2>5, <4>1, <4>2
    <3>3. Reuses(e)' /\ Covers(e)' /\ Writes(e)' BY <2>5 DEF Reuses, Covers, Writes
    <3>4. Loads(e)'
      <4>1. SUFFICES ASSUME pc'[e] = "load" PROVE Loads(e)' BY DEF Loads
      <4>2. at'[e] = at[e] + 1 BY <2>5, <4>1
      <4>3. Holds(mem'[e], at[e] + 1) => Holds(mem[e], at[e])' BY <1>2, <4>2 DEF Holds
      <4>4. QED BY <1>2, <2>9, <4>3 DEF Loads
    <3>5. Progress(e)' BY <1>2, <2>5 DEF Progress, FilesThere
    <3>6. QED BY <3>1, <3>2, <3>3, <3>4, <3>5 DEF EngineInv
  <2>12. QED BY <1>3, <2>4, <2>5, <2>7, <2>8, <2>11 DEF IInv
<1>6. QED BY <1>4, <1>5 DEF Load

LEMMA ScanInv ==
  ASSUME IInv, NEW e \in Engines, Scan(e)
  PROVE  IInv'
<1>1. JobOK /\ MindOK /\ StoreOK /\ StoreWhole /\ \A o \in Engines : EngineInv(o) BY DEF IInv
<1> DEFINE notes == SetToSeq({p \in Paths \ linked : ChunksOf(p, file[p]) # <<>>})
           all == FlattenSeq([i \in DOMAIN notes |-> ChunksOf(notes[i], file[notes[i]])])
           manifest == [p \in Paths |-> Found(p)]
           paths == [p \in Paths |-> IF Found(p) = None THEN 0 ELSE Pieces[file[p]]]
           n == [mem[e] EXCEPT !.chunks = all, !.manifest = manifest, !.paths = paths]
<1>2. /\ pc[e] = "scan" /\ mem' = [mem EXCEPT ![e].chunks = all, ![e].manifest = manifest,
                                              ![e].paths = paths]
      /\ rows' = Set(rows, e, <<>>) /\ pc' = Set(pc, e, "embed") /\ torn' = Set(torn, e, FALSE)
      /\ UNCHANGED <<disk, by, at, changed, todo, patched, unaligned>>
  BY DEF Scan
<1>3. at[e] = 0 BY <1>1, <1>2 DEF EngineInv, Progress
<1>4. /\ n.chunks = all /\ n.manifest = manifest /\ n.paths = paths
      /\ mem[e] \in Memory /\ n.index = mem[e].index
  <2>1. mem[e] \in Memory BY <1>1 DEF MindOK
  <2> HIDE DEF all, manifest, paths
  <2>2. QED BY <2>1 DEF Memory
<1>5. Tells(n) /\ all \in Seq(Chunk) /\ manifest \in Manifests /\ paths \in PathIndexes
  <2> HIDE DEF n
  <2>1. QED BY <1>4, ScannedTells DEF Manifests, PathIndexes
<1> HIDE DEF all, manifest, paths
<1>6. n \in Memory BY <1>4, <1>5 DEF Memory
<1>7. mem' \in [Engines -> Memory] /\ mem'[e] = n /\ \A o \in Engines \ {e} : mem'[o] = mem[o]
  <2>1. mem \in [Engines -> Memory] BY <1>1 DEF MindOK
  <2>2. mem' = [mem EXCEPT ![e] = n] BY <1>2, <2>1
  <2> HIDE DEF n
  <2>3. QED BY <1>6, <2>1, <2>2
<1> HIDE DEF n
<1>8. JobOK' /\ pc'[e] = "embed" /\ rows'[e] = <<>> /\ at'[e] = 0
      /\ \A o \in Engines \ {e} : SameJob(o)
  <2>1. pc' \in [Engines -> Steps] /\ pc'[e] = "embed" /\ \A o \in Engines \ {e} : pc'[o] = pc[o]
    BY <1>1, <1>2 DEF JobOK, Set, Steps
  <2>2. /\ rows' \in [Engines -> Seq(Chunk)] /\ rows'[e] = <<>>
        /\ \A o \in Engines \ {e} : rows'[o] = rows[o]
    <3>1. <<>> \in Seq(Chunk) OBVIOUS
    <3>2. QED BY <1>1, <1>2, <3>1 DEF JobOK, Set
  <2>3. QED BY <1>1, <1>2, <1>3, <2>1, <2>2 DEF JobOK, SameJob
<1>9. torn' \in [Engines -> BOOLEAN] /\ \A o \in Engines \ {e} : torn'[o] = torn[o]
  BY <1>1, <1>2 DEF MindOK, Set
<1>10. MindOK' /\ StoreOK' BY <1>1, <1>2, <1>7, <1>9 DEF MindOK, StoreOK
<1>11. StoreWhole'
  <2>1. \A o \in Engines : pc'[o] = "load" => pc[o] = "load" BY <1>8 DEF SameJob
  <2>2. QED BY <1>1, <1>2, <2>1, StoreStays
<1>12. ASSUME NEW o \in Engines, o # e PROVE EngineInv(o)'
  <2>1. SameEngine(o) BY <1>2, <1>7, <1>8, <1>9, <1>12 DEF SameEngine, SameJob
  <2>2. QED BY <1>1, <1>2, <2>1, Untouched
<1>13. EngineInv(e)'
  <2>1. Told(e)' BY <1>5, <1>7 DEF Told
  <2>2. Aligned(e)' /\ Reuses(e)' /\ Covers(e)' /\ Loads(e)' /\ Writes(e)' /\ Progress(e)'
    BY <1>8 DEF Aligned, Reuses, Covers, Loads, Writes, Progress
  <2>3. QED BY <2>1, <2>2 DEF EngineInv
<1>14. QED BY <1>8, <1>10, <1>11, <1>12, <1>13 DEF IInv

(* What the watcher hands on is paths. *)
WatchOK ==
  /\ due \subseteq Paths /\ pending \subseteq Paths
  /\ batch \in [Timers -> SUBSET Paths]
  /\ told \in [Engines -> SUBSET Paths]

LEMMA DetectInv ==
  ASSUME IInv, WatchOK, NEW e \in Engines, Detect(e)
  PROVE  IInv'
<1>1. JobOK /\ MindOK /\ StoreOK /\ StoreWhole /\ \A o \in Engines : EngineInv(o) BY DEF IInv
<1>2. pc[e] = "detect" /\ UNCHANGED <<disk, mem, by, patched, torn, unaligned>>
  BY DEF Detect, flags
<1>3. at[e] = 0 BY <1>1, <1>2 DEF EngineInv, Progress
<1>4. MindOK' /\ StoreOK' BY <1>1, <1>2 DEF MindOK, StoreOK
<1>5. CASE pc' = Set(pc, e, "scan") /\ UNCHANGED <<at, changed, todo, rows>>
  <2>1. JobOK' /\ pc'[e] = "scan" /\ \A o \in Engines \ {e} : SameJob(o)
    BY <1>1, <1>5 DEF JobOK, Set, Steps, SameJob
  <2>2. StoreWhole'
    <3>1. \A o \in Engines : pc'[o] = "load" => pc[o] = "load" BY <2>1 DEF SameJob
    <3>2. QED BY <1>1, <1>2, <3>1, StoreStays
  <2>3. ASSUME NEW o \in Engines, o # e PROVE EngineInv(o)'
    <3>1. SameEngine(o) BY <1>2, <2>1, <2>3 DEF SameEngine, SameJob
    <3>2. QED BY <1>1, <1>2, <3>1, Untouched
  <2>4. EngineInv(e)'
    <3>1. Told(e)' BY <1>1, <1>2, <2>1 DEF EngineInv, Told
    <3>2. Aligned(e)' /\ Reuses(e)' /\ Covers(e)' /\ Loads(e)' /\ Writes(e)' /\ Progress(e)'
      BY <1>3, <1>5, <2>1 DEF Aligned, Reuses, Covers, Loads, Writes, Progress
    <3>3. QED BY <3>1, <3>2 DEF EngineInv
  <2>5. QED BY <1>4, <2>1, <2>2, <2>3, <2>4 DEF IInv
<1>6. ASSUME NEW all \in SUBSET Paths, pc' = Set(pc, e, "apply"),
             changed' = Set(changed, e, all), todo' = Set(todo, e, all),
             rows' = Set(rows, e, ReusableRows(e)), UNCHANGED at
      PROVE  IInv'
  <2>1. mem[e] \in Memory /\ mem[e].chunks \in Seq(Chunk) BY <1>1 DEF MindOK, Memory
  <2>2. ReusableRows(e) \in Seq(Chunk)
    <3>1. <<>> \in Seq(Chunk) OBVIOUS
    <3>2. QED BY <2>1, <3>1 DEF ReusableRows
  <2>3. JobOK' /\ pc'[e] = "apply" /\ todo'[e] = all /\ changed'[e] = all
        /\ rows'[e] = ReusableRows(e) /\ \A o \in Engines \ {e} : SameJob(o)
    <3>1. pc' \in [Engines -> Steps] /\ pc'[e] = "apply" /\ \A o \in Engines \ {e} : pc'[o] = pc[o]
      BY <1>1, <1>6 DEF JobOK, Set, Steps
    <3>2. /\ changed' \in [Engines -> SUBSET Paths] /\ changed'[e] = all
          /\ \A o \in Engines \ {e} : changed'[o] = changed[o]
      BY <1>1, <1>6 DEF JobOK, Set
    <3>3. /\ todo' \in [Engines -> SUBSET Paths] /\ todo'[e] = all
          /\ \A o \in Engines \ {e} : todo'[o] = todo[o]
      BY <1>1, <1>6 DEF JobOK, Set
    <3>4. /\ rows' \in [Engines -> Seq(Chunk)] /\ rows'[e] = ReusableRows(e)
          /\ \A o \in Engines \ {e} : rows'[o] = rows[o]
      BY <1>1, <1>6, <2>2 DEF JobOK, Set
    <3>5. QED BY <1>1, <1>6, <3>1, <3>2, <3>3, <3>4 DEF JobOK, SameJob
  <2>4. StoreWhole'
    <3>1. \A o \in Engines : pc'[o] = "load" => pc[o] = "load" BY <2>3 DEF SameJob
    <3>2. QED BY <1>1, <1>2, <3>1, StoreStays
  <2>5. ASSUME NEW o \in Engines, o # e PROVE EngineInv(o)'
    <3>1. SameEngine(o) BY <1>2, <2>3, <2>5 DEF SameEngine, SameJob
    <3>2. QED BY <1>1, <1>2, <3>1, Untouched
  <2>6. EngineInv(e)'
    <3>1. Told(e)' BY <1>1, <1>2, <2>3 DEF EngineInv, Told
    <3>2. rows'[e] # <<>> =>
            /\ rows'[e] = mem[e].chunks /\ mem[e].index # None
            /\ Len(mem[e].index) = Len(mem[e].chunks) /\ disk[5] = by[e]
      BY <2>3 DEF ReusableRows
    <3>3. Reuses(e)'
      <4>1. SUFFICES ASSUME rows'[e] # <<>>
                     PROVE  /\ mem[e].index \in Seq(Vector) /\ Len(mem[e].index) = Len(rows'[e])
                            /\ ~unaligned[e] => /\ Matches(mem[e].index, rows'[e])
                                                /\ MadeBy(mem[e].index, by[e])
        BY <1>2 DEF Reuses, Matches, MadeBy
      <4>2. mem[e].index \in Seq(Vector) BY <2>1, <3>2, <4>1 DEF Memory
      <4>3. QED BY <1>1, <1>2, <3>2, <4>1, <4>2 DEF EngineInv, Aligned
    <3>4. Covers(e)'
      <4>1. SUFFICES ASSUME rows'[e] # <<>>, ~torn[e]
                     PROVE  /\ todo'[e] \subseteq changed'[e]
                            /\ \A i, j \in DOMAIN rows'[e] :
                                 Id(rows'[e][i]) = Id(rows'[e][j]) => i = j
                            /\ \A i \in DOMAIN mem[e].chunks :
                                 mem[e].chunks[i].path \notin changed'[e] =>
                                   \E j \in DOMAIN rows'[e] : rows'[e][j] = mem[e].chunks[i]
        BY <1>2 DEF Covers, Id
      <4>2. Tells(mem[e]) BY <1>1, <1>2, <4>1 DEF EngineInv, Told
      <4>3. \A i, j \in DOMAIN mem[e].chunks : Id(mem[e].chunks[i]) = Id(mem[e].chunks[j]) => i = j
        BY <2>1, <4>2, IdsAreUnique
      <4>4. QED BY <2>3, <3>2, <4>1, <4>3
    <3>5. Aligned(e)' /\ Loads(e)' /\ Writes(e)' /\ Progress(e)'
      BY <1>3, <1>6, <2>3 DEF Aligned, Loads, Writes, Progress
    <3>6. QED BY <3>1, <3>3, <3>4, <3>5 DEF EngineInv
  <2>7. QED BY <1>4, <2>3, <2>4, <2>5, <2>6 DEF IInv
<1>7. CASE Finish(e)
  <2>1. /\ JobOK' /\ pc'[e] = "idle" /\ at'[e] = 0
        /\ \A o \in Engines \ {e} : SameJob(o)
    BY <1>1, <1>7, Finishes
  <2>2. StoreWhole'
    <3>1. \A o \in Engines : pc'[o] = "load" => pc[o] = "load" BY <2>1 DEF SameJob
    <3>2. QED BY <1>1, <1>2, <3>1, StoreStays
  <2>3. ASSUME NEW o \in Engines, o # e PROVE EngineInv(o)'
    <3>1. SameEngine(o) BY <1>2, <2>1, <2>3 DEF SameEngine, SameJob
    <3>2. QED BY <1>1, <1>2, <3>1, Untouched
  <2>4. EngineInv(e)'
    <3>1. Told(e)' BY <1>1, <1>2, <2>1 DEF EngineInv, Told
    <3>2. Aligned(e)' BY <1>1, <1>2, <2>1 DEF EngineInv, Aligned
    <3>3. Reuses(e)' /\ Covers(e)' /\ Loads(e)' /\ Writes(e)' /\ Progress(e)'
      BY <2>1 DEF Reuses, Covers, Loads, Writes, Progress
    <3>4. QED BY <3>1, <3>2, <3>3 DEF EngineInv
  <2>5. QED BY <1>4, <2>1, <2>2, <2>3, <2>4 DEF IInv
<1>8. QED
  <2> DEFINE updates == IF told[e] = {} THEN DetectedUpdates(e) ELSE ToldUpdates(e)
             all == updates.modify \cup updates.delete
  <2>1. all \in SUBSET Paths
    <3>1. told[e] \subseteq Paths BY DEF WatchOK
    <3>2. QED BY <3>1 DEF DetectedUpdates, ToldUpdates
  <2>2. \/ pc' = Set(pc, e, "scan") /\ UNCHANGED <<at, changed, todo, rows>>
        \/ /\ pc' = Set(pc, e, "apply") /\ changed' = Set(changed, e, all)
           /\ todo' = Set(todo, e, all) /\ rows' = Set(rows, e, ReusableRows(e)) /\ UNCHANGED at
        \/ Finish(e)
    BY DEF Detect
  <2> HIDE DEF all
  <2>3. QED BY <1>5, <1>6, <1>7, <2>1, <2>2

LEMMA ApplyInv ==
  ASSUME IInv, NEW e \in Engines, NEW p \in Paths, Apply(e, p)
  PROVE  IInv'
<1>1. JobOK /\ MindOK /\ StoreOK /\ StoreWhole /\ \A o \in Engines : EngineInv(o) BY DEF IInv
<1> DEFINE m == mem[e]
           new == IF p \in gone[e] \/ p \in linked THEN <<>> ELSE ChunksOf(p, file[p])
           text == IF new = <<>> THEN None ELSE file[p]
           all == Without(m.chunks, Ids(p, m.paths[p])) \o new
           manifest == [m.manifest EXCEPT ![p] = text]
           paths == [m.paths EXCEPT ![p] = Len(new)]
           n == [m EXCEPT !.chunks = all, !.manifest = manifest, !.paths = paths]
<1>2. /\ pc[e] = "apply" /\ p \in todo[e] /\ todo' = Set(todo, e, todo[e] \ {p})
      /\ mem' = [mem EXCEPT ![e].chunks = all, ![e].manifest[p] = text, ![e].paths[p] = Len(new)]
      /\ pc' = IF todo'[e] = {} THEN Set(pc, e, "embed") ELSE pc
      /\ UNCHANGED <<disk, by, at, changed, rows, patched, torn, unaligned>>
  BY DEF Apply, flags
<1>3. at[e] = 0 BY <1>1, <1>2 DEF EngineInv, Progress
<1>4. text \in Texts \cup {None} /\ ChunksOf(p, text) = new
  BY ChunksOfIt, NamesAssumption
<1>5. new \in Seq(Chunk)
  BY <1>4, ChunksOfIt
<1>6. m \in Memory /\ m.chunks \in Seq(Chunk) /\ m.manifest \in Manifests /\ m.paths \in PathIndexes
  BY <1>1 DEF MindOK, Memory
<1> HIDE DEF new, text
<1>7. all \in Seq(Chunk) /\ manifest \in Manifests /\ paths \in PathIndexes
  <2>1. Without(m.chunks, Ids(p, m.paths[p])) \in Seq(Chunk) BY <1>6, LeftWithout
  <2>2. all \in Seq(Chunk) BY <1>5, <2>1
  <2>3. Len(new) \in Nat BY <1>5
  <2>4. manifest \in Manifests BY <1>4, <1>6 DEF Manifests
  <2>5. paths \in PathIndexes BY <1>6, <2>3 DEF PathIndexes
  <2>6. QED BY <2>2, <2>4, <2>5
<1>8. n.chunks = all /\ n.manifest = manifest /\ n.paths = paths /\ n.index = m.index
  <2> HIDE DEF all, manifest, paths, m
  <2>1. QED BY <1>6 DEF Memory
<1>9. mem' = [mem EXCEPT ![e] = n]
  <2>1. mem \in [Engines -> Memory] BY <1>1 DEF MindOK
  <2> HIDE DEF all
  <2>2. QED BY <1>2, <2>1 DEF Memory
<1>10. ~torn[e] => Tells(n) /\ GainsOnly(m, p, n)
  <2> SUFFICES ASSUME ~torn[e] PROVE Tells(n) /\ GainsOnly(m, p, n) OBVIOUS
  <2>1. Tells(m) BY <1>1, <1>2 DEF EngineInv, Told
  <2>2. /\ n.chunks = Without(m.chunks, Ids(p, m.paths[p])) \o ChunksOf(p, text)
        /\ n.manifest = [m.manifest EXCEPT ![p] = text]
        /\ n.paths = [m.paths EXCEPT ![p] = Len(ChunksOf(p, text))]
    BY <1>4, <1>8
  <2>3. m.manifest \in [Paths -> Texts \cup {None}] /\ m.paths \in [Paths -> Nat]
    BY <1>6 DEF Manifests, PathIndexes
  <2> HIDE DEF n, m
  <2>4. Updated(m, p, text, n) BY <1>6, <2>1, <2>2, <2>3 DEF Updated
  <2>5. QED BY <2>4, UpdatedTells
<1> HIDE DEF all, manifest, paths
<1>11. n \in Memory BY <1>6, <1>7, <1>8 DEF Memory
<1>12. mem' \in [Engines -> Memory] /\ mem'[e] = n /\ \A o \in Engines \ {e} : mem'[o] = mem[o]
  <2>1. mem \in [Engines -> Memory] BY <1>1 DEF MindOK
  <2> HIDE DEF n
  <2>2. QED BY <1>9, <1>11, <2>1
<1> HIDE DEF n, m
<1>13. /\ todo' \in [Engines -> SUBSET Paths] /\ todo'[e] = todo[e] \ {p}
       /\ \A o \in Engines \ {e} : todo'[o] = todo[o]
  BY <1>1, <1>2 DEF JobOK, Set
<1>14. /\ pc' \in [Engines -> Steps] /\ pc'[e] \in {"apply", "embed"}
       /\ \A o \in Engines \ {e} : pc'[o] = pc[o]
  BY <1>1, <1>2 DEF JobOK, Set, Steps
<1>15. JobOK' /\ \A o \in Engines \ {e} : SameJob(o)
  BY <1>1, <1>2, <1>13, <1>14 DEF JobOK, SameJob
<1>16. MindOK' /\ StoreOK' BY <1>1, <1>2, <1>12 DEF MindOK, StoreOK
<1>17. StoreWhole'
  <2>1. \A o \in Engines : pc'[o] = "load" => pc[o] = "load" BY <1>14
  <2>2. QED BY <1>1, <1>2, <2>1, StoreStays
<1>18. ASSUME NEW o \in Engines, o # e PROVE EngineInv(o)'
  <2>1. SameEngine(o) BY <1>2, <1>12, <1>15, <1>18 DEF SameEngine, SameJob
  <2>2. QED BY <1>1, <1>2, <2>1, Untouched
<1>19. EngineInv(e)'
  <2>1. Told(e)' BY <1>2, <1>10, <1>12 DEF Told
  <2>2. Aligned(e)' /\ Loads(e)' /\ Writes(e)' /\ Progress(e)'
    BY <1>2, <1>3, <1>14 DEF Aligned, Loads, Writes, Progress
  <2>3. Reuses(e)'
    <3>1. Reuses(e) BY <1>1 DEF EngineInv
    <3>2. QED BY <1>2, <1>8, <1>12, <3>1 DEF Reuses, m
  <2>4. Covers(e)'
    <3>1. CASE rows[e] = <<>> \/ torn[e] BY <1>2, <3>1 DEF Covers
    <3>2. CASE rows[e] # <<>> /\ ~torn[e]
      <4>1. /\ todo[e] \subseteq changed[e]
            /\ \A i, j \in DOMAIN rows[e] : Id(rows[e][i]) = Id(rows[e][j]) => i = j
            /\ \A i \in DOMAIN m.chunks : m.chunks[i].path \notin changed[e] =>
                 \E j \in DOMAIN rows[e] : rows[e][j] = m.chunks[i]
        BY <1>1, <1>2, <3>2 DEF EngineInv, Covers, m
      <4>2. todo'[e] \subseteq changed[e] /\ p \in changed[e] BY <1>2, <1>13, <4>1
      <4>3. \A i \in DOMAIN n.chunks : n.chunks[i].path \notin changed[e] =>
              \E j \in DOMAIN rows[e] : rows[e][j] = n.chunks[i]
        BY <1>10, <3>2, <4>1, <4>2 DEF GainsOnly
      <4>4. rows' = rows /\ changed' = changed BY <1>2
      <4> QED
        <5> DEFINE R == rows[e]
                   C == changed[e]
        <5>1. /\ todo'[e] \subseteq C
              /\ \A i, j \in DOMAIN R : Id(R[i]) = Id(R[j]) => i = j
              /\ \A i \in DOMAIN mem'[e].chunks : mem'[e].chunks[i].path \notin C =>
                   \E j \in DOMAIN R : R[j] = mem'[e].chunks[i]
          BY <1>12, <4>1, <4>2, <4>3
        <5>2. rows'[e] = R /\ changed'[e] = C BY <4>4
        <5> HIDE DEF R, C
        <5>3. QED BY <5>1, <5>2 DEF Covers, Id
    <3>3. QED BY <3>1, <3>2
  <2>5. QED BY <2>1, <2>2, <2>3, <2>4 DEF EngineInv
<1>20. QED BY <1>15, <1>16, <1>17, <1>18, <1>19 DEF IInv

(* The row an id is found at is one of those that have it. *)
LEMMA RowIsThere ==
  ASSUME NEW e \in Engines, rows[e] \in Seq(Chunk), NEW c, Keeps(e, c)
  PROVE  /\ RowOf(e, c) \in DOMAIN rows[e] /\ Id(rows[e][RowOf(e, c)]) = Id(c)
         /\ rows[e] # <<>> /\ c.path \notin changed[e]
<1> DEFINE T == {i \in DOMAIN rows[e] : Id(rows[e][i]) = Id(c)}
<1>1. T # {} /\ rows[e] # <<>> /\ c.path \notin changed[e] BY DEF Keeps
<1>2. Len(rows[e]) \in Nat /\ T \in SUBSET (0 .. Len(rows[e])) OBVIOUS
<1>3. RowOf(e, c) = Max(T) BY DEF RowOf
<1>4. Max(T) \in T
  <2> HIDE DEF T
  <2>1. QED BY <1>1, <1>2, MaxIsOneOf
<1>5. QED BY <1>1, <1>3, <1>4

LEMMA EmbedInv ==
  ASSUME IInv, NEW e \in Engines, Embed(e)
  PROVE  IInv'
<1>1. JobOK /\ MindOK /\ StoreOK /\ StoreWhole /\ \A o \in Engines : EngineInv(o) BY DEF IInv
<1> DEFINE chunks == mem[e].chunks
           V(c) == IF Keeps(e, c) THEN mem[e].index[RowOf(e, c)] ELSE [of |-> c, by |-> by[e]]
           vectors == [i \in DOMAIN chunks |-> V(chunks[i])]
           index == IF chunks = <<>> THEN None ELSE vectors
           flag == rows[e] # <<>> /\ (unaligned[e] \/ torn[e])
           n == [mem[e] EXCEPT !.index = index]
<1>2. /\ pc[e] = "embed" /\ mem' = [mem EXCEPT ![e].index = index]
      /\ pc' = Set(pc, e, "persist") /\ unaligned' = Set(unaligned, e, flag)
      /\ UNCHANGED <<disk, by, at, changed, todo, rows, patched, torn>>
  BY DEF Embed, job
<1>3. at[e] = 0 /\ EngineInv(e) BY <1>1, <1>2 DEF EngineInv, Progress
<1>4. /\ mem[e] \in Memory /\ chunks \in Seq(Chunk) /\ rows[e] \in Seq(Chunk)
      /\ by[e] \in Embedders
  BY <1>1 DEF MindOK, JobOK, Memory
<1>5. ASSUME NEW c \in Chunk PROVE V(c) \in Vector
  <2>1. CASE Keeps(e, c)
    <3>1. RowOf(e, c) \in DOMAIN rows[e] /\ rows[e] # <<>> BY <1>4, <2>1, RowIsThere
    <3>2. mem[e].index \in Seq(Vector) /\ Len(mem[e].index) = Len(rows[e])
      BY <1>2, <1>3, <3>1 DEF EngineInv, Reuses
    <3>3. RowOf(e, c) \in DOMAIN mem[e].index BY <1>4, <3>1, <3>2
    <3>4. mem[e].index[RowOf(e, c)] \in Vector BY <3>2, <3>3
    <3>5. QED BY <2>1, <3>4
  <2>2. CASE ~Keeps(e, c) BY <1>4, <2>2 DEF Vector
  <2>3. QED BY <2>1, <2>2
<1>6. ASSUME NEW c \in Chunk, NEW i \in DOMAIN chunks, chunks[i] = c, ~flag
      PROVE  V(c).of = c /\ V(c).by = by[e]
  <2>1. CASE Keeps(e, c)
    <3>1. /\ RowOf(e, c) \in DOMAIN rows[e] /\ rows[e] # <<>> /\ c.path \notin changed[e]
          /\ Id(rows[e][RowOf(e, c)]) = Id(c)
      BY <1>4, <2>1, RowIsThere
    <3>2. ~unaligned[e] /\ ~torn[e] BY <1>6, <3>1
    <3>3. Covers(e) /\ Reuses(e) BY <1>3 DEF EngineInv
    <3>4. \E j \in DOMAIN rows[e] : rows[e][j] = c
      BY <1>2, <1>6, <3>1, <3>2, <3>3 DEF Covers
    <3>5. \A j, k \in DOMAIN rows[e] : Id(rows[e][j]) = Id(rows[e][k]) => j = k
      BY <1>2, <3>1, <3>2, <3>3 DEF Covers
    <3>6. rows[e][RowOf(e, c)] = c BY <3>1, <3>4, <3>5
    <3>7. Matches(mem[e].index, rows[e]) /\ MadeBy(mem[e].index, by[e])
      BY <1>2, <3>1, <3>2, <3>3 DEF Reuses
    <3>8. RowOf(e, c) \in DOMAIN mem[e].index
      <4>1. mem[e].index \in Seq(Vector) /\ Len(mem[e].index) = Len(rows[e])
        BY <1>2, <3>1, <3>3 DEF Reuses
      <4>2. QED BY <1>4, <3>1, <4>1
    <3>9. mem[e].index[RowOf(e, c)].of = c /\ mem[e].index[RowOf(e, c)].by = by[e]
      BY <3>1, <3>6, <3>7, <3>8 DEF Matches, MadeBy
    <3>10. QED BY <2>1, <3>9
  <2>2. CASE ~Keeps(e, c) BY <2>2
  <2>3. QED BY <2>1, <2>2
<1>7. flag \in BOOLEAN BY <1>1 DEF MindOK
<1> HIDE DEF V, flag
<1>8. vectors \in Seq(Vector) /\ Len(vectors) = Len(chunks) /\ DOMAIN vectors = DOMAIN chunks
  <2>1. DOMAIN chunks = 1 .. Len(chunks) /\ Len(chunks) \in Nat
        /\ \A i \in DOMAIN chunks : chunks[i] \in Chunk
    BY <1>4
  <2> HIDE DEF chunks
  <2>2. vectors \in [1 .. Len(chunks) -> Vector] BY <1>5, <2>1
  <2>3. QED BY <2>1, <2>2
<1>9. ~flag => Matches(vectors, chunks) /\ MadeBy(vectors, by[e])
  <2> SUFFICES ASSUME ~flag PROVE Matches(vectors, chunks) /\ MadeBy(vectors, by[e]) OBVIOUS
  <2>1. \A i \in DOMAIN chunks : chunks[i] \in Chunk BY <1>4
  <2>2. \A i \in DOMAIN chunks : vectors[i].of = chunks[i] /\ vectors[i].by = by[e]
    BY <1>6, <2>1
  <2> HIDE DEF vectors
  <2>3. QED BY <1>8, <2>2 DEF Matches, MadeBy
<1> HIDE DEF vectors
<1>10. index \in {None} \cup Seq(Vector) BY <1>8
<1>11. n \in Memory /\ n.index = index /\ n.chunks = chunks
       /\ n.manifest = mem[e].manifest /\ n.paths = mem[e].paths
  <2> HIDE DEF index
  <2>1. QED BY <1>4, <1>10 DEF Memory
<1>12. mem' \in [Engines -> Memory] /\ mem'[e] = n /\ \A o \in Engines \ {e} : mem'[o] = mem[o]
  <2>1. mem \in [Engines -> Memory] BY <1>1 DEF MindOK
  <2>2. mem' = [mem EXCEPT ![e] = n] BY <1>2, <2>1
  <2> HIDE DEF n
  <2>3. QED BY <1>11, <2>1, <2>2
<1> HIDE DEF n
<1>13. /\ pc' \in [Engines -> Steps] /\ pc'[e] = "persist"
       /\ \A o \in Engines \ {e} : pc'[o] = pc[o]
  BY <1>1, <1>2 DEF JobOK, Set, Steps
<1>14. /\ unaligned' \in [Engines -> BOOLEAN] /\ (unaligned'[e] <=> flag)
       /\ \A o \in Engines \ {e} : unaligned'[o] = unaligned[o]
  BY <1>1, <1>2, <1>7 DEF MindOK, Set
<1>15. JobOK' /\ \A o \in Engines \ {e} : SameJob(o) BY <1>1, <1>2, <1>13 DEF JobOK, SameJob
<1>16. MindOK' /\ StoreOK' BY <1>1, <1>2, <1>12, <1>14 DEF MindOK, StoreOK
<1>17. StoreWhole'
  <2>1. \A o \in Engines : pc'[o] = "load" => pc[o] = "load" BY <1>13
  <2>2. QED BY <1>1, <1>2, <2>1, StoreStays
<1>18. ASSUME NEW o \in Engines, o # e PROVE EngineInv(o)'
  <2>1. SameEngine(o) BY <1>2, <1>12, <1>14, <1>15, <1>18 DEF SameEngine, SameJob
  <2>2. QED BY <1>1, <1>2, <2>1, Untouched
<1>19. EngineInv(e)'
  <2>1. Told(e)'
    <3>1. Tells(n) <=> Tells(mem[e]) BY <1>11, TellsByFields
    <3>2. QED BY <1>2, <1>3, <1>12, <3>1 DEF EngineInv, Told
  <2>2. Aligned(e)'
    <3>1. CASE unaligned'[e] \/ mem'[e].index = None BY <3>1 DEF Aligned
    <3>2. CASE ~unaligned'[e] /\ mem'[e].index # None
      <4>1. mem'[e].index = vectors /\ mem'[e].chunks = chunks BY <1>11, <1>12, <3>2
      <4>2. Matches(mem'[e].index, mem'[e].chunks) /\ MadeBy(mem'[e].index, by[e])
        BY <1>9, <1>14, <3>2, <4>1
      <4>3. by'[e] = by[e] BY <1>2
      <4>4. QED BY <1>4, <4>2, <4>3 DEF Aligned, Matches, MadeBy
    <3>3. QED BY <3>1, <3>2
  <2>3. Reuses(e)' /\ Covers(e)' /\ Loads(e)' /\ Writes(e)' /\ Progress(e)'
    BY <1>2, <1>3, <1>13 DEF Reuses, Covers, Loads, Writes, Progress
  <2>4. QED BY <2>1, <2>2, <2>3 DEF EngineInv
<1>20. QED BY <1>15, <1>16, <1>17, <1>18, <1>19 DEF IInv

(* One file is written over from memory. *)
LEMMA FileWritten ==
  ASSUME IInv, NEW e \in Engines, mem[e].index # None,
         disk' = [disk EXCEPT ![at[e] + 1] =
                    IF at[e] + 1 = 5 THEN by[e] ELSE mem[e][Names[at[e] + 1]]]
  PROVE  /\ DOMAIN disk' = 1 .. 5
         /\ disk'[1] \in {None, Torn} \cup Seq(Vector)
         /\ disk'[2] \in {None, Torn} \cup Seq(Chunk)
         /\ disk'[3] \in {None, Torn} \cup Manifests
         /\ disk'[4] \in {None, Torn} \cup PathIndexes
         /\ disk'[5] \in {None, Torn} \cup Embedders
         /\ FilesThere => FilesThere'
         /\ \A k \in 1 .. 5 : k # at[e] + 1 => disk'[k] = disk[k]
         /\ at[e] = 0 => disk'[1] = mem[e].index
         /\ at[e] = 1 => disk'[2] = mem[e].chunks
         /\ at[e] = 2 => disk'[3] = mem[e].manifest
         /\ at[e] = 3 => disk'[4] = mem[e].paths
         /\ at[e] = 4 => disk'[5] = by[e]
<1>1. StoreOK /\ at[e] \in 0 .. 4 /\ mem[e] \in Memory /\ by[e] \in Embedders
  BY DEF IInv, JobOK, MindOK
<1>2. /\ mem[e].index \in Seq(Vector) /\ mem[e].chunks \in Seq(Chunk)
      /\ mem[e].manifest \in Manifests /\ mem[e].paths \in PathIndexes
  BY <1>1 DEF Memory
<1>3. DOMAIN disk = 1 .. 5 BY <1>1 DEF StoreOK
<1>4. DOMAIN disk' = 1 .. 5 /\ \A k \in 1 .. 5 : k # at[e] + 1 => disk'[k] = disk[k]
  BY <1>1, <1>3
<1>5. /\ at[e] = 0 => disk'[1] = mem[e].index
      /\ at[e] = 1 => disk'[2] = mem[e].chunks
      /\ at[e] = 2 => disk'[3] = mem[e].manifest
      /\ at[e] = 3 => disk'[4] = mem[e].paths
      /\ at[e] = 4 => disk'[5] = by[e]
  <2>1. CASE at[e] = 0
    <3>1. disk'[1] = mem[e][Names[1]] BY <1>3, <2>1
    <3>2. QED BY <2>1, <3>1 DEF Names
  <2>2. CASE at[e] = 1
    <3>1. disk'[2] = mem[e][Names[2]] BY <1>3, <2>2
    <3>2. QED BY <2>2, <3>1 DEF Names
  <2>3. CASE at[e] = 2
    <3>1. disk'[3] = mem[e][Names[3]] BY <1>3, <2>3
    <3>2. QED BY <2>3, <3>1 DEF Names
  <2>4. CASE at[e] = 3
    <3>1. disk'[4] = mem[e][Names[4]] BY <1>3, <2>4
    <3>2. QED BY <2>4, <3>1 DEF Names
  <2>5. CASE at[e] = 4
    <3>1. disk'[5] = by[e] BY <1>3, <2>5
    <3>2. QED BY <2>5, <3>1
  <2>6. QED BY <1>1, <2>1, <2>2, <2>3, <2>4, <2>5
<1>6. /\ disk'[1] = disk[1] \/ disk'[1] \in Seq(Vector)
      /\ disk'[2] = disk[2] \/ disk'[2] \in Seq(Chunk)
      /\ disk'[3] = disk[3] \/ disk'[3] \in Manifests
      /\ disk'[4] = disk[4] \/ disk'[4] \in PathIndexes
      /\ disk'[5] = disk[5] \/ disk'[5] \in Embedders
  <2>1. /\ at[e] # 0 => disk'[1] = disk[1] BY <1>1, <1>4
  <2>2. /\ at[e] # 1 => disk'[2] = disk[2] BY <1>1, <1>4
  <2>3. /\ at[e] # 2 => disk'[3] = disk[3] BY <1>1, <1>4
  <2>4. /\ at[e] # 3 => disk'[4] = disk[4] BY <1>1, <1>4
  <2>5. /\ at[e] # 4 => disk'[5] = disk[5] BY <1>1, <1>4
  <2>6. QED BY <1>1, <1>2, <1>5, <2>1, <2>2, <2>3, <2>4, <2>5
<1>7. FilesThere => FilesThere' BY <1>6 DEF FilesThere
<1>8. /\ disk'[1] \in {None, Torn} \cup Seq(Vector)
      /\ disk'[2] \in {None, Torn} \cup Seq(Chunk)
      /\ disk'[3] \in {None, Torn} \cup Manifests
      /\ disk'[4] \in {None, Torn} \cup PathIndexes
      /\ disk'[5] \in {None, Torn} \cup Embedders
  BY <1>1, <1>6 DEF StoreOK
<1>9. QED BY <1>4, <1>5, <1>7, <1>8

LEMMA PersistInv ==
  ASSUME IInv, NEW e \in Engines, Persist(e)
  PROVE  IInv'
<1>1. JobOK /\ MindOK /\ StoreOK /\ StoreWhole /\ \A o \in Engines : EngineInv(o) BY DEF IInv
<1> DEFINE whole == patched \subseteq {e} /\ ~torn[e] /\ ~unaligned[e]
           reads == {o \in Engines \ {e} : pc[o] = "load"}
           holds == {o \in Engines \ {e} : by[o] = by[e] /\ mem[o].index # None
                       /\ \E k \in DOMAIN mem[o].index : mem[o].index[k].by # by[o]}
           mistaken == IF at[e] + 1 = 5 THEN reads \cup holds ELSE reads
<1>2. /\ pc[e] = "persist" /\ mem[e].index # None
      /\ disk' = [disk EXCEPT ![at[e] + 1] =
                    IF at[e] + 1 = 5 THEN by[e] ELSE mem[e][Names[at[e] + 1]]]
      /\ \/ at[e] + 1 < 5 /\ at' = Set(at, e, at[e] + 1) /\ UNCHANGED <<pc, job>>
         \/ at[e] + 1 = 5 /\ Complete(e)
      /\ patched' = IF at[e] + 1 = 5 /\ whole THEN patched \ {e} ELSE patched \cup {e}
      /\ torn' = [o \in Engines |-> torn[o] \/ o \in reads]
      /\ unaligned' = [o \in Engines |-> unaligned[o] \/ o \in mistaken]
      /\ UNCHANGED <<mem, by>>
  BY DEF Persist
<1>3. at[e] \in 0 .. 4 /\ EngineInv(e) /\ by[e] \in Embedders BY <1>1 DEF JobOK, MindOK
<1>4. /\ \A k \in 1 .. 5 : k # at[e] + 1 => disk'[k] = disk[k]
      /\ at[e] = 0 => disk'[1] = mem[e].index
      /\ at[e] = 1 => disk'[2] = mem[e].chunks
      /\ at[e] = 2 => disk'[3] = mem[e].manifest
      /\ at[e] = 3 => disk'[4] = mem[e].paths
      /\ at[e] = 4 => disk'[5] = by[e]
      /\ FilesThere => FilesThere'
  BY <1>2, FileWritten
<1>5. StoreOK'
  <2>1. patched' \subseteq Engines BY <1>1, <1>2 DEF StoreOK
  <2>2. QED BY <1>2, <2>1, FileWritten DEF StoreOK
<1>6. /\ JobOK' /\ \A o \in Engines \ {e} : SameJob(o)
      /\ \/ at[e] < 4 /\ pc'[e] = "persist" /\ at'[e] = at[e] + 1
         \/ at[e] = 4 /\ pc'[e] \in {"idle", "detect"} /\ at'[e] = 0
  <2>1. CASE at[e] + 1 < 5 /\ at' = Set(at, e, at[e] + 1) /\ UNCHANGED <<pc, job>>
    <3>1. at' \in [Engines -> 0 .. 4] /\ at'[e] = at[e] + 1
          /\ \A o \in Engines \ {e} : at'[o] = at[o]
      BY <1>1, <1>3, <2>1 DEF JobOK, Set
    <3>2. QED BY <1>1, <1>2, <1>3, <2>1, <3>1 DEF JobOK, SameJob, job
  <2>2. CASE at[e] + 1 = 5 /\ Complete(e)
    <3>1. at[e] = 4 BY <1>3, <2>2
    <3>2. QED BY <1>1, <2>2, <3>1, Completes
  <2>3. QED BY <1>2, <2>1, <2>2
<1>7. MindOK'
  <2>1. torn' \in [Engines -> BOOLEAN]
    <3> HIDE DEF reads
    <3>1. \A o \in Engines : (torn[o] \/ o \in reads) \in BOOLEAN OBVIOUS
    <3>2. QED BY <1>2, <3>1
  <2>2. unaligned' \in [Engines -> BOOLEAN]
    <3> HIDE DEF mistaken
    <3>1. \A o \in Engines : (unaligned[o] \/ o \in mistaken) \in BOOLEAN OBVIOUS
    <3>2. QED BY <1>2, <3>1
  <2>3. QED BY <1>1, <1>2, <2>1, <2>2 DEF MindOK
<1>8. /\ torn'[e] = torn[e] /\ unaligned'[e] = unaligned[e]
  <2>1. e \notin reads /\ e \notin mistaken OBVIOUS
  <2>2. torn[e] \in BOOLEAN /\ unaligned[e] \in BOOLEAN BY <1>1 DEF MindOK
  <2> HIDE DEF reads, mistaken
  <2>3. (torn'[e] <=> torn[e]) /\ (unaligned'[e] <=> unaligned[e]) BY <1>2, <2>1
  <2>4. torn'[e] \in BOOLEAN /\ unaligned'[e] \in BOOLEAN BY <1>7 DEF MindOK
  <2>5. QED BY <2>2, <2>3, <2>4
<1>9. at[e] < 4 /\ Holds(mem[e], at[e]) =>
        /\ mem[e].index = disk'[1]
        /\ at[e] + 1 > 1 => mem[e].chunks = disk'[2]
        /\ at[e] + 1 > 2 => mem[e].manifest = disk'[3]
        /\ at[e] + 1 > 3 => mem[e].paths = disk'[4]
  BY <1>3, <1>4 DEF Holds
<1>10. EngineInv(e)'
  <2>1. Told(e)' BY <1>2, <1>3, <1>6, <1>8 DEF EngineInv, Told
  <2>2. Aligned(e)'
    <3>1. Aligned(e) BY <1>3 DEF EngineInv
    <3>2. QED BY <1>2, <1>3, <1>8, <3>1 DEF Aligned
  <2>3. Reuses(e)' /\ Covers(e)' /\ Loads(e)' /\ Progress(e)'
    BY <1>6 DEF Reuses, Covers, Loads, Progress
  <2>4. Writes(e)'
    <3>1. CASE at[e] = 4 BY <1>6, <3>1 DEF Writes
    <3>2. CASE at[e] < 4
      <4>1. e \in patched' /\ (patched' = {e} => patched \subseteq {e}) BY <1>2, <1>3, <3>2
      <4>2. patched' = {e} => Holds(mem[e], at[e])
        <5>1. at[e] = 0 => Holds(mem[e], at[e]) BY DEF Holds
        <5>2. QED BY <1>2, <1>3, <4>1, <5>1 DEF EngineInv, Writes
      <4>3. at'[e] = at[e] + 1 /\ mem'[e] = mem[e] BY <1>2, <1>6, <3>2
      <4>4. patched' = {e} => Holds(mem[e], at[e])' BY <1>3, <1>9, <3>2, <4>2, <4>3 DEF Holds
      <4>5. QED BY <4>1, <4>4 DEF Writes
    <3>3. QED BY <1>3, <3>1, <3>2
  <2>5. QED BY <2>1, <2>2, <2>3, <2>4 DEF EngineInv
<1>11. ASSUME NEW o \in Engines, o # e PROVE EngineInv(o)'
  <2>1. SameJob(o) /\ mem'[o] = mem[o] /\ by'[o] = by[o] /\ EngineInv(o)
    BY <1>1, <1>2, <1>6, <1>11
  <2>2. /\ torn'[o] <=> torn[o] \/ pc[o] = "load"
        /\ ~unaligned'[o] => ~unaligned[o]
        /\ pc[o] = "load" => unaligned'[o]
        /\ at[e] = 4 /\ ~unaligned'[o] /\ by[o] = by[e] /\ mem[o].index # None =>
             MadeBy(mem[o].index, by[o])
    <3>1. o \in reads <=> pc[o] = "load" BY <1>11
    <3>2. o \in reads => o \in mistaken OBVIOUS
    <3>3. at[e] = 4 /\ o \notin mistaken /\ by[o] = by[e] /\ mem[o].index # None =>
            MadeBy(mem[o].index, by[o])
      BY <1>11 DEF MadeBy
    <3> HIDE DEF reads, mistaken
    <3>4. /\ torn'[o] <=> torn[o] \/ o \in reads
          /\ unaligned'[o] <=> unaligned[o] \/ o \in mistaken
      BY <1>2
    <3>5. QED BY <3>1, <3>2, <3>3, <3>4
  <2>3. Told(o)' BY <2>1, <2>2 DEF EngineInv, Told, SameJob
  <2>4. Aligned(o)'
    <3>1. CASE ~(pc[o] \in {"idle", "detect", "persist"} /\ ~unaligned'[o] /\ mem[o].index # None)
      BY <2>1, <3>1 DEF Aligned, SameJob
    <3>2. CASE pc[o] \in {"idle", "detect", "persist"} /\ ~unaligned'[o] /\ mem[o].index # None
      <4>1. /\ Matches(mem[o].index, mem[o].chunks)
            /\ \E m \in Embedders : /\ MadeBy(mem[o].index, m)
                                    /\ disk[5] = by[o] \/ pc[o] = "persist" => m = by[o]
        BY <2>1, <2>2, <3>2 DEF EngineInv, Aligned
      <4>2. CASE at[e] # 4
        <5>1. disk'[5] = disk[5] BY <1>3, <1>4, <4>2
        <5>2. QED BY <2>1, <3>2, <4>1, <5>1 DEF Aligned, SameJob
      <4>3. CASE at[e] = 4
        <5>1. by[o] \in Embedders BY <1>1 DEF MindOK
        <5>2. disk'[5] = by[o] => MadeBy(mem[o].index, by[o]) BY <1>4, <2>2, <3>2, <4>3
        <5>3. \E m \in Embedders : /\ MadeBy(mem[o].index, m)
                                   /\ disk'[5] = by[o] \/ pc[o] = "persist" => m = by[o]
          BY <4>1, <5>1, <5>2
        <5>4. QED BY <2>1, <4>1, <5>3 DEF Aligned, SameJob, Matches, MadeBy
      <4>4. QED BY <4>2, <4>3
    <3>3. QED BY <3>1, <3>2
  <2>5. Reuses(o)' BY <2>1, <2>2 DEF EngineInv, Reuses, SameJob
  <2>6. Covers(o)' BY <2>1, <2>2 DEF EngineInv, Covers, SameJob
  <2>7. Loads(o)' BY <2>1, <2>2 DEF Loads, SameJob
  <2>8. Writes(o)'
    <3>1. SUFFICES ASSUME pc[o] = "persist", at[o] > 0
                   PROVE  o \in patched' /\ patched' # {o}
      BY <2>1 DEF Writes, SameJob
    <3>2. o \in patched BY <2>1, <3>1 DEF EngineInv, Writes
    <3>3. ~whole BY <1>11, <3>2
    <3>4. patched' = patched \cup {e} BY <1>2, <3>3
    <3>5. QED BY <1>11, <3>2, <3>4
  <2>9. Progress(o)' BY <1>4, <2>1 DEF EngineInv, Progress, SameJob
  <2>10. QED BY <2>3, <2>4, <2>5, <2>6, <2>7, <2>8, <2>9 DEF EngineInv
<1>12. StoreWhole'
  <2>1. SUFFICES ASSUME patched' = {} PROVE Snapshot' BY DEF StoreWhole
  <2>2. at[e] = 4 /\ whole BY <1>2, <1>3, <2>1
  <2>3. patched = {e} /\ Holds(mem[e], 4) BY <1>2, <1>3, <2>2 DEF EngineInv, Writes
  <2>4. /\ mem[e].index = disk'[1] /\ mem[e].chunks = disk'[2]
        /\ mem[e].manifest = disk'[3] /\ mem[e].paths = disk'[4] /\ disk'[5] = by[e]
    BY <1>4, <2>2, <2>3 DEF Holds
  <2>5. Matches(mem[e].index, mem[e].chunks) /\ MadeBy(mem[e].index, by[e])
    BY <1>2, <1>3, <2>2 DEF EngineInv, Aligned
  <2>6. Tells(mem[e]) BY <1>2, <1>3, <2>2 DEF EngineInv, Told
  <2>7. Tells(Stored)'
    <3> DEFINE m == Stored'
    <3>1. m.chunks = mem[e].chunks /\ m.manifest = mem[e].manifest /\ m.paths = mem[e].paths
      BY <2>4 DEF Stored
    <3>2. Tells(m) <=> Tells(mem[e])
      <4> HIDE DEF m
      <4>1. QED BY <3>1, TellsByFields
    <3>3. QED BY <2>6, <3>2 DEF Tells
  <2>8. QED BY <1>3, <2>4, <2>5, <2>7 DEF Snapshot, Matches, MadeBy
<1>13. QED BY <1>5, <1>6, <1>7, <1>10, <1>11, <1>12 DEF IInv

(* A job is given up: its run's notes are cleared away, whatever else changes. *)
LEMMA GivesUp ==
  ASSUME JobOK, NEW e \in Engines,
         pc' = Set(pc, e, "idle"), at' = Set(at, e, 0), changed' = Set(changed, e, {}),
         todo' = Set(todo, e, {}), rows' = Set(rows, e, <<>>)
  PROVE  /\ JobOK' /\ pc'[e] = "idle" /\ at'[e] = 0
         /\ \A o \in Engines \ {e} : SameJob(o)
<1>1. "idle" \in Steps /\ 0 \in 0 .. 4 /\ {} \in SUBSET Paths /\ <<>> \in Seq(Chunk) BY DEF Steps
<1>2. pc' \in [Engines -> Steps] /\ pc'[e] = "idle" /\ \A o \in Engines \ {e} : pc'[o] = pc[o]
  BY <1>1 DEF JobOK, Set
<1>3. at' \in [Engines -> 0 .. 4] /\ at'[e] = 0 /\ \A o \in Engines \ {e} : at'[o] = at[o]
  BY <1>1 DEF JobOK, Set
<1>4. changed' \in [Engines -> SUBSET Paths] /\ \A o \in Engines \ {e} : changed'[o] = changed[o]
  BY <1>1 DEF JobOK, Set
<1>5. todo' \in [Engines -> SUBSET Paths] /\ \A o \in Engines \ {e} : todo'[o] = todo[o]
  BY <1>1 DEF JobOK, Set
<1>6. rows' \in [Engines -> Seq(Chunk)] /\ \A o \in Engines \ {e} : rows'[o] = rows[o]
  BY <1>1 DEF JobOK, Set
<1>7. QED BY <1>2, <1>3, <1>4, <1>5, <1>6 DEF JobOK, SameJob

LEMMA StoreStaysOrCutOff ==
  ASSUME IInv, NEW e \in Engines, StopWriting(e),
         \A o \in Engines : pc'[o] = "load" => pc[o] = "load"
  PROVE  StoreWhole'
<1>1. JobOK /\ StoreOK /\ StoreWhole BY DEF IInv
<1>2. CASE UNCHANGED <<disk, patched>> BY <1>1, <1>2, StoreStays
<1>3. CASE ~UNCHANGED <<disk, patched>>
  <2>1. patched' # {} BY <1>1, <1>3, CutOff
  <2>2. QED BY <2>1 DEF StoreWhole
<1>4. QED BY <1>2, <1>3

LEMMA FailInv ==
  ASSUME IInv, NEW e \in Engines, Fail(e)
  PROVE  IInv'
<1>1. JobOK /\ MindOK /\ StoreOK /\ EngineInv(e) BY DEF IInv
<1>2. /\ pc[e] \in {"embed", "persist"} /\ StopWriting(e)
      /\ unaligned' = IF pc[e] = "embed" THEN Set(unaligned, e, TRUE) ELSE unaligned
      /\ UNCHANGED <<mem, by, torn>>
  BY DEF Fail
<1>3. JobOK' /\ pc'[e] = "idle" /\ at'[e] = 0 /\ \A o \in Engines \ {e} : SameJob(o)
  BY <1>1, GivesUp DEF Fail
<1>4. /\ unaligned' \in [Engines -> BOOLEAN]
      /\ \A o \in Engines \ {e} : unaligned'[o] = unaligned[o]
      /\ ~unaligned'[e] => ~unaligned[e] /\ pc[e] = "persist"
  BY <1>1, <1>2 DEF MindOK, Set
<1>5. MindOK' BY <1>1, <1>2, <1>4 DEF MindOK
<1>6. StoreOK' BY <1>1, <1>2, CutOff
<1>7. StoreWhole'
  <2>1. \A o \in Engines : pc'[o] = "load" => pc[o] = "load" BY <1>3 DEF SameJob
  <2>2. QED BY <1>2, <2>1, StoreStaysOrCutOff
<1>8. ASSUME NEW o \in Engines, o # e PROVE EngineInv(o)'
  <2>1. SameEngine(o) BY <1>2, <1>3, <1>4, <1>8 DEF SameEngine, SameJob
  <2>2. QED BY <1>2, <1>8, <2>1, Bystander
<1>9. EngineInv(e)'
  <2>1. Told(e)' BY <1>1, <1>2, <1>3 DEF EngineInv, Told
  <2>2. Aligned(e)'
    <3>1. by[e] \in Embedders BY <1>1 DEF MindOK
    <3>2. QED BY <1>1, <1>2, <1>4, <3>1 DEF EngineInv, Aligned
  <2>3. Reuses(e)' /\ Covers(e)' /\ Loads(e)' /\ Writes(e)' /\ Progress(e)'
    BY <1>3 DEF Reuses, Covers, Loads, Writes, Progress
  <2>4. QED BY <2>1, <2>2, <2>3 DEF EngineInv
<1>10. QED BY <1>3, <1>5, <1>6, <1>7, <1>8, <1>9 DEF IInv

LEMMA EmptyTells == Empty \in Memory /\ Tells(Empty)
<1>1. /\ Empty.index = None /\ Empty.chunks = <<>>
      /\ Empty.manifest = [p \in Paths |-> None] /\ Empty.paths = [p \in Paths |-> 0]
  BY DEF Empty
<1>2. <<>> \in Seq(Chunk) OBVIOUS
<1>3. Empty \in Memory BY <1>2 DEF Empty, Memory, Manifests, PathIndexes
<1>4. None \notin Texts BY NamesAssumption
<1>5. \A p \in Paths : Shows(<<>>, p, <<>>) BY DEF Shows
<1>6. \A p \in Paths : ChunksOf(p, Empty.manifest[p]) = <<>> BY <1>1, <1>4 DEF ChunksOf
<1>7. Tells(Empty) BY <1>1, <1>5, <1>6, TellsByNotes
<1>8. QED BY <1>3, <1>7

LEMMA ForgetInv ==
  ASSUME IInv, NEW e \in Engines, NEW m \in Embedders, StopWriting(e), Forget(e, m)
  PROVE  IInv'
<1>1. JobOK /\ MindOK /\ StoreOK BY DEF IInv
<1>2. JobOK' /\ pc'[e] = "idle" /\ at'[e] = 0 /\ \A o \in Engines \ {e} : SameJob(o)
  BY <1>1, GivesUp DEF Forget
<1>3. mem' \in [Engines -> Memory] /\ mem'[e] = Empty /\ \A o \in Engines \ {e} : mem'[o] = mem[o]
  BY <1>1, EmptyTells DEF Forget, MindOK, Set
<1>4. by' \in [Engines -> Embedders] /\ \A o \in Engines \ {e} : by'[o] = by[o]
  BY <1>1 DEF Forget, MindOK, Set
<1>5. /\ torn' \in [Engines -> BOOLEAN] /\ \A o \in Engines \ {e} : torn'[o] = torn[o]
      /\ unaligned' \in [Engines -> BOOLEAN]
      /\ \A o \in Engines \ {e} : unaligned'[o] = unaligned[o]
  BY <1>1 DEF Forget, MindOK, Set
<1>6. MindOK' BY <1>3, <1>4, <1>5 DEF MindOK
<1>7. StoreOK' BY <1>1, CutOff
<1>8. StoreWhole'
  <2>1. \A o \in Engines : pc'[o] = "load" => pc[o] = "load" BY <1>2 DEF SameJob
  <2>2. QED BY <2>1, StoreStaysOrCutOff
<1>9. ASSUME NEW o \in Engines, o # e PROVE EngineInv(o)'
  <2>1. SameEngine(o) BY <1>2, <1>3, <1>4, <1>5, <1>9 DEF SameEngine, SameJob
  <2>2. QED BY <1>9, <2>1, Bystander
<1>10. EngineInv(e)'
  <2>1. Told(e)' BY <1>3, EmptyTells DEF Told
  <2>2. mem'[e].index = None BY <1>3 DEF Empty
  <2>3. Aligned(e)' BY <2>2 DEF Aligned
  <2>4. Reuses(e)' /\ Covers(e)' /\ Loads(e)' /\ Writes(e)' /\ Progress(e)'
    BY <1>2 DEF Reuses, Covers, Loads, Writes, Progress
  <2>5. QED BY <2>1, <2>3, <2>4 DEF EngineInv
<1>11. QED BY <1>2, <1>6, <1>7, <1>8, <1>9, <1>10 DEF IInv

LEMMA InitInv == Init => IInv /\ WatchOK
<1> SUFFICES ASSUME Init PROVE IInv /\ WatchOK OBVIOUS
<1>1. <<>> \in Seq(Chunk) /\ {} \in SUBSET Paths /\ "idle" \in Steps BY DEF Steps
<1>2. JobOK BY <1>1 DEF Init, JobOK
<1>3. MindOK BY EmptyTells DEF Init, MindOK
<1>4. StoreOK BY DEF Init, StoreOK
<1>5. StoreWhole BY DEF Init, StoreWhole
<1>6. ASSUME NEW e \in Engines PROVE EngineInv(e)
  <2>1. mem[e] = Empty /\ pc[e] = "idle" /\ at[e] = 0 BY DEF Init
  <2>2. Told(e) BY <2>1, EmptyTells DEF Told
  <2>3. Aligned(e) BY <2>1 DEF Aligned, Empty
  <2>4. Reuses(e) /\ Covers(e) /\ Loads(e) /\ Writes(e) /\ Progress(e)
    BY <2>1 DEF Reuses, Covers, Loads, Writes, Progress
  <2>5. QED BY <2>2, <2>3, <2>4 DEF EngineInv
<1>7. WatchOK BY DEF Init, WatchOK
<1>8. QED BY <1>2, <1>3, <1>4, <1>5, <1>6, <1>7 DEF IInv

LEMMA NextInv ==
  ASSUME IInv, WatchOK, [Next]_vars
  PROVE  IInv'
<1>1. JobOK /\ MindOK BY DEF IInv
<1>2. ASSUME UNCHANGED <<disk, mem, by, at, job, patched, torn, unaligned>>, UNCHANGED pc
      PROVE  IInv'
  <2>1. UNCHANGED <<changed, todo, rows>> BY <1>2 DEF job
  <2>2. Server \in Engines BY ServerAssumption
  <2>3. QED BY <1>2, <2>1, <2>2, Begins
<1>3. ASSUME NEW e \in Engines, NEW paths, BeginIncremental(e, paths)
      PROVE  IInv'
  <2>1. /\ UNCHANGED <<disk, mem, by, at, changed, todo, rows, patched, torn, unaligned>>
        /\ pc[e] = "idle"
        /\ \/ pc' = Set(pc, e, "detect")
           \/ pc' = Set(pc, e, "load") /\ CacheFilesExist
    BY <1>3 DEF BeginIncremental, flags
  <2>2. QED BY <2>1, Begins
<1>4. CASE UNCHANGED vars
  BY <1>2, <1>4 DEF vars, flags
<1>5. ASSUME NEW p \in Paths, NEW text \in Files, WriteNote(p, text) PROVE IInv'
  BY <1>2, <1>5 DEF WriteNote, flags
<1>6. ASSUME NEW p \in Paths, LinkNote(p) PROVE IInv'
  BY <1>2, <1>6 DEF LinkNote, flags
<1>7. ASSUME NEW p \in Paths, HandleVaultChange(p) PROVE IInv'
  BY <1>2, <1>7 DEF HandleVaultChange, flags
<1>8. ASSUME NEW t \in Timers, FlushPending(t) PROVE IInv'
  BY <1>2, <1>8 DEF FlushPending, flags
<1>9. ASSUME NEW t \in Timers, ReindexTold(t) PROVE IInv'
  BY <1>3, <1>9, ServerAssumption DEF ReindexTold
<1>10. ASSUME NEW e \in Engines, Ask(e) PROVE IInv'
  <2>1. CASE Initialize(e)
    <3>1. UNCHANGED <<disk, mem, by, at, changed, todo, rows, patched, torn, unaligned>>
      BY <2>1 DEF Initialize, flags
    <3>2. \/ UNCHANGED pc
          \/ pc[e] = "idle" /\ \/ pc' = Set(pc, e, "scan")
                               \/ pc' = Set(pc, e, "load") /\ CacheFilesExist
      BY <2>1 DEF Initialize
    <3>3. QED BY <3>1, <3>2, Begins
  <2>2. CASE ReindexFull(e)
    <3>1. UNCHANGED <<disk, mem, by, at, changed, todo, rows, patched, torn, unaligned>>
          /\ pc[e] = "idle" /\ pc' = Set(pc, e, "scan")
      BY <2>2 DEF ReindexFull, flags
    <3>2. QED BY <3>1, Begins
  <2>3. CASE ReindexChanged(e) BY <1>3, <2>3 DEF ReindexChanged
  <2>4. QED BY <1>10, <2>1, <2>2, <2>3 DEF Ask
<1>11. ASSUME NEW e \in Engines, Work(e) PROVE IInv'
  BY <1>11, LoadInv, ScanInv, DetectInv, EmbedInv, PersistNothingInv, PersistInv, ApplyInv DEF Work
<1>12. ASSUME NEW e \in Engines, Exit(e) PROVE IInv'
  <2>1. by[e] \in Embedders BY <1>1 DEF MindOK
  <2>2. StopWriting(e) /\ Forget(e, by[e]) BY <1>12 DEF Exit, StopWriting
  <2>3. QED BY <2>1, <2>2, ForgetInv
<1>13. ASSUME NEW e \in Engines, Fail(e) PROVE IInv'
  BY <1>13, FailInv
<1>14. ASSUME NEW e \in Engines, NEW m \in Embedders, Restart(e, m) PROVE IInv'
  BY <1>14, ForgetInv DEF Restart
<1>15. QED
  BY <1>4, <1>5, <1>6, <1>7, <1>8, <1>9, <1>10, <1>11, <1>12, <1>13, <1>14 DEF Next

LEMMA NextWatch ==
  ASSUME WatchOK, [Next]_vars
  PROVE  WatchOK'
<1> USE DEF WatchOK
<1>1. ASSUME UNCHANGED <<due, pending, batch>>, NEW e \in Engines, NEW paths \in SUBSET Paths,
             told' = told \/ told' = Set(told, e, paths)
      PROVE  WatchOK'
  <2>1. told' \in [Engines -> SUBSET Paths] BY <1>1 DEF Set
  <2>2. QED BY <1>1, <2>1
<1>2. ASSUME NEW e \in Engines, UNCHANGED <<due, pending, batch>>,
             UNCHANGED told \/ told' = Set(told, e, {})
      PROVE  WatchOK'
  BY <1>1, <1>2
<1>3. ASSUME NEW e \in Engines, NEW paths \in SUBSET Paths, BeginIncremental(e, paths),
             batch' \in [Timers -> SUBSET Paths]
      PROVE  WatchOK'
  <2>1. told' = Set(told, e, paths) /\ UNCHANGED <<due, pending>> BY <1>3 DEF BeginIncremental
  <2>2. told' \in [Engines -> SUBSET Paths] BY <2>1 DEF Set
  <2>3. QED BY <1>3, <2>1, <2>2
<1>4. ASSUME NEW e \in Engines, NEW m, Forget(e, m) PROVE WatchOK'
  <2>1. told' \in [Engines -> SUBSET Paths] BY <1>4 DEF Forget, Set
  <2>2. due' \subseteq Paths /\ pending' \subseteq Paths /\ batch' \in [Timers -> SUBSET Paths]
    BY <1>4 DEF Forget, watch
  <2>3. QED BY <2>1, <2>2
<1>5. CASE UNCHANGED vars
  BY <1>5 DEF vars, watch, job
<1>6. ASSUME NEW p \in Paths, NEW text \in Files, WriteNote(p, text) PROVE WatchOK'
  BY <1>6 DEF WriteNote, job
<1>7. ASSUME NEW p \in Paths, LinkNote(p) PROVE WatchOK'
  BY <1>7 DEF LinkNote, job, watch
<1>8. ASSUME NEW p \in Paths, HandleVaultChange(p) PROVE WatchOK'
  BY <1>8 DEF HandleVaultChange, job
<1>9. ASSUME NEW t \in Timers, FlushPending(t) PROVE WatchOK'
  BY <1>9 DEF FlushPending, job
<1>10. ASSUME NEW t \in Timers, ReindexTold(t) PROVE WatchOK'
  <2>1. batch[t] \in SUBSET Paths /\ batch' \in [Timers -> SUBSET Paths] BY <1>10 DEF ReindexTold
  <2>2. QED BY <1>3, <1>10, <2>1, ServerAssumption DEF ReindexTold
<1>11. ASSUME NEW e \in Engines, Ask(e) PROVE WatchOK'
  <2>1. CASE Initialize(e) BY <1>2, <2>1 DEF Initialize, watch
  <2>2. CASE ReindexFull(e) BY <1>2, <2>2 DEF ReindexFull, watch
  <2>3. CASE ReindexChanged(e) BY <1>3, <2>3 DEF ReindexChanged
  <2>4. QED BY <1>11, <2>1, <2>2, <2>3 DEF Ask
<1>12. ASSUME NEW e \in Engines, Work(e) PROVE WatchOK'
  <2>1. CASE Load(e) BY <1>2, <2>1 DEF Load, Complete, Finish, watch, job
  <2>2. CASE Scan(e)
    <3>1. told' = told /\ UNCHANGED watch BY <2>2, Zenon DEF Scan
    <3>2. QED BY <1>2, <3>1 DEF watch
  <2>3. CASE Detect(e) BY <1>2, <2>3 DEF Detect, Finish, watch
  <2>4. CASE Embed(e) BY <1>2, <2>4 DEF Embed, watch, job
  <2>5. CASE PersistNothing(e) BY <1>2, <2>5 DEF PersistNothing, Complete, Finish, watch, job
  <2>6. CASE Persist(e) BY <1>2, <2>6 DEF Persist, Complete, Finish, watch, job
  <2>7. ASSUME NEW p \in Paths, Apply(e, p) PROVE WatchOK' BY <1>2, <2>7 DEF Apply, watch
  <2>8. QED BY <1>12, <2>1, <2>2, <2>3, <2>4, <2>5, <2>6, <2>7 DEF Work
<1>13. ASSUME NEW e \in Engines, Exit(e) PROVE WatchOK' BY <1>4, <1>13 DEF Exit
<1>14. ASSUME NEW e \in Engines, Fail(e) PROVE WatchOK' BY <1>2, <1>14 DEF Fail, watch
<1>15. ASSUME NEW e \in Engines, NEW m \in Embedders, Restart(e, m) PROVE WatchOK'
  BY <1>4, <1>15 DEF Restart
<1> HIDE DEF WatchOK
<1>16. QED
  BY <1>5, <1>6, <1>7, <1>8, <1>9, <1>10, <1>11, <1>12, <1>13, <1>14, <1>15 DEF Next

(* What every reachable state is like. *)
THEOREM EnginesAreInOrder == Spec => [](IInv /\ WatchOK)
<1>1. Init => IInv /\ WatchOK BY InitInv
<1>2. (IInv /\ WatchOK) /\ [Next]_vars => (IInv /\ WatchOK)' BY NextInv, NextWatch
<1>3. QED BY <1>1, <1>2, PTL DEF Spec

(* Row i of an index that answers is the vector of chunk i, made by the one model
   that made all of them, however many engines, notes and embedders there are and
   wherever they stop: engine.py:663-675.                                        *)
THEOREM RowsAlwaysMatch == Spec => []RowsMatchChunks
<1>1. IInv => RowsMatchChunks
  <2> SUFFICES ASSUME IInv, NEW e \in Engines, Answers(e), ~unaligned[e] PROVE LinesUp(mem[e])
    BY DEF RowsMatchChunks
  <2>1. mem[e] \in Memory /\ Aligned(e) BY DEF IInv, MindOK, EngineInv
  <2>2. Matches(mem[e].index, mem[e].chunks) /\ \E m \in Embedders : MadeBy(mem[e].index, m)
    BY <2>1 DEF Answers, Aligned
  <2>3. QED BY <2>2 DEF LinesUp, Matches, MadeBy
<1>2. QED BY <1>1, EnginesAreInOrder, PTL

(* The manifest tells which chunks are there and the path index how many, after
   whatever loads, scans, updates and failures: engine.py:396, :427.             *)
THEOREM ManifestAlwaysTells == Spec => []ManifestTellsChunks
<1>1. IInv => ManifestTellsChunks
  BY DEF IInv, EngineInv, Told, ManifestTellsChunks
<1>2. QED BY <1>1, EnginesAreInOrder, PTL

------------------------------------------------------------------------------
(* The windows the chunker cuts *)

LEMMA MaxOfTwo ==
  ASSUME NEW i \in Int, NEW j \in Int
  PROVE  Max({i, j}) \in {i, j} /\ Max({i, j}) >= i /\ Max({i, j}) >= j
<1>1. \E x \in {i, j} : \A y \in {i, j} : x >= y
  <2>1. CASE i >= j BY <2>1
  <2>2. CASE j >= i BY <2>2
  <2>3. QED BY <2>1, <2>2
<1>2. Max({i, j}) \in {i, j} /\ \A y \in {i, j} : Max({i, j}) >= y BY <1>1 DEF Max
<1>3. QED BY <1>2

LEMMA MinOfTwo ==
  ASSUME NEW i \in Int, NEW j \in Int
  PROVE  Min({i, j}) \in {i, j} /\ Min({i, j}) <= i /\ Min({i, j}) <= j
<1>1. \E x \in {i, j} : \A y \in {i, j} : x <= y
  <2>1. CASE i <= j BY <2>1
  <2>2. CASE j <= i BY <2>2
  <2>3. QED BY <2>1, <2>2
<1>2. Min({i, j}) \in {i, j} /\ \A y \in {i, j} : Min({i, j}) <= y BY <1>1 DEF Min
<1>3. QED BY <1>2

Kinds == {"word", "blank", "line"}

LEMMA LastIsThere ==
  ASSUME NEW text, NEW kind, NEW start \in Nat, NEW end \in Nat
  PROVE  \/ LastOf(text, kind, start, end) = start
         \/ /\ LastOf(text, kind, start, end) \in start + 1 .. end - 1
            /\ Char(text, LastOf(text, kind, start, end)) = kind
<1> DEFINE T == {i \in start + 1 .. end - 1 : Char(text, i) = kind} \cup {start}
<1>1. T \in SUBSET (0 .. start + end) /\ T # {} /\ start + end \in Nat OBVIOUS
<1>2. Max(T) \in T
  <2> HIDE DEF T
  <2>1. QED BY <1>1, MaxIsOneOf
<1>3. QED BY <1>2 DEF LastOf

(* Where the window from start ends, and where the next begins. *)
End(text, start, size) == Break(text, start, Min({Len(text), start + size}))
After(text, start, size, overlap) == NextStart(start, End(text, start, size), size, overlap)

(* A window ends with the text, or is full, or ends before a blank or a line break. *)
LEMMA Ends ==
  ASSUME NEW text \in Seq(Kinds), NEW start \in Nat, NEW size \in Nat
  PROVE  /\ End(text, start, size) \in 0 .. Len(text)
         /\ start >= Len(text) => End(text, start, size) = Len(text)
         /\ \/ End(text, start, size) = Len(text)
            \/ End(text, start, size) = start + size
            \/ Char(text, End(text, start, size)) \in {"line", "blank"}
<1> DEFINE N == Len(text)
           end == Min({N, start + size})
<1>1. N \in Nat /\ end \in {N, start + size} /\ end <= N /\ end <= start + size /\ end \in Nat
  <2> DEFINE full == start + size
  <2>1. N \in Nat /\ full \in Nat /\ N \in Int /\ full \in Int OBVIOUS
  <2> HIDE DEF N, full
  <2>2. Min({N, full}) \in {N, full} /\ Min({N, full}) <= N /\ Min({N, full}) <= full
    BY <2>1, MinOfTwo, Zenon
  <2>3. QED BY <2>1, <2>2 DEF full
<1> HIDE DEF end, N
<1>2. End(text, start, size) = Break(text, start, end) BY DEF End, end, N
<1> DEFINE line == LastOf(text, "line", start, end)
           blank == LastOf(text, "blank", start, end)
<1>3. line = start \/ (line \in start + 1 .. end - 1 /\ Char(text, line) = "line")
  BY <1>1, LastIsThere
<1>4. blank = start \/ (blank \in start + 1 .. end - 1 /\ Char(text, blank) = "blank")
  BY <1>1, LastIsThere
<1>5. Break(text, start, end) =
        IF end = N THEN end ELSE IF line > start THEN line ELSE IF blank > start THEN blank ELSE end
  BY DEF Break, N
<1> HIDE DEF line, blank
<1> DEFINE it == Break(text, start, end)
<1> HIDE DEF it
<1>6. it = end \/ (it \in start + 1 .. end - 1 /\ Char(text, it) \in {"line", "blank"} /\ end # N)
  <2>1. CASE end = N BY <1>5, <2>1 DEF it
  <2>2. CASE end # N /\ line > start
    <3>1. it = line BY <1>5, <2>2 DEF it
    <3>2. line # start BY <1>1, <1>3, <2>2
    <3>3. QED BY <1>3, <2>2, <3>1, <3>2, Zenon
  <2>3. CASE end # N /\ ~(line > start) /\ blank > start
    <3>1. it = blank BY <1>5, <2>3 DEF it
    <3>2. blank # start BY <1>1, <1>4, <2>3
    <3>3. QED BY <1>4, <2>3, <3>1, <3>2, Zenon
  <2>4. CASE end # N /\ ~(line > start) /\ ~(blank > start) BY <1>5, <2>4 DEF it
  <2>5. QED BY <2>1, <2>2, <2>3, <2>4
<1>7. start >= N => end = N BY <1>1
<1>8. it \in 0 .. N BY <1>1, <1>6
<1>9. it = N \/ it = start + size \/ Char(text, it) \in {"line", "blank"} BY <1>1, <1>6
<1>10. start >= N => it = N BY <1>6, <1>7
<1>11. QED BY <1>2, <1>8, <1>9, <1>10 DEF it, N

LEMMA Begun ==
  ASSUME NEW text \in Seq(Kinds), NEW start \in Nat, NEW size \in Nat, NEW overlap \in Nat
  PROVE  /\ Stride(size, overlap) \in {1, size - overlap}
         /\ Stride(size, overlap) >= 1 /\ Stride(size, overlap) >= size - overlap
         /\ After(text, start, size, overlap) \in
              {End(text, start, size) - overlap, start + Stride(size, overlap)}
         /\ After(text, start, size, overlap) >= End(text, start, size) - overlap
         /\ After(text, start, size, overlap) >= start + Stride(size, overlap)
         /\ After(text, start, size, overlap) \in Nat /\ After(text, start, size, overlap) > start
<1> DEFINE end == End(text, start, size)
           step == Stride(size, overlap)
<1>1. end \in Nat
  <2>1. end \in 0 .. Len(text) BY Ends, Zenon
  <2>2. QED BY <2>1
<1>2. step \in {1, size - overlap} /\ step >= 1 /\ step >= size - overlap /\ step \in Nat
  <2>1. 1 \in Int /\ size - overlap \in Int OBVIOUS
  <2>2. Max({1, size - overlap}) \in {1, size - overlap} /\ Max({1, size - overlap}) >= 1
        /\ Max({1, size - overlap}) >= size - overlap
    BY <2>1, MaxOfTwo, Zenon
  <2>3. QED BY <2>1, <2>2 DEF Stride
<1> DEFINE next1 == Max({end - overlap, start + step})
<1>3. After(text, start, size, overlap) = next1 BY DEF After, NextStart
<1> HIDE DEF end, step
<1>4. end - overlap \in Int /\ start + step \in Int BY <1>1, <1>2
<1>5. next1 \in {end - overlap, start + step} /\ next1 >= end - overlap /\ next1 >= start + step
  BY <1>4, MaxOfTwo, Zenon
<1> HIDE DEF next1
<1>6. next1 \in Nat /\ next1 > start BY <1>1, <1>2, <1>4, <1>5
<1>7. QED BY <1>2, <1>3, <1>5, <1>6 DEF end, step

(* The heart of it: the next window begins no later than a short word that was cut. *)
LEMMA CutWordComesAgain ==
  ASSUME NEW text \in Seq(Kinds), NEW start \in Nat, NEW size \in Nat, NEW overlap \in Nat,
         NEW from \in Nat, NEW to \in Nat, start <= from, to <= Len(text),
         to - from <= overlap, to - from <= size,
         \A i \in from .. to - 1 : Char(text, i) = "word",
         End(text, start, size) < to,
         End(text, start, size) >= start + Stride(size, overlap)
  PROVE  After(text, start, size, overlap) <= from /\ After(text, start, size, overlap) < Len(text)
<1> DEFINE end == End(text, start, size)
           step == Stride(size, overlap)
           after == After(text, start, size, overlap)
<1>1. end \in 0 .. Len(text) /\ (end = start + size \/ Char(text, end) \in {"line", "blank"})
  <2>1. /\ end \in 0 .. Len(text)
        /\ end = Len(text) \/ end = start + size \/ Char(text, end) \in {"line", "blank"}
    BY Ends, Zenon
  <2>2. end # Len(text) BY <2>1
  <2>3. QED BY <2>1, <2>2
<1>2. /\ step \in {1, size - overlap} /\ step >= 1 /\ step >= size - overlap
      /\ after \in {end - overlap, start + step} /\ after >= end - overlap
      /\ after >= start + step /\ after \in Nat
  BY Begun
<1>3. end < to /\ end >= start + step OBVIOUS
<1> HIDE DEF end, step, after
<1>4. after <= end BY <1>1, <1>2, <1>3
<1>5. SUFFICES ASSUME from < after PROVE FALSE
  BY <1>1, <1>2, <1>3, <1>4 DEF after
<1>6. after = start + step /\ after # end - overlap BY <1>1, <1>2, <1>3, <1>5
<1>7. end \in from .. to - 1 BY <1>1, <1>2, <1>3, <1>4, <1>5
<1>8. end = start + size BY <1>1, <1>7
<1>9. step = 1 BY <1>2, <1>6, <1>8
<1>10. from = start BY <1>5, <1>6, <1>9
<1>11. QED BY <1>1, <1>3, <1>8, <1>10

(* One window and those that follow it, as f has them. *)
Window == [from : Nat, to : Nat]
IsLast(text, start, size, overlap) ==
  End(text, start, size) >= Len(text) \/ After(text, start, size, overlap) >= Len(text)
Cut(text, start, size, overlap, f) ==
  <<[from |-> start, to |-> End(text, start, size)]>>
    \o IF IsLast(text, start, size, overlap) THEN <<>> ELSE f[After(text, start, size, overlap)]

LEMMA CutIsWindows ==
  ASSUME NEW text \in Seq(Kinds), NEW start \in Nat, NEW size \in Nat, NEW overlap \in Nat, NEW f,
         ~IsLast(text, start, size, overlap) => f[After(text, start, size, overlap)] \in Seq(Window)
  PROVE  Cut(text, start, size, overlap, f) \in Seq(Window)
<1> DEFINE w == [from |-> start, to |-> End(text, start, size)]
           rest == IF IsLast(text, start, size, overlap) THEN <<>>
                   ELSE f[After(text, start, size, overlap)]
<1>1. End(text, start, size) \in Nat
  <2>1. End(text, start, size) \in 0 .. Len(text) BY Ends, Zenon
  <2>2. QED BY <2>1
<1>2. w \in Window BY <1>1 DEF Window
<1>3. rest \in Seq(Window)
  <2>1. <<>> \in Seq(Window) OBVIOUS
  <2>2. QED BY <2>1
<1>4. Cut(text, start, size, overlap, f) = <<w>> \o rest BY DEF Cut
<1> HIDE DEF w, rest
<1>5. QED BY <1>2, <1>3, <1>4

(* The recursion ends: a window begins behind the one before it.  So the
   function Windows defines exists.                                        *)
LEMMA WindowsExist ==
  ASSUME NEW text \in Seq(Kinds), NEW size \in Nat, NEW overlap \in Nat
  PROVE  \E f : f = [start \in Nat |-> Cut(text, start, size, overlap, f)]
<1> DEFINE N == Len(text)
           D(k) == {start \in Nat : start + k >= N}
           C(start, f) == Cut(text, start, size, overlap, f)
           Good(f, k) == \A start \in D(k) : f[start] = C(start, f)
           P(k) == \E f \in [D(k) -> Seq(Window)] : Good(f, k)
           G == {k \in Nat : P(k)}
<1>1. N \in Nat OBVIOUS
<1>2. ASSUME NEW k \in Nat, NEW start \in D(k + 1), ~IsLast(text, start, size, overlap)
      PROVE  k > 0 /\ After(text, start, size, overlap) \in D(k)
  <2> DEFINE after == After(text, start, size, overlap)
  <2>1. start \in Nat /\ start + (k + 1) >= N OBVIOUS
  <2>2. after \in Nat /\ after > start BY <2>1, Begun, Zenon
  <2>3. ~(after >= N) BY <1>2 DEF IsLast
  <2> HIDE DEF after, N
  <2>4. after + k >= N /\ k > 0 BY <1>1, <2>1, <2>2, <2>3
  <2>5. QED BY <2>2, <2>4 DEF after
<1>3. ASSUME NEW start \in D(0) PROVE IsLast(text, start, size, overlap)
  <2>1. start \in Nat /\ start >= N BY <1>1
  <2>2. End(text, start, size) = N BY <2>1, Ends, Zenon
  <2>3. QED BY <1>1, <2>2 DEF IsLast
<1> HIDE DEF N
<1>4. P(0)
  <2> DEFINE f == [start \in D(0) |-> C(start, start)]
  <2>1. \A start \in D(0) : C(start, start) \in Seq(Window) BY <1>3, CutIsWindows
  <2>2. f \in [D(0) -> Seq(Window)] BY <2>1
  <2>3. \A start \in D(0) : C(start, start) = C(start, f) BY <1>3 DEF Cut
  <2>4. Good(f, 0) BY <2>3
  <2> HIDE DEF f, Good, D
  <2>5. QED BY <2>2, <2>4
<1>5. ASSUME NEW k \in Nat, P(k) PROVE P(k + 1)
  <2>1. PICK g \in [D(k) -> Seq(Window)] : Good(g, k) BY <1>5
  <2> DEFINE h == [start \in D(k + 1) |-> C(start, g)]
  <2>2. \A start \in D(k + 1) : C(start, g) \in Seq(Window)
    <3> SUFFICES ASSUME NEW start \in D(k + 1) PROVE C(start, g) \in Seq(Window) OBVIOUS
    <3>1. start \in Nat OBVIOUS
    <3>2. ~IsLast(text, start, size, overlap) =>
            g[After(text, start, size, overlap)] \in Seq(Window)
      BY <1>2
    <3>3. QED BY <3>1, <3>2, CutIsWindows
  <2>3. h \in [D(k + 1) -> Seq(Window)] BY <2>2
  <2>4. \A start \in D(k) : start \in D(k + 1) /\ h[start] = g[start]
    <3>1. \A start \in D(k) : start \in D(k + 1) BY <1>1
    <3>2. \A start \in D(k) : g[start] = C(start, g) BY <2>1
    <3> HIDE DEF D, C
    <3>3. QED BY <3>1, <3>2
  <2>5. \A start \in D(k + 1) : C(start, g) = C(start, h)
    <3> SUFFICES ASSUME NEW start \in D(k + 1) PROVE C(start, g) = C(start, h) OBVIOUS
    <3>1. CASE IsLast(text, start, size, overlap) BY <3>1 DEF Cut
    <3>2. CASE ~IsLast(text, start, size, overlap)
      <4>1. After(text, start, size, overlap) \in D(k) BY <1>2, <3>2
      <4>2. g[After(text, start, size, overlap)] = h[After(text, start, size, overlap)]
        BY <2>4, <4>1
      <4> HIDE DEF h
      <4>3. QED BY <4>2 DEF Cut
    <3>3. QED BY <3>1, <3>2
  <2>6. Good(h, k + 1)
    <3>1. \A start \in D(k + 1) : h[start] = C(start, g) OBVIOUS
    <3> HIDE DEF h, D, C
    <3>2. QED BY <2>5, <3>1
  <2> HIDE DEF h, Good, D
  <2>7. QED BY <2>3, <2>6
<1>6. P(N)
  <2> HIDE DEF P
  <2>1. 0 \in G /\ \A k \in Nat : k \in G => k + 1 \in G BY <1>4, <1>5
  <2>2. Nat \subseteq G
    <3> HIDE DEF G
    <3>1. QED BY <2>1, Induction
  <2>3. QED BY <1>1, <2>2
<1>7. PICK f \in [D(N) -> Seq(Window)] : Good(f, N) BY <1>6
<1>8. D(N) = Nat BY <1>1
<1> HIDE DEF D, C
<1>9. f = [start \in Nat |-> C(start, f)] BY <1>7, <1>8
<1>10. QED BY <1>9 DEF C

(* What becomes of the words behind the start of these windows. *)
Gap(windows, text, size, overlap) ==
  \E i \in DOMAIN windows :
    windows[i].to < Len(text) /\ windows[i].to < windows[i].from + Stride(size, overlap)
ShortWords(text, size, overlap) ==
  {w \in Words(text) : w.to - w.from <= overlap /\ w.to - w.from <= size}
Whole(windows, w) == \E i \in DOMAIN windows : windows[i].from <= w.from /\ w.to <= windows[i].to

LEMMA WordsBehind ==
  ASSUME NEW text \in Seq(Kinds), NEW size \in Nat, NEW overlap \in Nat, NEW from,
         from = [start \in Nat |-> Cut(text, start, size, overlap, from)]
  PROVE  \A start \in Nat :
           /\ from[start] \in Seq(Window)
           /\ \/ Gap(from[start], text, size, overlap)
              \/ \A w \in ShortWords(text, size, overlap) : start <= w.from => Whole(from[start], w)
<1> DEFINE N == Len(text)
           Good(start) ==
             /\ from[start] \in Seq(Window)
             /\ \/ Gap(from[start], text, size, overlap)
                \/ \A w \in ShortWords(text, size, overlap) :
                     start <= w.from => Whole(from[start], w)
           G == {k \in Nat : \A start \in Nat : start + k >= N => Good(start)}
<1>1. N \in Nat OBVIOUS
<1>2. \A start \in Nat : from[start] = Cut(text, start, size, overlap, from) OBVIOUS
<1>3. ASSUME NEW start \in Nat,
             ~IsLast(text, start, size, overlap) => Good(After(text, start, size, overlap))
      PROVE  Good(start)
  <2> DEFINE end == End(text, start, size)
             after == After(text, start, size, overlap)
             win == [from |-> start, to |-> end]
             rest == IF IsLast(text, start, size, overlap) THEN <<>> ELSE from[after]
             all == from[start]
  <2>1. end \in Nat /\ end <= N
    <3>1. end \in 0 .. Len(text) BY Ends, Zenon
    <3>2. QED BY <1>1, <3>1
  <2>2. rest \in Seq(Window) BY <1>3
  <2>3. all = <<win>> \o rest BY <1>2 DEF Cut
  <2>4. win \in Window BY <2>1 DEF Window
  <2>5. win.from = start /\ win.to = end OBVIOUS
  <2>6. ~IsLast(text, start, size, overlap) => rest = from[after] /\ after \in Nat
    BY Begun
  <2>7. IsLast(text, start, size, overlap) <=> end >= N \/ after >= N BY DEF IsLast
  <2> HIDE DEF win, rest
  <2>8. /\ all \in Seq(Window) /\ 1 \in DOMAIN all /\ all[1] = win
        /\ \A i \in DOMAIN rest : i + 1 \in DOMAIN all /\ all[i + 1] = rest[i]
    <3>1. <<win>> \o rest \in Seq(Window) /\ 1 \in DOMAIN (<<win>> \o rest)
          /\ (<<win>> \o rest)[1] = win
          /\ \A i \in DOMAIN rest :
               i + 1 \in DOMAIN (<<win>> \o rest) /\ (<<win>> \o rest)[i + 1] = rest[i]
      BY <2>2, <2>4
    <3>2. QED BY <2>3, <3>1
  <2> HIDE DEF all
  <2>9. Gap(rest, text, size, overlap) => Gap(all, text, size, overlap)
    BY <2>8 DEF Gap
  <2>10. ASSUME ~Gap(all, text, size, overlap),
                NEW w \in ShortWords(text, size, overlap), start <= w.from
         PROVE  Whole(all, w)
    <3>1. /\ w.from \in Nat /\ w.to \in Nat /\ w.to <= N /\ w.from < N
          /\ \A i \in w.from .. w.to - 1 : Char(text, i) = "word"
          /\ w.to - w.from <= overlap /\ w.to - w.from <= size
      BY <1>1 DEF ShortWords, Words
    <3>2. CASE w.to <= end BY <2>5, <2>8, <2>10, <3>2 DEF Whole
    <3>3. CASE end < w.to
      <4>1. end < N BY <1>1, <2>1, <3>1, <3>3
      <4>2. ~(end < start + Stride(size, overlap)) BY <2>5, <2>8, <2>10, <4>1 DEF Gap
      <4>3. Stride(size, overlap) \in Int
        <5>1. Stride(size, overlap) \in {1, size - overlap} BY Begun, Zenon
        <5>2. QED BY <5>1
      <4>4. end >= start + Stride(size, overlap) BY <2>1, <4>2, <4>3
      <4>5. after <= w.from /\ after < N
        <5> DEFINE x == w.from
                   y == w.to
        <5>1. x \in Nat /\ y \in Nat BY <3>1
        <5> HIDE DEF x, y
        <5>2. start <= x /\ y <= Len(text) /\ y - x <= overlap /\ y - x <= size
              /\ (\A i \in x .. y - 1 : Char(text, i) = "word") /\ End(text, start, size) < y
              /\ End(text, start, size) >= start + Stride(size, overlap)
          BY <2>10, <3>1, <3>3, <4>4 DEF x, y
        <5>3. /\ After(text, start, size, overlap) <= x
              /\ After(text, start, size, overlap) < Len(text)
          BY <5>1, <5>2, CutWordComesAgain
        <5>4. QED BY <5>3 DEF x
      <4>6. after \in Nat BY Begun
      <4>7. ~IsLast(text, start, size, overlap) BY <1>1, <2>1, <2>7, <4>1, <4>5, <4>6
      <4>8. rest = from[after] /\ Good(after) BY <1>3, <2>6, <4>7
      <4>9. Whole(rest, w) BY <2>9, <2>10, <4>5, <4>8
      <4>10. QED BY <2>8, <4>9 DEF Whole
    <3>4. QED BY <2>1, <3>1, <3>2, <3>3
  <2>11. QED BY <2>8, <2>10 DEF all
<1> HIDE DEF Good, N
<1>4. 0 \in G
  <2> SUFFICES ASSUME NEW start \in Nat, start + 0 >= N PROVE Good(start) OBVIOUS
  <2>1. End(text, start, size) = N
    <3>1. start >= Len(text) BY <1>1 DEF N
    <3>2. QED BY <3>1, Ends, Zenon DEF N
  <2>2. IsLast(text, start, size, overlap) BY <1>1, <2>1 DEF IsLast, N
  <2>3. QED BY <1>3, <2>2
<1>5. \A k \in Nat : k \in G => k + 1 \in G
  <2> SUFFICES ASSUME NEW k \in Nat, k \in G PROVE k + 1 \in G OBVIOUS
  <2> SUFFICES ASSUME NEW start \in Nat, start + (k + 1) >= N PROVE Good(start) OBVIOUS
  <2> DEFINE after == After(text, start, size, overlap)
  <2>1. after \in Nat /\ after > start BY Begun, Zenon
  <2> HIDE DEF after
  <2>2. after + k >= N BY <1>1, <2>1
  <2>3. Good(after) BY <2>1, <2>2
  <2>4. QED BY <1>3, <2>3 DEF after
<1>6. Nat \subseteq G
  <2> HIDE DEF G
  <2>1. QED BY <1>4, <1>5, Induction
<1>7. \A start \in Nat : Good(start)
  <2> SUFFICES ASSUME NEW start \in Nat PROVE Good(start) OBVIOUS
  <2>1. N \in G BY <1>1, <1>6
  <2>2. start + N >= N BY <1>1
  <2>3. QED BY <2>1, <2>2
<1>8. QED BY <1>7 DEF Good

(* Every word that the overlap and a chunk have room for is whole in a window. *)
LEMMA WordsInWindows ==
  ASSUME NEW text \in Seq(Kinds), NEW size \in Nat, NEW overlap \in Nat
  PROVE  /\ Windows(text, size, overlap) \in Seq(Window)
         /\ \/ LeavesAGap(text, size, overlap)
            \/ \A w \in ShortWords(text, size, overlap) : Whole(Windows(text, size, overlap), w)
<1> DEFINE windows == Windows(text, size, overlap)
<1>1. Len(text) \in Nat OBVIOUS
<1>2. \A w \in ShortWords(text, size, overlap) : 0 <= w.from /\ w.from \in Nat /\ w.to <= Len(text)
  BY <1>1 DEF ShortWords, Words
<1>3. CASE Len(text) <= size
  <2> DEFINE it == [from |-> 0, to |-> Len(text)]
  <2>1. windows = <<it>> BY <1>3 DEF Windows
  <2>2. it \in Window /\ it.from = 0 /\ it.to = Len(text) BY <1>1 DEF Window
  <2> HIDE DEF it, windows
  <2>3. windows \in Seq(Window) /\ 1 \in DOMAIN windows /\ windows[1] = it BY <2>1, <2>2
  <2>4. \A w \in ShortWords(text, size, overlap) : Whole(windows, w) BY <1>2, <2>2, <2>3 DEF Whole
  <2>5. QED BY <2>3, <2>4 DEF windows
<1>4. CASE ~(Len(text) <= size)
  <2> DEFINE from == CHOOSE f : f = [start \in Nat |-> Cut(text, start, size, overlap, f)]
  <2>1. windows = from[0]
    BY <1>4 DEF Windows, Cut, IsLast, End, After
  <2>2. from = [start \in Nat |-> Cut(text, start, size, overlap, from)] BY WindowsExist
  <2> HIDE DEF from
  <2>3. /\ from[0] \in Seq(Window)
        /\ \/ Gap(from[0], text, size, overlap)
           \/ \A w \in ShortWords(text, size, overlap) : 0 <= w.from => Whole(from[0], w)
    BY <2>2, WordsBehind
  <2>4. Gap(windows, text, size, overlap) => LeavesAGap(text, size, overlap)
    BY DEF Gap, LeavesAGap
  <2> HIDE DEF windows
  <2>5. QED BY <1>2, <2>1, <2>3, <2>4 DEF windows
<1>5. QED BY <1>3, <1>4

(* Every short word of every section is found in a chunk, for all sizes. *)
LEMMA WordsOfChunks ==
  ASSUME NEW text \in Seq(Kinds), NEW size \in Nat, NEW overlap \in Nat,
         NEW w \in ShortWords(text, size, overlap), ~LeavesAGap(text, size, overlap)
  PROVE  Whole(Chunks(text, size, overlap), w)
<1> DEFINE windows == Windows(text, size, overlap)
           seqs == [i \in DOMAIN windows |->
                      IF HasWord(text, windows[i]) THEN <<windows[i]>> ELSE <<>>]
           chunks == FlattenSeq(seqs)
<1>1. windows \in Seq(Window) /\ Whole(windows, w) BY WordsInWindows
<1>2. Chunks(text, size, overlap) = chunks BY DEF Chunks
<1> HIDE DEF windows
<1>3. PICK i \in DOMAIN windows : windows[i].from <= w.from /\ w.to <= windows[i].to
  BY <1>1 DEF Whole
<1>4. windows[i] \in Window /\ DOMAIN windows = 1 .. Len(windows) /\ Len(windows) \in Nat BY <1>1
<1>5. HasWord(text, windows[i])
  <2>1. /\ w.from \in Nat /\ w.to \in Nat /\ w.from < w.to
        /\ \A k \in w.from .. w.to - 1 : Char(text, k) = "word"
    <3>1. Len(text) \in Nat OBVIOUS
    <3>2. QED BY <3>1 DEF ShortWords, Words
  <2>2. windows[i].from \in Nat /\ windows[i].to \in Nat BY <1>4 DEF Window
  <2>3. w.from \in windows[i].from .. windows[i].to - 1 BY <1>3, <2>1, <2>2
  <2>4. Char(text, w.from) = "word" BY <2>1
  <2>5. QED BY <2>3, <2>4 DEF HasWord
<1>6. seqs \in Seq(Seq(Window)) /\ Len(seqs) = Len(windows) /\ seqs[i] = <<windows[i]>>
  <2>1. \A k \in DOMAIN windows : seqs[k] \in Seq(Window)
    <3>1. \A k \in DOMAIN windows : windows[k] \in Window BY <1>1
    <3>2. QED BY <3>1
  <2>2. seqs = [k \in 1 .. Len(windows) |-> seqs[k]] BY <1>4
  <2>3. seqs[i] = <<windows[i]>> BY <1>5
  <2> HIDE DEF seqs
  <2>4. seqs \in [1 .. Len(windows) -> Seq(Window)] BY <1>4, <2>1, <2>2
  <2>5. QED BY <1>4, <2>3, <2>4, FunctionIsSeq
<1> HIDE DEF seqs
<1>7. PICK u \in [DOMAIN chunks -> Nat], v \in [DOMAIN chunks -> Nat] :
        Comes(chunks, seqs, Len(seqs), u, v)
  BY <1>6, Flattened
<1> HIDE DEF chunks
<1>8. 1 \in DOMAIN seqs[i] /\ seqs[i][1] = windows[i] /\ i \in 1 .. Len(seqs) BY <1>4, <1>6
<1>9. PICK k \in DOMAIN chunks : u[k] = i /\ v[k] = 1 BY <1>7, <1>8 DEF Comes
<1>10. chunks[k] = windows[i] BY <1>7, <1>8, <1>9 DEF Comes
<1>11. QED BY <1>2, <1>3, <1>9, <1>10 DEF Whole

LEMMA WordsAreInChunks == WordsAreWhole
<1> SUFFICES ASSUME NEW n \in Lengths, NEW size \in Sizes, NEW overlap \in Overlaps,
                    NEW text \in Sections(n), ~LeavesAGap(text, size, overlap),
                    NEW w \in Words(text), w.to - w.from <= Min({overlap, size})
             PROVE  \E i \in DOMAIN Chunks(text, size, overlap) :
                      /\ Chunks(text, size, overlap)[i].from <= w.from
                      /\ w.to <= Chunks(text, size, overlap)[i].to
  BY DEF WordsAreWhole
<1>1. n \in Nat /\ size \in Nat /\ overlap \in Nat /\ size \in Int /\ overlap \in Int
  BY LengthsAssumption, ConfigAssumption
<1>2. text \in Seq(Kinds)
  <2>1. text \in [1 .. n -> Kinds]
    <3>1. Kinds = {"word", "blank", "line"} BY DEF Kinds
    <3>2. QED BY <3>1 DEF Sections
  <2>2. QED BY <1>1, <2>1
<1>3. w \in ShortWords(text, size, overlap)
  <2>1. w.from \in Int /\ w.to \in Int
    <3>1. Len(text) \in Nat BY <1>2
    <3>2. QED BY <3>1 DEF Words
  <2> DEFINE least == Min({overlap, size})
  <2>2. least \in {overlap, size} /\ least <= overlap /\ least <= size BY <1>1, MinOfTwo, Zenon
  <2> HIDE DEF least
  <2>3. w.to - w.from <= least BY DEF least
  <2>4. w.to - w.from <= overlap /\ w.to - w.from <= size BY <1>1, <2>1, <2>2, <2>3
  <2>5. QED BY <2>4 DEF ShortWords
<1>4. Whole(Chunks(text, size, overlap), w) BY <1>1, <1>2, <1>3, WordsOfChunks
<1>5. QED BY <1>4 DEF Whole

(* "Split long text into overlapping chunks" (chunker.py:32) keeps its promise for
   every length, chunk size and overlap: unless a window was broken off before its
   first step, each word that fits is whole in a chunk.                           *)
THEOREM WordsAlwaysFound == Spec => []WordsAreFound
<1>1. WordsAreFound BY WordsAreInChunks DEF WordsAreFound
<1>2. QED BY <1>1, PTL
==============================================================================
