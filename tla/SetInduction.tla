---------------------------- MODULE SetInduction ----------------------------
(***************************************************************************)
(* Induction over the subsets of a finite set, as lemmas about sets, and   *)
(* what follows from it for a fold over a sequence: the function by which  *)
(* FoldLeft is defined exists, with the values of the fold; and where a    *)
(* text leads whatever reads it line by line (Leads), as a whole and when  *)
(* it is put together of the entries of a table in some order.             *)
(***************************************************************************)
EXTENDS SequencesExt, FiniteSetTheorems, SequenceTheorems, WellFoundedInduction, TLAPS

(* Among finitely many sets one has no other for a subset. *)
LEMMA MinimalSet ==
  ASSUME NEW S, IsFiniteSet(S), NEW T, T \subseteq SUBSET S, T # {}
  PROVE  \E x \in T : \A y \in T : y \subseteq x => y = x
<1>1. T \subseteq FiniteSubsetsOf(S)
  BY FS_FiniteSubsetsOfFinite
<1>2. PICK x \in T : \A y \in T : <<y, x>> \notin StrictSubsetOrdering(S)
  BY <1>1, FS_StrictSubsetOrderingWellFounded, WFMin
<1>3. ASSUME NEW y \in T, y \subseteq x
      PROVE  y = x
  BY <1>2, <1>3 DEF StrictSubsetOrdering
<1> QED
  BY <1>3

(* A set of subsets that holds each one whose proper subsets it holds.     *)
LEMMA SubsetInduction ==
  ASSUME NEW S, IsFiniteSet(S), NEW T,
         \A t \in SUBSET S : (\A u \in SUBSET t : u = t \/ u \in T) => t \in T
  PROVE  SUBSET S \subseteq T
<1> DEFINE Bad == (SUBSET S) \ T
<1> SUFFICES ASSUME Bad # {}
             PROVE  FALSE
  OBVIOUS
<1>1. Bad \subseteq SUBSET S
  OBVIOUS
<1>2. PICK x \in Bad : \A y \in Bad : y \subseteq x => y = x
  <2> HIDE DEF Bad
  <2> QED
    BY <1>1, MinimalSet
<1>3. x \in SUBSET S /\ x \notin T
  BY <1>2
<1>4. \A u \in SUBSET x : u = x \/ u \in T
  <2> SUFFICES ASSUME NEW u \in SUBSET x, u \notin T
               PROVE  u = x
    OBVIOUS
  <2>1. u \in Bad
    BY <1>3
  <2> QED
    BY <1>2, <2>1
<1> QED
  BY <1>3, <1>4

(* A finite set that a relation orders has an element that none follows.   *)
LEMMA HasExtremal ==
  ASSUME NEW S, IsFiniteSet(S), S # {}, NEW R,
         \A x \in S : <<x, x>> \notin R,
         \A x, y, z \in S : <<x, y>> \in R /\ <<y, z>> \in R => <<x, z>> \in R
  PROVE  \E x \in S : \A y \in S : <<x, y>> \notin R
<1> DEFINE After(x) == {y \in S : <<x, y>> \in R}
           T == {After(x) : x \in S}
<1>1. T \subseteq SUBSET S /\ T # {}
  <2>1. \A x \in S : After(x) \subseteq S
    OBVIOUS
  <2> HIDE DEF After
  <2> QED
    BY <2>1
<1>2. PICK u \in T : \A y \in T : y \subseteq u => y = u
  <2> HIDE DEF T
  <2> QED
    BY <1>1, MinimalSet
<1>3. PICK x \in S : u = After(x)
  OBVIOUS
<1>4. ASSUME NEW y \in S, <<x, y>> \in R
      PROVE  FALSE
  <2>1. After(y) \in T /\ After(y) \subseteq After(x)
    BY <1>4
  <2>2. y \in After(x) /\ y \notin After(y)
    BY <1>4
  <2> QED
    BY <1>2, <1>3, <2>1, <2>2
<1> QED
  BY <1>4

LEMMA MaxIs ==
  ASSUME NEW n \in Nat, NEW t \in SUBSET (1..n), t # {}
  PROVE  Max(t) \in t /\ \A x \in t : x <= Max(t)
<1> DEFINE R == {p \in t \X t : p[2] > p[1]}
<1>1. IsFiniteSet(t)
  <2>1. IsFiniteSet(1..n)
    BY FS_Interval
  <2> QED
    BY <2>1, FS_Subset
<1>2. \A x, y \in t : <<x, y>> \in R <=> y > x
  OBVIOUS
<1>3. /\ \A x \in t : <<x, x>> \notin R
      /\ \A x, y, z \in t : <<x, y>> \in R /\ <<y, z>> \in R => <<x, z>> \in R
  BY <1>2
<1>4. PICK x \in t : \A y \in t : <<x, y>> \notin R
  <2> HIDE DEF R
  <2> QED
    BY <1>1, <1>3, HasExtremal
<1>5. \A y \in t : x >= y
  <2>1. x \in Int /\ \A y \in t : y \in Int
    OBVIOUS
  <2> HIDE DEF R
  <2>2. \A y \in t : ~(y > x)
    BY <1>2, <1>4, Zenon
  <2> QED
    BY <2>1, <2>2
<1>6. Max(t) \in t /\ \A y \in t : Max(t) >= y
  BY <1>5 DEF Max
<1> QED
  BY <1>6

(* The function that a fold over a sequence is defined by.                 *)
Folds(g, n, F, base, seq) ==
  \A t \in SUBSET (1..n) : g[t] = IF t = {} THEN base ELSE F[g[t \ {Max(t)}]][seq[Max(t)]]

LEMMA FoldExists ==
  ASSUME NEW n \in Nat, NEW D, NEW E, NEW F \in [D -> [E -> D]],
         NEW base \in D, NEW seq \in [1..n -> E]
  PROVE  \E g \in [SUBSET (1..n) -> D] : Folds(g, n, F, base, seq)
<1> DEFINE Step(g, t) == F[g[t \ {Max(t)}]][seq[Max(t)]]
           Good(t) == \E g \in [SUBSET t -> D] : \A u \in SUBSET t :
                        g[u] = IF u = {} THEN base ELSE Step(g, u)
           T == {t \in SUBSET (1..n) : Good(t)}
<1>1. IsFiniteSet(1..n)
  BY FS_Interval
<1>2. ASSUME NEW t \in SUBSET (1..n), \A u \in SUBSET t : u = t \/ u \in T
      PROVE  t \in T
  <2>1. CASE t = {}
    <3> DEFINE g == [u \in SUBSET t |-> base]
    <3>1. g \in [SUBSET t -> D] /\ \A u \in SUBSET t : u = {} /\ g[u] = base
      BY <2>1
    <3> HIDE DEF g, Step
    <3>2. Good(t)
      BY <3>1
    <3> QED
      BY <3>2
  <2>2. CASE t # {}
    <3> DEFINE m == Max(t)
               r == t \ {m}
    <3>1. m \in t /\ \A x \in t : x <= m
      BY <2>2, MaxIs
    <3>2. r \in T
      BY <1>2, <3>1
    <3>3. PICK g \in [SUBSET r -> D] : \A u \in SUBSET r :
                 g[u] = IF u = {} THEN base ELSE Step(g, u)
      BY <3>2
    <3> DEFINE h == [u \in SUBSET t |-> IF m \in u THEN F[g[u \ {m}]][seq[m]] ELSE g[u]]
    <3> HIDE DEF m
    <3>4. m \in 1..n /\ seq[m] \in E
      BY <3>1
    <3>5. ASSUME NEW u \in SUBSET t, m \in u
          PROVE  /\ u \ {m} \in SUBSET r /\ u \ {m} \in SUBSET t
                 /\ h[u] = F[g[u \ {m}]][seq[m]] /\ h[u] \in D
                 /\ h[u \ {m}] = g[u \ {m}]
      <4>1. u \ {m} \in SUBSET r /\ u \ {m} \in SUBSET t
        BY <3>5
      <4>2. h[u] = F[g[u \ {m}]][seq[m]] /\ h[u \ {m}] = g[u \ {m}]
        BY <3>5, <4>1
      <4>3. g[u \ {m}] \in D
        BY <3>3, <4>1
      <4> QED
        BY <3>4, <4>1, <4>2, <4>3
    <3>6. ASSUME NEW u \in SUBSET t, m \notin u
          PROVE  u \in SUBSET r /\ h[u] = g[u] /\ h[u] \in D
      BY <3>3, <3>6
    <3>7. h \in [SUBSET t -> D]
      <4>1. \A u \in SUBSET t : h[u] \in D
        BY <3>5, <3>6
      <4>2. h = [u \in SUBSET t |-> h[u]]
        OBVIOUS
      <4> HIDE DEF h
      <4> QED
        BY <4>1, <4>2
    <3>8. ASSUME NEW u \in SUBSET t
          PROVE  h[u] = IF u = {} THEN base ELSE Step(h, u)
      <4>1. u # {} => Max(u) \in u /\ \A x \in u : x <= Max(u)
        BY MaxIs
      <4>2. CASE m \in u
        <5>1. Max(u) = m
          <6>1. Max(u) <= m /\ m <= Max(u) /\ Max(u) \in 1..n
            BY <3>1, <4>1, <4>2
          <6> QED
            BY <3>4, <6>1
        <5> HIDE DEF h
        <5> QED
          BY <3>5, <4>2, <5>1
      <4>3. CASE m \notin u
        <5>1. u \in SUBSET r /\ h[u] = g[u]
          BY <3>6, <4>3
        <5>2. u # {} => h[u \ {Max(u)}] = g[u \ {Max(u)}]
          <6>1. u \ {Max(u)} \in SUBSET t /\ m \notin u \ {Max(u)}
            BY <4>3
          <6> QED
            BY <3>6, <6>1
        <5>3. g[u] = IF u = {} THEN base ELSE Step(g, u)
          BY <3>3, <5>1
        <5> HIDE DEF h
        <5> QED
          BY <5>1, <5>2, <5>3
      <4> QED
        BY <4>2, <4>3
    <3> HIDE DEF h, Step
    <3>9. Good(t)
      BY <3>7, <3>8
    <3> QED
      BY <3>9
  <2> QED
    BY <2>1, <2>2
<1> HIDE DEF T
<1>3. SUBSET (1..n) \subseteq T
  <2> DEFINE S == 1..n
  <2>1. IsFiniteSet(S) /\ \A t \in SUBSET S : (\A u \in SUBSET t : u = t \/ u \in T) => t \in T
    BY <1>1, <1>2
  <2> HIDE DEF S
  <2>2. SUBSET S \subseteq T
    BY <2>1, SubsetInduction
  <2> QED
    BY <2>2 DEF S
<1>4. 1..n \in T
  BY <1>3
<1> QED
  BY <1>4 DEF T, Folds

----------------------------------------------------------------------------
(* What holds of 0 and of the number after each one it holds of, up to n.  *)
LEMMA UpTo ==
  ASSUME NEW n \in Nat, NEW S, 0 \in S, \A k \in 0..(n - 1) : k \in S => k + 1 \in S
  PROVE  \A k \in 0..n : k \in S
<1> DEFINE Bad == {k \in 0..n : k \notin S}
           R == {p \in Bad \X Bad : p[2] < p[1]}
<1> SUFFICES ASSUME Bad # {}
             PROVE  FALSE
  OBVIOUS
<1>1. IsFiniteSet(Bad)
  <2>1. IsFiniteSet(0..n) /\ Bad \subseteq 0..n
    BY FS_Interval
  <2> HIDE DEF Bad
  <2> QED
    BY <2>1, FS_Subset
<1>2. \A x, y \in Bad : <<x, y>> \in R <=> y < x
  OBVIOUS
<1>3. \A x \in Bad : x \in 0..n /\ x \notin S
  OBVIOUS
<1> HIDE DEF R, Bad
<1>4. /\ \A x \in Bad : <<x, x>> \notin R
      /\ \A x, y, z \in Bad : <<x, y>> \in R /\ <<y, z>> \in R => <<x, z>> \in R
  BY <1>2, <1>3
<1>5. PICK x \in Bad : \A y \in Bad : <<x, y>> \notin R
  BY <1>1, <1>4, HasExtremal
<1>6. x \in 0..n /\ x # 0
  BY <1>3
<1>7. x - 1 \in 0..(n - 1) /\ (x - 1) + 1 = x /\ x - 1 < x
  BY <1>6
<1>8. x - 1 \notin Bad
  BY <1>2, <1>5, <1>7
<1>9. x - 1 \in S
  BY <1>7, <1>8 DEF Bad
<1> QED
  BY <1>3, <1>7, <1>9

(* A function with the values of a fold as far as they stay in D.          *)
FoldsIn(g, n, F, D, base, seq) ==
  /\ g[{}] = base
  /\ \A t \in SUBSET (1..n) : t # {} /\ g[t \ {Max(t)}] \in D => g[t] = F[g[t \ {Max(t)}]][seq[Max(t)]]

(* From any of the states A, the lines of a text lead through sets of      *)
(* states, one after each line, to one of the states B.                    *)
Leads(F, D, A, text, B) ==
  \E M \in [0..Len(text) -> SUBSET D] :
    /\ A \subseteq M[0] /\ M[Len(text)] \subseteq B
    /\ \A k \in 1..Len(text) : \A s \in M[k - 1] : F[s][text[k]] \in M[k]

LEMMA FoldLeads ==
  ASSUME NEW D, NEW F, NEW A, NEW B, NEW text, Len(text) \in Nat, Leads(F, D, A, text, B),
         NEW base \in A, NEW g, FoldsIn(g, Len(text), F, D, base, text)
  PROVE  g[1..Len(text)] \in B
<1> DEFINE n == Len(text)
<1>1. PICK M \in [0..n -> SUBSET D] :
        /\ A \subseteq M[0] /\ M[n] \subseteq B
        /\ \A k \in 1..n : \A s \in M[k - 1] : F[s][text[k]] \in M[k]
  BY DEF Leads
<1> DEFINE S == {k \in 0..n : g[1..k] \in M[k]}
<1>2. 0 \in S
  <2>1. 1..0 = {}
    OBVIOUS
  <2> QED
    BY <1>1, <2>1 DEF FoldsIn
<1>3. ASSUME NEW k \in 0..(n - 1), k \in S
      PROVE  k + 1 \in S
  <2> DEFINE t == 1..(k + 1)
  <2>1. t \in SUBSET (1..n) /\ t # {} /\ t \ {k + 1} = 1..k
    OBVIOUS
  <2>2. Max(t) = k + 1
    <3>1. Max(t) \in t /\ \A x \in t : x <= Max(t)
      BY <2>1, MaxIs
    <3>2. k + 1 \in t
      OBVIOUS
    <3> QED
      BY <3>1, <3>2
  <2>3. k \in 0..n /\ k + 1 \in 1..n /\ (k + 1) - 1 = k
    OBVIOUS
  <2>4. g[1..k] \in M[k] /\ g[1..k] \in D
    BY <1>1, <1>3, <2>3
  <2> HIDE DEF t
  <2>5. g[t] = F[g[1..k]][text[k + 1]]
    BY <2>1, <2>2, <2>4 DEF FoldsIn
  <2>6. F[g[1..k]][text[k + 1]] \in M[k + 1]
    BY <1>1, <2>3, <2>4
  <2> QED
    BY <2>3, <2>5, <2>6 DEF t
<1> HIDE DEF S
<1>4. \A k \in 0..n : k \in S
  BY <1>2, <1>3, UpTo
<1>5. n \in S
  BY <1>4
<1> QED
  BY <1>1, <1>5 DEF S

(* No line leads nowhere, one line leads where it takes each state.        *)
LEMMA LeadsNowhere ==
  ASSUME NEW D, NEW F, NEW A \in SUBSET D
  PROVE  Leads(F, D, A, <<>>, A)
<1> DEFINE M == [k \in 0..0 |-> A]
<1>1. Len(<<>>) = 0
  OBVIOUS
<1>2. M \in [0..0 -> SUBSET D] /\ M[0] = A
  OBVIOUS
<1> HIDE DEF M
<1> QED
  BY <1>1, <1>2 DEF Leads

LEMMA LeadsInside ==
  ASSUME NEW D, NEW F, NEW E, NEW text \in Seq(E), \A s \in D : \A e \in E : F[s][e] \in D
  PROVE  Leads(F, D, D, text, D)
<1> DEFINE n == Len(text)
           M == [k \in 0..n |-> D]
<1>1. n \in Nat /\ \A k \in 1..n : text[k] \in E /\ k - 1 \in 0..n /\ k \in 0..n
  OBVIOUS
<1> HIDE DEF n
<1>2. M \in [0..n -> SUBSET D] /\ \A k \in 0..n : M[k] = D
  OBVIOUS
<1>3. 0 \in 0..n /\ n \in 0..n
  BY <1>1
<1> HIDE DEF M
<1>4. \A k \in 1..n : \A s \in M[k - 1] : F[s][text[k]] \in M[k]
  BY <1>1, <1>2
<1>5. D \subseteq M[0] /\ M[n] \subseteq D
  BY <1>2, <1>3
<1> QED
  BY <1>2, <1>4, <1>5 DEF n, Leads

LEMMA LeadsLine ==
  ASSUME NEW D, NEW F, NEW A \in SUBSET D, NEW B \in SUBSET D, NEW e,
         \A s \in A : F[s][e] \in B
  PROVE  Leads(F, D, A, <<e>>, B)
<1> DEFINE M == [k \in 0..1 |-> IF k = 0 THEN A ELSE B]
           text == <<e>>
<1>1. Len(text) = 1 /\ text[1] = e
  OBVIOUS
<1>2. M \in [0..1 -> SUBSET D] /\ M[0] = A /\ M[1] = B
  OBVIOUS
<1> HIDE DEF M, text
<1>3. \A k \in 1..1 : k = 1 /\ k - 1 = 0
  OBVIOUS
<1>4. \A k \in 1..1 : \A s \in M[k - 1] : F[s][text[k]] \in M[k]
  BY <1>1, <1>2, <1>3
<1>5. Leads(F, D, A, text, B)
  BY <1>1, <1>2, <1>4 DEF Leads
<1> QED
  BY <1>5 DEF text

LEMMA LeadsThen ==
  ASSUME NEW D, NEW F, NEW E, NEW A, NEW B, NEW C, NEW t \in Seq(E), NEW u \in Seq(E),
         Leads(F, D, A, t, B), Leads(F, D, B, u, C)
  PROVE  t \o u \in Seq(E) /\ Leads(F, D, A, t \o u, C)
<1> DEFINE m == Len(t)
           n == Len(u)
           text == t \o u
<1>1. m \in Nat /\ n \in Nat
  OBVIOUS
<1>2. /\ text \in Seq(E) /\ Len(text) = m + n
      /\ \A i \in 1..(m + n) : text[i] = IF i <= m THEN t[i] ELSE u[i - m]
  BY ConcatProperties
<1>3. PICK M \in [0..m -> SUBSET D] :
        /\ A \subseteq M[0] /\ M[m] \subseteq B
        /\ \A k \in 1..m : \A s \in M[k - 1] : F[s][t[k]] \in M[k]
  BY DEF Leads
<1>4. PICK N \in [0..n -> SUBSET D] :
        /\ B \subseteq N[0] /\ N[n] \subseteq C
        /\ \A k \in 1..n : \A s \in N[k - 1] : F[s][u[k]] \in N[k]
  BY DEF Leads
<1> DEFINE L == [k \in 0..(m + n) |-> IF k < m THEN M[k] ELSE N[k - m]]
<1> HIDE DEF m, n, text
<1>5. L \in [0..(m + n) -> SUBSET D]
  <2>1. \A k \in 0..(m + n) : L[k] \in SUBSET D
    <3> SUFFICES ASSUME NEW k \in 0..(m + n)
                 PROVE  L[k] \in SUBSET D
      OBVIOUS
    <3>1. CASE k < m
      BY <1>1, <1>3, <3>1
    <3>2. CASE ~(k < m)
      <4>1. k - m \in 0..n /\ L[k] = N[k - m]
        BY <1>1, <3>2
      <4> QED
        BY <1>4, <4>1
    <3> QED
      BY <3>1, <3>2
  <2> QED
    BY <2>1
<1>6. A \subseteq L[0]
  <2>1. CASE 0 < m
    <3>1. L[0] = M[0]
      BY <1>1, <2>1
    <3> QED
      BY <1>3, <3>1
  <2>2. CASE m = 0
    <3>1. L[0] = N[0]
      BY <1>1, <2>2
    <3> QED
      BY <1>3, <1>4, <2>2, <3>1
  <2>3. 0 < m \/ m = 0
    BY <1>1
  <2> QED
    BY <2>1, <2>2, <2>3
<1>7. L[m + n] \subseteq C
  <2>1. m + n \in 0..(m + n) /\ ~(m + n < m) /\ (m + n) - m = n
    BY <1>1
  <2> QED
    BY <1>4, <2>1
<1>8. ASSUME NEW k \in 1..(m + n), NEW s \in L[k - 1]
      PROVE  F[s][text[k]] \in L[k]
  <2>1. CASE k <= m
    <3>1. /\ k - 1 \in 0..(m + n) /\ k - 1 < m /\ k \in 1..m /\ k \in 0..(m + n)
          /\ text[k] = t[k]
      BY <1>1, <1>2, <2>1
    <3>2. F[s][t[k]] \in M[k]
      BY <1>3, <1>8, <3>1
    <3>3. CASE k < m
      BY <3>1, <3>2, <3>3
    <3>4. CASE k = m
      <4>1. L[k] = N[0]
        BY <1>1, <3>1, <3>4
      <4> QED
        BY <1>3, <1>4, <3>1, <3>2, <3>4, <4>1
    <3> QED
      BY <1>1, <2>1, <3>3, <3>4
  <2>2. CASE k > m
    <3>1. k - m \in 1..n /\ (k - m) - 1 = (k - 1) - m
      BY <1>1, <2>2
    <3>2. text[k] = u[k - m]
      <4>1. ~(k <= m)
        BY <1>1, <2>2
      <4> HIDE DEF L
      <4> QED
        BY <1>2, <4>1
    <3>3. k \in 0..(m + n) /\ k - 1 \in 0..(m + n) /\ ~(k < m) /\ ~(k - 1 < m)
      BY <1>1, <2>2
    <3>4. L[k] = N[k - m] /\ L[k - 1] = N[(k - m) - 1]
      BY <3>1, <3>3
    <3> HIDE DEF L
    <3> QED
      BY <1>4, <1>8, <3>1, <3>2, <3>4
  <2> QED
    BY <1>1, <2>1, <2>2
<1> HIDE DEF L
<1>9. Leads(F, D, A, text, C)
  BY <1>2, <1>5, <1>6, <1>7, <1>8 DEF Leads
<1> QED
  BY <1>2, <1>9 DEF text

(* What FlattenSeq puts together, one block after the other.               *)
PutTogether(f, n, blocks) ==
  f[1] = blocks[1] /\ \A i \in 1..(n - 1) : f[i + 1] = f[i] \o blocks[i + 1]

LEMMA FlattenSeqIs ==
  ASSUME NEW E, NEW n \in Nat, n # 0, NEW blocks \in [1..n -> Seq(E)]
  PROVE  \E f \in [1..n -> Seq(E)] : FlattenSeq(blocks) = f[n] /\ PutTogether(f, n, blocks)
<1> DEFINE Flatten(f) == [i \in 1..Len(blocks) |-> IF i = 1 THEN blocks[i] ELSE f[i - 1] \o blocks[i]]
           h == CHOOSE f : f = Flatten(f)
           Good(k) == \E f \in [1..k -> Seq(E)] :
                        \A i \in 1..k : f[i] = IF i = 1 THEN blocks[i] ELSE f[i - 1] \o blocks[i]
           S == {k \in 0..n : Good(k)}
<1>1. Len(blocks) = n
  OBVIOUS
<1>2. FlattenSeq(blocks) = h[n]
  BY <1>1 DEF FlattenSeq
<1>3. 0 \in S
  <2> DEFINE f == [i \in 1..0 |-> blocks[i]]
  <2>1. f \in [1..0 -> Seq(E)] /\ \A i \in 1..0 : FALSE
    OBVIOUS
  <2> HIDE DEF f
  <2>2. Good(0)
    BY <2>1
  <2>3. 0 \in 0..n
    OBVIOUS
  <2> HIDE DEF Good
  <2> QED
    BY <2>2, <2>3
<1>4. ASSUME NEW k \in 0..(n - 1), k \in S
      PROVE  k + 1 \in S
  <2>1. PICK f \in [1..k -> Seq(E)] :
          \A i \in 1..k : f[i] = IF i = 1 THEN blocks[i] ELSE f[i - 1] \o blocks[i]
    BY <1>4
  <2> DEFINE e == IF k = 0 THEN blocks[1] ELSE f[k] \o blocks[k + 1]
             g == [i \in 1..(k + 1) |-> IF i = k + 1 THEN e ELSE f[i]]
  <2>2. e \in Seq(E)
    <3>1. CASE k = 0
      BY <3>1
    <3>2. CASE k # 0
      <4>1. f[k] \in Seq(E) /\ blocks[k + 1] \in Seq(E)
        BY <3>2
      <4>2. f[k] \o blocks[k + 1] \in Seq(E)
        BY <4>1, ConcatProperties
      <4> QED
        BY <3>2, <4>2
    <3> QED
      BY <3>1, <3>2
  <2>3. g \in [1..(k + 1) -> Seq(E)]
    <3>1. \A i \in 1..(k + 1) : i # k + 1 => i \in 1..k
      OBVIOUS
    <3> HIDE DEF e
    <3> QED
      BY <2>2, <3>1
  <2>4. \A i \in 1..(k + 1) : g[i] = IF i = 1 THEN blocks[i] ELSE g[i - 1] \o blocks[i]
    <3> SUFFICES ASSUME NEW i \in 1..(k + 1)
                 PROVE  g[i] = IF i = 1 THEN blocks[i] ELSE g[i - 1] \o blocks[i]
      OBVIOUS
    <3>1. CASE i = k + 1
      <4>1. CASE k = 0
        BY <3>1, <4>1
      <4>2. CASE k # 0
        <5>1. i # 1 /\ i - 1 = k /\ k \in 1..(k + 1) /\ k # k + 1
          BY <3>1, <4>2
        <5>2. g[i] = e /\ g[i - 1] = f[k]
          BY <3>1, <5>1
        <5>3. e = f[k] \o blocks[k + 1]
          BY <4>2
        <5> HIDE DEF g, e
        <5> QED
          BY <3>1, <5>1, <5>2, <5>3
      <4> QED
        BY <4>1, <4>2
    <3>2. CASE i # k + 1
      <4>1. i \in 1..k /\ g[i] = f[i]
        BY <3>2
      <4>2. i # 1 => i - 1 \in 1..(k + 1) /\ i - 1 # k + 1
        OBVIOUS
      <4>3. i # 1 => g[i - 1] = f[i - 1]
        BY <4>2
      <4> HIDE DEF g
      <4> QED
        BY <2>1, <4>1, <4>3
    <3> QED
      BY <3>1, <3>2
  <2> HIDE DEF g
  <2>5. Good(k + 1)
    BY <2>3, <2>4
  <2>6. k + 1 \in 0..n
    OBVIOUS
  <2> HIDE DEF Good
  <2> QED
    BY <2>5, <2>6
<1>5. n \in S
  <2> HIDE DEF S
  <2>1. \A k \in 0..n : k \in S
    BY <1>3, <1>4, UpTo
  <2> QED
    BY <2>1
<1>6. PICK f \in [1..n -> Seq(E)] :
        \A i \in 1..n : f[i] = IF i = 1 THEN blocks[i] ELSE f[i - 1] \o blocks[i]
  BY <1>5
<1>7. f = Flatten(f)
  <2>1. f = [i \in 1..n |-> f[i]]
    OBVIOUS
  <2> QED
    BY <1>1, <1>6, <2>1
<1>8. h = Flatten(h)
  BY <1>7
<1> HIDE DEF h
<1>9. \A i \in 1..n : h[i] = IF i = 1 THEN blocks[i] ELSE h[i - 1] \o blocks[i]
  BY <1>1, <1>8
<1> DEFINE Same == {k \in 0..n : k = 0 \/ h[k] = f[k]}
<1>10. 0 \in Same
  OBVIOUS
<1>11. ASSUME NEW k \in 0..(n - 1), k \in Same
       PROVE  k + 1 \in Same
  <2>1. k + 1 \in 1..n /\ k + 1 \in 0..n /\ (k + 1) - 1 = k /\ (k + 1 = 1 <=> k = 0)
    OBVIOUS
  <2>2. k = 0 \/ h[k] = f[k]
    BY <1>11
  <2>3. h[k + 1] = IF k = 0 THEN blocks[k + 1] ELSE h[k] \o blocks[k + 1]
    BY <1>9, <2>1
  <2>4. f[k + 1] = IF k = 0 THEN blocks[k + 1] ELSE f[k] \o blocks[k + 1]
    BY <1>6, <2>1
  <2>5. h[k + 1] = f[k + 1]
    BY <2>2, <2>3, <2>4
  <2> QED
    BY <2>1, <2>5
<1>12. n \in Same
  <2> HIDE DEF Same
  <2>1. \A k \in 0..n : k \in Same
    BY <1>10, <1>11, UpTo
  <2> QED
    BY <2>1
<1>13. h[n] = f[n]
  BY <1>12
<1>14. f[1] = blocks[1] /\ \A i \in 1..(n - 1) : f[i + 1] = f[i] \o blocks[i + 1]
  <2>1. 1 \in 1..n /\ \A i \in 1..(n - 1) : i + 1 \in 1..n /\ i + 1 # 1 /\ (i + 1) - 1 = i
    OBVIOUS
  <2> QED
    BY <1>6, <2>1
<1> QED
  BY <1>2, <1>13, <1>14 DEF PutTogether

LEMMA LeadsThroughBlocks ==
  ASSUME NEW D, NEW F, NEW E, NEW n \in Nat, NEW blocks \in [1..n -> Seq(E)],
         NEW M \in [0..n -> SUBSET D],
         \A k \in 1..n : Leads(F, D, M[k - 1], blocks[k], M[k])
  PROVE  FlattenSeq(blocks) \in Seq(E) /\ Leads(F, D, M[0], FlattenSeq(blocks), M[n])
<1>1. CASE n = 0
  <2>1. Len(blocks) = 0 /\ blocks = <<>>
    BY <1>1
  <2>2. FlattenSeq(blocks) = <<>>
    BY <2>1 DEF FlattenSeq
  <2> QED
    BY <1>1, <2>2, LeadsNowhere
<1>2. CASE n # 0
  <2>1. n \in Nat \ {0}
    BY <1>2
  <2>2. PICK f \in [1..n -> Seq(E)] : FlattenSeq(blocks) = f[n] /\ PutTogether(f, n, blocks)
    BY <1>2, FlattenSeqIs
  <2> DEFINE S == {k \in 0..n : k = 0 \/ Leads(F, D, M[0], f[k], M[k])}
  <2>3. 0 \in S
    OBVIOUS
  <2>4. ASSUME NEW k \in 0..(n - 1), k \in S
        PROVE  k + 1 \in S
    <3>1. k + 1 \in 1..n /\ k + 1 \in 0..n /\ (k + 1) - 1 = k
      BY <2>1
    <3>2. Leads(F, D, M[k], blocks[k + 1], M[k + 1])
      BY <3>1
    <3>3. CASE k = 0
      BY <2>2, <3>1, <3>2, <3>3 DEF PutTogether
    <3>4. CASE k # 0
      <4>1. k \in 1..(n - 1) /\ k \in 1..n
        BY <2>1, <3>4
      <4>2. Leads(F, D, M[0], f[k], M[k])
        BY <2>4, <3>4
      <4>3. f[k] \in Seq(E) /\ blocks[k + 1] \in Seq(E) /\ f[k + 1] = f[k] \o blocks[k + 1]
        BY <2>2, <3>1, <4>1 DEF PutTogether
      <4>4. Leads(F, D, M[0], f[k] \o blocks[k + 1], M[k + 1])
        BY <3>2, <4>2, <4>3, LeadsThen
      <4> QED
        BY <3>1, <4>3, <4>4
    <3> QED
      BY <3>3, <3>4
  <2>5. n \in S
    <3> HIDE DEF S
    <3>1. \A k \in 0..n : k \in S
      BY <2>3, <2>4, UpTo
    <3> QED
      BY <3>1
  <2> QED
    BY <1>2, <2>1, <2>2, <2>5
<1> QED
  BY <1>1, <1>2

----------------------------------------------------------------------------
(* The sequences that go through every element of a finite set.            *)
Enumerates(order, S) ==
  \E n \in Nat : order \in [1..n -> S] /\ \A x \in S : \E i \in 1..n : order[i] = x

LEMMA InjectionEnumerates ==
  ASSUME NEW S, IsFiniteSet(S), NEW f \in [1..Cardinality(S) -> S],
         \A i, j \in 1..Cardinality(S) : f[i] = f[j] => i = j
  PROVE  Enumerates(f, S)
<1> DEFINE n == Cardinality(S)
<1>1. n \in Nat
  BY FS_CardinalityType
<1>2. f \in Injection(1..n, S)
  BY DEF Injection, IsInjective
<1>3. Cardinality(1..n) = n
  <2> HIDE DEF n
  <2>1. Cardinality(1..n) = IF 1 <= n THEN n - 1 + 1 ELSE 0
    BY <1>1, FS_Interval
  <2> QED
    BY <1>1, <2>1
<1>4. f \in Surjection(1..n, S)
  BY <1>2, <1>3, FS_Injection
<1> HIDE DEF n
<1>5. f \in [1..n -> S] /\ \A x \in S : \E i \in 1..n : f[i] = x
  BY <1>4 DEF Surjection
<1> QED
  BY <1>1, <1>5 DEF Enumerates

LEMMA SetToSeqEnumerates ==
  ASSUME NEW S, IsFiniteSet(S)
  PROVE  Enumerates(SetToSeq(S), S)
<1> DEFINE n == Cardinality(S)
           f == SetToSeq(S)
<1>1. n \in Nat /\ ExistsBijection(1..n, S)
  BY FS_CardinalityType
<1>2. PICK g : g \in Bijection(1..n, S)
  BY <1>1 DEF ExistsBijection
<1>3. g \in [1..n -> S] /\ IsInjective(g)
  BY <1>2 DEF Bijection, Injection, IsInjective
<1>4. f = CHOOSE h \in [1..n -> S] : IsInjective(h)
  BY DEF SetToSeq
<1> HIDE DEF f, n
<1>5. f \in [1..n -> S] /\ IsInjective(f)
  BY <1>3, <1>4
<1>6. \A i, j \in 1..n : f[i] = f[j] => i = j
  BY <1>5 DEF IsInjective
<1>7. Enumerates(f, S)
  BY <1>5, <1>6, InjectionEnumerates DEF n
<1> QED
  BY <1>7 DEF f

(* A finite set of numbers can be put in their order.                      *)
Increasing(f, n) == \A i, j \in 1..n : i < j => f[i] < f[j]

LEMMA IncreasingExists ==
  ASSUME NEW S, IsFiniteSet(S), S \subseteq Int
  PROVE  \E f \in [1..Cardinality(S) -> S] : Increasing(f, Cardinality(S))
<1> DEFINE Good(t) == \E f \in [1..Cardinality(t) -> t] : Increasing(f, Cardinality(t))
           T == {t \in SUBSET S : Good(t)}
<1>1. ASSUME NEW t \in SUBSET S, \A u \in SUBSET t : u = t \/ u \in T
      PROVE  t \in T
  <2>1. IsFiniteSet(t)
    BY FS_Subset
  <2>2. CASE t = {}
    <3>1. Cardinality(t) = 0
      BY <2>2, FS_EmptySet
    <3> DEFINE f == [i \in 1..0 |-> 0]
    <3>2. f \in [1..0 -> t] /\ Increasing(f, 0)
      BY DEF Increasing
    <3> HIDE DEF f
    <3>3. Good(t)
      BY <3>1, <3>2
    <3> HIDE DEF Good
    <3> QED
      BY <3>3
  <2>3. CASE t # {}
    <3> DEFINE R == {p \in t \X t : p[2] > p[1]}
    <3>1. \A x, y \in t : <<x, y>> \in R <=> y > x
      OBVIOUS
    <3>2. \A x \in t : x \in Int
      OBVIOUS
    <3> HIDE DEF R
    <3>3. /\ \A x \in t : <<x, x>> \notin R
          /\ \A x, y, z \in t : <<x, y>> \in R /\ <<y, z>> \in R => <<x, z>> \in R
      BY <3>1, <3>2
    <3>4. PICK m \in t : \A y \in t : <<m, y>> \notin R
      BY <2>1, <2>3, <3>3, HasExtremal
    <3> DEFINE u == t \ {m}
               n == Cardinality(u)
    <3>5. \A x \in u : x < m /\ x \in Int /\ x \in t
      <4> SUFFICES ASSUME NEW x \in u
                   PROVE  x < m /\ x \in Int /\ x \in t
        OBVIOUS
      <4>1. x \in t /\ x # m /\ ~(x > m)
        BY <3>1, <3>4, Zenon
      <4>2. x \in Int /\ m \in Int
        BY <3>2, <4>1
      <4> QED
        BY <4>1, <4>2
    <3>6. n \in Nat /\ Cardinality(t) = n + 1
      <4>1. IsFiniteSet(u)
        BY <2>1, FS_Subset
      <4>2. n = Cardinality(t) - 1 /\ Cardinality(t) \in Nat
        BY <2>1, FS_RemoveElement, FS_CardinalityType
      <4>3. n \in Nat
        BY <4>1, FS_CardinalityType
      <4> HIDE DEF n
      <4> QED
        BY <4>2, <4>3
    <3>7. u \in T
      BY <1>1
    <3>8. PICK f \in [1..n -> u] : Increasing(f, n)
      BY <3>7
    <3> DEFINE g == [i \in 1..(n + 1) |-> IF i = n + 1 THEN m ELSE f[i]]
    <3> HIDE DEF u, n
    <3>9. ASSUME NEW i \in 1..(n + 1)
          PROVE  /\ i = n + 1 => g[i] = m
                 /\ i < n + 1 => i \in 1..n /\ g[i] = f[i] /\ g[i] \in u
                 /\ g[i] \in t
      <4>1. i < n + 1 => i \in 1..n /\ i # n + 1
        BY <3>6
      <4>2. i = n + 1 \/ i < n + 1
        BY <3>6
      <4> QED
        BY <3>5, <3>8, <4>1, <4>2
    <3>10. g \in [1..(n + 1) -> t]
      <4>1. g = [i \in 1..(n + 1) |-> g[i]]
        OBVIOUS
      <4> HIDE DEF g
      <4> QED
        BY <3>9, <4>1
    <3> HIDE DEF g
    <3>11. ASSUME NEW i \in 1..(n + 1), NEW j \in 1..(n + 1), i < j
           PROVE  g[i] < g[j]
      <4>1. i < n + 1 /\ (j = n + 1 \/ j < n + 1)
        BY <3>6, <3>11
      <4>2. CASE j = n + 1
        BY <3>5, <3>9, <4>1, <4>2
      <4>3. CASE j < n + 1
        <5>1. i \in 1..n /\ j \in 1..n /\ g[i] = f[i] /\ g[j] = f[j]
          BY <3>9, <4>1, <4>3
        <5> QED
          BY <3>8, <3>11, <5>1 DEF Increasing
      <4> QED
        BY <4>1, <4>2, <4>3
    <3>12. Increasing(g, n + 1)
      BY <3>11 DEF Increasing
    <3>13. Good(t)
      BY <3>6, <3>10, <3>12
    <3> HIDE DEF Good
    <3> QED
      BY <3>13
  <2> QED
    BY <2>2, <2>3
<1>2. S \in T
  <2> HIDE DEF T
  <2>1. SUBSET S \subseteq T
    BY <1>1, SubsetInduction
  <2> QED
    BY <2>1
<1> QED
  BY <1>2

LEMMA IncreasingEnumerates ==
  ASSUME NEW S, IsFiniteSet(S), S \subseteq Int,
         NEW f \in [1..Cardinality(S) -> S], Increasing(f, Cardinality(S))
  PROVE  Enumerates(f, S)
<1> DEFINE n == Cardinality(S)
<1>1. n \in Nat
  BY FS_CardinalityType
<1> HIDE DEF n
<1>2. ASSUME NEW i \in 1..n, NEW j \in 1..n, f[i] = f[j]
      PROVE  i = j
  <2>1. f[i] \in Int /\ ~(f[i] < f[i])
    <3>1. f \in [1..n -> S]
      BY DEF n
    <3>2. f[i] \in Int
      BY <3>1
    <3> QED
      BY <3>2
  <2>2. ~(i < j) /\ ~(j < i)
    BY <1>2, <2>1 DEF Increasing, n
  <2> QED
    BY <2>2
<1> QED
  BY <1>2, InjectionEnumerates DEF n

(* The elements of S among the first k ones of an order.                   *)
Seen(order, k, S) == {x \in S : \E i \in 1..k : order[i] = x}

SeenGrows(order, k, T) ==
  /\ order[k] \in T => Seen(order, k, T) = Seen(order, k - 1, T) \cup {order[k]}
  /\ order[k] \notin T => Seen(order, k, T) = Seen(order, k - 1, T)

LEMMA SeenIs ==
  ASSUME NEW S, NEW T \in SUBSET S, NEW n \in Nat, NEW order \in [1..n -> S],
         \A x \in S : \E i \in 1..n : order[i] = x
  PROVE  /\ Seen(order, 0, T) = {} /\ Seen(order, n, T) = T
         /\ \A k \in 0..n : Seen(order, k, T) \in SUBSET T
         /\ \A k \in 1..n : SeenGrows(order, k, T)
<1>1. Seen(order, 0, T) = {} /\ Seen(order, n, T) = T
  <2>1. \A i \in 1..0 : FALSE
    OBVIOUS
  <2>2. Seen(order, 0, T) = {}
    BY <2>1, Zenon DEF Seen
  <2>3. Seen(order, n, T) = T
    BY Zenon DEF Seen
  <2> QED
    BY <2>2, <2>3
<1>2. \A k \in 0..n : Seen(order, k, T) \in SUBSET T
  BY DEF Seen
<1>3. ASSUME NEW k \in 1..n
      PROVE  SeenGrows(order, k, T)
  <2>1. \A i : i \in 1..k <=> i \in 1..(k - 1) \/ i = k
    OBVIOUS
  <2>2. \A x : x \in Seen(order, k, T) <=> x \in Seen(order, k - 1, T) \/ (x \in T /\ x = order[k])
    BY <2>1, Zenon DEF Seen
  <2> QED
    BY <2>2 DEF SeenGrows
<1> QED
  BY <1>1, <1>2, <1>3

(* One block for each element of T, in an order. *)
InOrder(order, T, block) ==
  FlattenSeq([i \in DOMAIN order |-> IF order[i] \in T THEN block[order[i]] ELSE <<>>])

(* A text with one block for each element of T, in an order, leads where   *)
(* its blocks lead: N[U] are the states after the blocks for U.            *)
LEMMA LeadsInOrder ==
  ASSUME NEW D, NEW F, NEW E, NEW S, NEW T \in SUBSET S, NEW order, Enumerates(order, S),
         NEW block \in [T -> Seq(E)], NEW N \in [SUBSET T -> SUBSET D],
         \A U \in SUBSET T : \A x \in T : Leads(F, D, N[U], block[x], N[U \cup {x}])
  PROVE  /\ InOrder(order, T, block) \in Seq(E)
         /\ Leads(F, D, N[{}], InOrder(order, T, block), N[T])
<1> DEFINE blocks == [i \in DOMAIN order |-> IF order[i] \in T THEN block[order[i]] ELSE <<>>]
<1>1. PICK n \in Nat : order \in [1..n -> S] /\ \A x \in S : \E i \in 1..n : order[i] = x
  BY DEF Enumerates
<1>2. /\ Seen(order, 0, T) = {} /\ Seen(order, n, T) = T
      /\ \A k \in 0..n : Seen(order, k, T) \in SUBSET T
      /\ \A k \in 1..n : SeenGrows(order, k, T)
  BY <1>1, SeenIs
<1> DEFINE M == [k \in 0..n |-> N[Seen(order, k, T)]]
<1>3. blocks \in [1..n -> Seq(E)]
  <2>1. DOMAIN order = 1..n
    BY <1>1
  <2>2. \A i \in 1..n : (IF order[i] \in T THEN block[order[i]] ELSE <<>>) \in Seq(E)
    BY EmptySeq
  <2> QED
    BY <2>1, <2>2
<1>4. \A i \in 1..n : /\ order[i] \in T => blocks[i] = block[order[i]]
                      /\ order[i] \notin T => blocks[i] = <<>>
  BY <1>1
<1>5. M \in [0..n -> SUBSET D]
  BY <1>2
<1>6. M[0] = N[{}] /\ M[n] = N[T]
  <2>1. 0 \in 0..n /\ n \in 0..n
    BY <1>1
  <2> QED
    BY <1>2, <2>1
<1>7. ASSUME NEW k \in 1..n
      PROVE  Leads(F, D, M[k - 1], blocks[k], M[k])
  <2>1. k - 1 \in 0..n /\ k \in 0..n
    BY <1>1
  <2>2. M[k - 1] = N[Seen(order, k - 1, T)] /\ M[k] = N[Seen(order, k, T)]
    BY <2>1
  <2>3. Seen(order, k - 1, T) \in SUBSET T
    BY <1>2, <2>1
  <2> HIDE DEF M, blocks
  <2>4. CASE order[k] \in T
    <3>1. M[k] = N[Seen(order, k - 1, T) \cup {order[k]}] /\ blocks[k] = block[order[k]]
      BY <1>2, <1>4, <2>2, <2>4 DEF SeenGrows
    <3> QED
      BY <2>2, <2>3, <2>4, <3>1
  <2>5. CASE order[k] \notin T
    <3>1. M[k] = M[k - 1] /\ blocks[k] = <<>> /\ M[k - 1] \in SUBSET D
      BY <1>2, <1>4, <1>5, <2>1, <2>2, <2>5 DEF SeenGrows
    <3> QED
      BY <3>1, LeadsNowhere
  <2> QED
    BY <2>4, <2>5
<1> HIDE DEF M, blocks
<1>8. FlattenSeq(blocks) \in Seq(E) /\ Leads(F, D, M[0], FlattenSeq(blocks), M[n])
  BY <1>1, <1>3, <1>5, <1>7, LeadsThroughBlocks
<1> QED
  BY <1>6, <1>8 DEF blocks, InOrder

(* The same of an order whose elements are themselves what is folded.      *)
LEMMA LeadsAlong ==
  ASSUME NEW D, NEW F, NEW S, NEW order, Enumerates(order, S), NEW N \in [SUBSET S -> SUBSET D],
         \A U \in SUBSET S : \A x \in S : \A s \in N[U] : F[s][x] \in N[U \cup {x}]
  PROVE  Leads(F, D, N[{}], order, N[S])
<1>1. PICK n \in Nat : order \in [1..n -> S] /\ \A x \in S : \E i \in 1..n : order[i] = x
  BY DEF Enumerates
<1>2. /\ Seen(order, 0, S) = {} /\ Seen(order, n, S) = S
      /\ \A k \in 0..n : Seen(order, k, S) \in SUBSET S
      /\ \A k \in 1..n : SeenGrows(order, k, S)
  BY <1>1, SeenIs
<1>3. Len(order) = n
  BY <1>1
<1> DEFINE M == [k \in 0..n |-> N[Seen(order, k, S)]]
<1>4. M \in [0..n -> SUBSET D]
  BY <1>2
<1>5. M[0] = N[{}] /\ M[n] = N[S]
  <2>1. 0 \in 0..n /\ n \in 0..n
    BY <1>1
  <2> QED
    BY <1>2, <2>1
<1>6. ASSUME NEW k \in 1..n, NEW s \in M[k - 1]
      PROVE  F[s][order[k]] \in M[k]
  <2>1. k - 1 \in 0..n /\ k \in 0..n /\ order[k] \in S
    BY <1>1
  <2>2. s \in N[Seen(order, k - 1, S)] /\ M[k] = N[Seen(order, k, S)]
    BY <1>6, <2>1
  <2> HIDE DEF M
  <2>3. Seen(order, k, S) = Seen(order, k - 1, S) \cup {order[k]} /\ Seen(order, k - 1, S) \in SUBSET S
    BY <1>2, <2>1 DEF SeenGrows
  <2> QED
    BY <2>1, <2>2, <2>3
<1> HIDE DEF M
<1>7. \A k \in 1..n : \A s \in M[k - 1] : F[s][order[k]] \in M[k]
  BY <1>6
<1> QED
  BY <1>3, <1>4, <1>5, <1>7 DEF Leads

(* The lines of a short text, one by one.                                  *)
LEMMA ShortTexts ==
  ASSUME NEW E, NEW a \in E, NEW b \in E, NEW c \in E
  PROVE  <<a>> \o <<b>> = <<a, b>> /\ <<a, b>> \o <<c>> = <<a, b, c>>
<1>1. /\ <<a, b>> \in Seq(E) /\ Len(<<a, b>>) = 2 /\ <<a, b>>[1] = a /\ <<a, b>>[2] = b
      /\ <<a, b, c>> \in Seq(E) /\ Len(<<a, b, c>>) = 3
      /\ <<a, b, c>>[1] = a /\ <<a, b, c>>[2] = b /\ <<a, b, c>>[3] = c
      /\ <<a>> \in Seq(E) /\ <<b>> \in Seq(E) /\ <<c>> \in Seq(E)
      /\ Len(<<a>>) = 1 /\ <<a>>[1] = a /\ Len(<<b>>) = 1 /\ <<b>>[1] = b
      /\ Len(<<c>>) = 1 /\ <<c>>[1] = c
  OBVIOUS
<1> DEFINE s == <<a>>
           t == <<b>>
           u == <<c>>
           st == <<a, b>>
           stu == <<a, b, c>>
<1> HIDE DEF s, t, u, st, stu
<1>2. /\ s \in Seq(E) /\ t \in Seq(E) /\ u \in Seq(E) /\ st \in Seq(E) /\ stu \in Seq(E)
      /\ Len(s) = 1 /\ Len(t) = 1 /\ Len(u) = 1 /\ Len(st) = 2 /\ Len(stu) = 3
      /\ s[1] = a /\ t[1] = b /\ u[1] = c /\ st[1] = a /\ st[2] = b
      /\ stu[1] = a /\ stu[2] = b /\ stu[3] = c
  BY <1>1 DEF s, t, u, st, stu
<1>3. s \o t = st
  <2>1. /\ s \o t \in Seq(E) /\ Len(s \o t) = 1 + 1
        /\ \A i \in 1..(1 + 1) : (s \o t)[i] = IF i <= 1 THEN s[i] ELSE t[i - 1]
    BY <1>2, ConcatProperties
  <2>2. \A i \in 1..2 : (s \o t)[i] = st[i]
    BY <1>2, <2>1
  <2> QED
    BY <1>2, <2>1, <2>2, SeqEqual
<1>4. st \o u = stu
  <2>1. /\ st \o u \in Seq(E) /\ Len(st \o u) = 2 + 1
        /\ \A i \in 1..(2 + 1) : (st \o u)[i] = IF i <= 2 THEN st[i] ELSE u[i - 2]
    <3>1. /\ st \o u \in Seq(E) /\ Len(st \o u) = Len(st) + Len(u)
          /\ \A i \in 1..(Len(st) + Len(u)) :
               (st \o u)[i] = IF i <= Len(st) THEN st[i] ELSE u[i - Len(st)]
      BY <1>2, ConcatProperties
    <3> QED
      BY <1>2, <3>1
  <2>2. \A i \in 1..3 : (st \o u)[i] = stu[i]
    BY <1>2, <2>1
  <2> QED
    BY <1>2, <2>1, <2>2, SeqEqual
<1> QED
  BY <1>3, <1>4 DEF s, t, u, st, stu

LEMMA LeadsTwo ==
  ASSUME NEW D, NEW F, NEW E, NEW a \in E, NEW b \in E, NEW A, NEW B, NEW Z,
         Leads(F, D, A, <<a>>, B), Leads(F, D, B, <<b>>, Z)
  PROVE  <<a, b>> \in Seq(E) /\ Leads(F, D, A, <<a, b>>, Z)
<1>1. <<a>> \in Seq(E) /\ <<b>> \in Seq(E)
  OBVIOUS
<1>2. <<a>> \o <<b>> \in Seq(E) /\ Leads(F, D, A, <<a>> \o <<b>>, Z)
  BY <1>1, LeadsThen
<1> QED
  BY <1>2, ShortTexts

LEMMA LeadsThree ==
  ASSUME NEW D, NEW F, NEW E, NEW a \in E, NEW b \in E, NEW c \in E,
         NEW A, NEW B, NEW C, NEW Z,
         Leads(F, D, A, <<a>>, B), Leads(F, D, B, <<b>>, C), Leads(F, D, C, <<c>>, Z)
  PROVE  <<a, b, c>> \in Seq(E) /\ Leads(F, D, A, <<a, b, c>>, Z)
<1>1. <<c>> \in Seq(E) /\ <<a, b>> \in Seq(E) /\ Leads(F, D, A, <<a, b>>, C)
  BY LeadsTwo
<1>2. <<a, b>> \o <<c>> \in Seq(E) /\ Leads(F, D, A, <<a, b>> \o <<c>>, Z)
  BY <1>1, LeadsThen
<1> QED
  BY <1>2, ShortTexts

LEMMA LeadsFive ==
  ASSUME NEW D, NEW F, NEW E, NEW a \in E, NEW b \in E, NEW c \in E, NEW d \in E, NEW e \in E,
         NEW A, NEW B, NEW C, NEW G, NEW H, NEW Z,
         Leads(F, D, A, <<a>>, B), Leads(F, D, B, <<b>>, C), Leads(F, D, C, <<c>>, G),
         Leads(F, D, G, <<d>>, H), Leads(F, D, H, <<e>>, Z)
  PROVE  <<a, b, c, d, e>> \in Seq(E) /\ Leads(F, D, A, <<a, b, c, d, e>>, Z)
<1> DEFINE s == <<a, b, c>>
           t == <<d, e>>
           st == <<a, b, c, d, e>>
<1>1. s \in Seq(E) /\ Leads(F, D, A, s, G)
  BY LeadsThree
<1>2. t \in Seq(E) /\ Leads(F, D, G, t, Z)
  BY LeadsTwo
<1>3. s \o t \in Seq(E) /\ Leads(F, D, A, s \o t, Z)
  <2> HIDE DEF s, t
  <2> QED
    BY <1>1, <1>2, LeadsThen
<1>4. /\ Len(s) = 3 /\ s[1] = a /\ s[2] = b /\ s[3] = c
      /\ Len(t) = 2 /\ t[1] = d /\ t[2] = e
      /\ st \in Seq(E) /\ Len(st) = 5
      /\ st[1] = a /\ st[2] = b /\ st[3] = c /\ st[4] = d /\ st[5] = e
  OBVIOUS
<1> HIDE DEF s, t, st
<1>5. /\ Len(s \o t) = Len(s) + Len(t)
      /\ \A i \in 1..(Len(s) + Len(t)) :
           (s \o t)[i] = IF i <= Len(s) THEN s[i] ELSE t[i - Len(s)]
  BY <1>1, <1>2, ConcatProperties
<1>6. \A i \in 1..5 : (s \o t)[i] = st[i]
  <2> DEFINE both == s \o t
  <2>1. both[1] = st[1] /\ both[2] = st[2] /\ both[3] = st[3]
    BY <1>4, <1>5
  <2>2. both[4] = st[4] /\ both[5] = st[5]
    BY <1>4, <1>5
  <2>3. \A i \in 1..5 : i = 1 \/ i = 2 \/ i = 3 \/ i = 4 \/ i = 5
    OBVIOUS
  <2> HIDE DEF both
  <2>4. \A i \in 1..5 : both[i] = st[i]
    BY <2>1, <2>2, <2>3, Zenon
  <2> QED
    BY <2>4 DEF both
<1>7. Len(s \o t) = 5
  BY <1>4, <1>5
<1>8. s \o t = st
  BY <1>3, <1>4, <1>6, <1>7, SeqEqual
<1> QED
  BY <1>3, <1>4, <1>8 DEF st

(* A text after a first line. *)
LEMMA AfterFirstLine ==
  ASSUME NEW E, NEW a \in E, NEW t \in Seq(E)
  PROVE  /\ (<<a>> \o t)[1] = a /\ <<a>> \o t # <<>> /\ Tail(<<a>> \o t) = t
<1> DEFINE s == <<a>>
           st == s \o t
           u == Tail(st)
<1>1. s \in Seq(E) /\ Len(s) = 1 /\ s[1] = a
  OBVIOUS
<1> HIDE DEF s
<1>2. /\ st \in Seq(E) /\ Len(st) = Len(s) + Len(t)
      /\ \A i \in 1..(Len(s) + Len(t)) : st[i] = IF i <= Len(s) THEN s[i] ELSE t[i - Len(s)]
  BY <1>1, ConcatProperties
<1>3. Len(t) \in Nat
  OBVIOUS
<1> HIDE DEF st
<1>4. /\ Len(st) = 1 + Len(t) /\ st[1] = a
      /\ \A i \in 1..Len(t) : st[i + 1] = t[i]
  BY <1>1, <1>2, <1>3
<1>5. st # <<>>
  BY <1>2, <1>3, <1>4, EmptySeq
<1>6. u \in Seq(E) /\ Len(u) = Len(st) - 1 /\ \A i \in 1..Len(u) : u[i] = st[i + 1]
  BY <1>2, <1>5, HeadTailProperties
<1> HIDE DEF u
<1>7. u = t
  <2>1. Len(u) = Len(t)
    BY <1>3, <1>4, <1>6
  <2>2. \A i \in 1..Len(t) : u[i] = t[i]
    BY <1>4, <1>6, <2>1
  <2> QED
    BY <1>6, <2>1, <2>2, SeqEqual
<1> QED
  BY <1>4, <1>5, <1>7 DEF u, st, s

(* Texts that are put together may be put together from the right.         *)
FromLeft(t, u, v, w, x) == t \o u \o v \o w \o x
FirstThenRest(t, u, v, w, x) == t \o (u \o v \o w \o x)

LEMMA Associates ==
  ASSUME NEW E, NEW a \in Seq(E), NEW b \in Seq(E), NEW c \in Seq(E)
  PROVE  a \o b \o c = a \o (b \o c)
BY ConcatAssociative, SMTT(60)

LEMMA FiveTexts ==
  ASSUME NEW E, NEW t \in Seq(E), NEW u \in Seq(E), NEW v \in Seq(E), NEW w \in Seq(E), NEW x \in Seq(E)
  PROVE  FromLeft(t, u, v, w, x) = FirstThenRest(t, u, v, w, x)
<1> DEFINE uv == u \o v
           uvw == uv \o w
<1>1. t \o u \o v = t \o uv
  BY Associates
<1>2. uv \in Seq(E)
  BY ConcatProperties
<1> HIDE DEF uv
<1>3. t \o uv \o w = t \o uvw
  BY <1>2, Associates
<1>4. uvw \in Seq(E)
  BY <1>2, ConcatProperties
<1> HIDE DEF uvw
<1>5. t \o uvw \o x = t \o (uvw \o x)
  BY <1>4, Associates
<1> QED
  BY <1>1, <1>3, <1>5 DEF uv, uvw, FromLeft, FirstThenRest
=============================================================================
