---------------------------- MODULE TaskBarProofs ----------------------------
(***************************************************************************)
(* The path of TaskBar, for every number of windows and applications and   *)
(* every bound.  TaskStrip is built from folds of the community modules,   *)
(* so the proofs begin with what a fold yields, place by place; then come  *)
(* the operations on a strip, reconcile_windows, and the invariant of the  *)
(* whole path:                                                             *)
(*   - the strip is well-formed, shows the windows of the platform's list  *)
(*     after the first change, and keeps its slots in their order;         *)
(*   - a number that is given to a window is one that no one holds.        *)
(* The last part is about the revision of the panels: whoever holds one    *)
(* knows the strip.  It does not look into TaskStrip.                      *)
(***************************************************************************)
EXTENDS TaskBar, WellFoundedInduction, TLAPS

-----------------------------------------------------------------------------
(* Induction.  The induction theorems of the library take an operator for the  *)
(* property, which the provers cannot instantiate; a set does as well.         *)

Below == {p \in Nat \X Nat : p[1] < p[2]}

\* The order of the naturals is well-founded.
LEMMA BelowIsWellFounded == IsWellFoundedOn(Below, Nat)
  BY NatLessThanWellFounded DEF OpToRel, Below

\* A set of naturals with 0 and with the successor of each member has them all.
LEMMA Induction ==
    ASSUME NEW S \in SUBSET Nat, 0 \in S, \A n \in S : n + 1 \in S
    PROVE  S = Nat
  <1> SUFFICES ASSUME Nat \ S # {} PROVE FALSE
    OBVIOUS
  <1> DEFINE T == Nat \ S
  <1>1. \E x \in T : \A y \in T : ~(<<y, x>> \in Below)
    <2>1. T \subseteq Nat /\ T # {}
      OBVIOUS
    <2> HIDE DEF T
    <2> QED
      BY BelowIsWellFounded, WFMin, <2>1
  <1>2. PICK x \in T : \A y \in T : ~(<<y, x>> \in Below)
    BY <1>1
  <1>3. x # 0 /\ x \in Nat /\ x - 1 \in Nat /\ x - 1 \notin S
    <2>1. x \in Nat /\ x \notin S
      BY <1>2
    <2> QED
      BY <2>1
  <1>4. <<x - 1, x>> \in Below
    BY <1>3 DEF Below
  <1> QED
    BY <1>2, <1>3, <1>4

\* The same up to a bound.
LEMMA InductionUpTo ==
    ASSUME NEW N \in Nat, NEW S, 0 \in S,
           \A n \in 0 .. N : n \in S /\ n # N => n + 1 \in S
    PROVE  \A n \in 0 .. N : n \in S
  <1> DEFINE T == {n \in Nat : n \in 0 .. N => n \in S}
  <1>1. 0 \in T
    OBVIOUS
  <1>2. ASSUME NEW n \in T PROVE n + 1 \in T
    <2>1. n + 1 \in 0 .. N => n \in 0 .. N /\ n # N
      OBVIOUS
    <2> QED
      BY <1>2, <2>1
  <1>3. T = Nat
    <2>1. T \in SUBSET Nat
      OBVIOUS
    <2> HIDE DEF T
    <2> QED
      BY <1>1, <1>2, <2>1, Induction
  <1> QED
    BY <1>3

-----------------------------------------------------------------------------
(* Folds. *)

\* The greatest of the first numbers.
LEMMA MaxOfFirst ==
    ASSUME NEW n \in Nat, NEW u \in SUBSET (1 .. n + 1), n + 1 \in u
    PROVE  Max(u) = n + 1
  <1>1. \A y \in u : n + 1 >= y
    OBVIOUS
  <1>2. \A x \in u : (\A y \in u : x >= y) => x = n + 1
    OBVIOUS
  <1> QED
    BY <1>1, <1>2 DEF Max

\* g is the fold of op over each set of the first n places of s, the way FoldLeft
\* defines it.
IsFold(g, n, base, op, s) ==
    \A u \in SUBSET (1 .. n) :
        IF u = {} THEN g[u] = base
        ELSE Max(u) \in u /\ g[u] = op[<<g[u \ {Max(u)}], s[Max(u)]>>]

\* The recursive function that FoldLeft chooses exists.
LEMMA FoldExists ==
    ASSUME NEW A, NEW B, NEW base \in A, NEW s \in Seq(B), NEW op \in [A \X B -> A]
    PROVE  \E g \in [SUBSET (1 .. Len(s)) -> A] : IsFold(g, Len(s), base, op, s)
  <1> DEFINE S == {n \in 0 .. Len(s) :
                     \E g \in [SUBSET (1 .. n) -> A] : IsFold(g, n, base, op, s)}
  <1>1. 0 \in S
    <2> DEFINE g == [u \in SUBSET (1 .. 0) |-> base]
    <2>1. \A u \in SUBSET (1 .. 0) : u = {}
      OBVIOUS
    <2>2. g \in [SUBSET (1 .. 0) -> A] /\ IsFold(g, 0, base, op, s)
      BY <2>1 DEF IsFold
    <2> QED
      BY <2>2
  <1>2. ASSUME NEW n \in 0 .. Len(s), n \in S, n # Len(s)
        PROVE  n + 1 \in S
    <2>1. PICK g \in [SUBSET (1 .. n) -> A] : IsFold(g, n, base, op, s)
      BY <1>2
    <2> DEFINE h == [u \in SUBSET (1 .. n + 1) |->
                       IF n + 1 \in u THEN op[<<g[u \ {n + 1}], s[n + 1]>>] ELSE g[u]]
    <2>2. n + 1 \in 1 .. Len(s) /\ n \in Nat /\ s[n + 1] \in B
      BY <1>2
    <2>3. \A u \in SUBSET (1 .. n + 1) :
            /\ u \ {n + 1} \in SUBSET (1 .. n)
            /\ n + 1 \notin u => u \in SUBSET (1 .. n)
      BY <2>2
    <2>4. h \in [SUBSET (1 .. n + 1) -> A]
      BY <2>2, <2>3
    <2>5. ASSUME NEW u \in SUBSET (1 .. n + 1)
          PROVE  IF u = {} THEN h[u] = base
                 ELSE Max(u) \in u /\ h[u] = op[<<h[u \ {Max(u)}], s[Max(u)]>>]
      <3>1. CASE n + 1 \in u
        <4>1. Max(u) = n + 1
          BY <2>2, <3>1, MaxOfFirst
        <4>2. /\ u \ {n + 1} \in SUBSET (1 .. n + 1)
              /\ n + 1 \notin u \ {n + 1}
          OBVIOUS
        <4>3. h[u \ {n + 1}] = g[u \ {n + 1}]
          BY <4>2
        <4>4. h[u] = op[<<g[u \ {n + 1}], s[n + 1]>>]
          BY <3>1
        <4> HIDE DEF h
        <4> QED
          BY <3>1, <4>1, <4>3, <4>4
      <3>2. CASE n + 1 \notin u
        <4>1. u \in SUBSET (1 .. n) /\ h[u] = g[u]
          BY <2>3, <3>2
        <4>2. /\ u \ {Max(u)} \in SUBSET (1 .. n + 1)
              /\ n + 1 \notin u \ {Max(u)}
          BY <3>2
        <4>3. h[u \ {Max(u)}] = g[u \ {Max(u)}]
          BY <4>2
        <4>4. IF u = {} THEN g[u] = base
              ELSE Max(u) \in u /\ g[u] = op[<<g[u \ {Max(u)}], s[Max(u)]>>]
          BY <2>1, <4>1 DEF IsFold
        <4> HIDE DEF h
        <4> QED
          BY <4>1, <4>3, <4>4
      <3> QED
        BY <3>1, <3>2
    <2>6. IsFold(h, n + 1, base, op, s)
      BY <2>5 DEF IsFold
    <2> HIDE DEF h
    <2> QED
      BY <2>2, <2>4, <2>6
  <1>3. Len(s) \in S
    <2> HIDE DEF S
    <2>1. Len(s) \in Nat /\ Len(s) \in 0 .. Len(s)
      OBVIOUS
    <2> QED
      BY <1>1, <1>2, <2>1, InductionUpTo
  <1> QED
    BY <1>3

\* The greatest of the first n places is n.
LEMMA FirstPlaces ==
    ASSUME NEW n \in Nat, n # 0
    PROVE  1 .. n # {} /\ Max(1 .. n) = n /\ (1 .. n) \ {n} = 1 .. n - 1
  <1>1. n - 1 \in Nat /\ (n - 1) + 1 = n /\ n \in 1 .. n
    OBVIOUS
  <1>2. Max(1 .. n) = n
    BY <1>1, MaxOfFirst
  <1> QED
    BY <1>1, <1>2

\* What FoldLeft yields after each place: from base, by op.
Steps(A, base, op, s) ==
    {F \in [0 .. Len(s) -> A] :
        /\ F[0] = base
        /\ \A n \in 1 .. Len(s) : F[n] = op[<<F[n - 1], s[n]>>]}

\* The fold over the first places, and so over all of them.
LEMMA FoldOfFirst ==
    ASSUME NEW A, NEW B, NEW base \in A, NEW s \in Seq(B), NEW op \in [A \X B -> A],
           NEW g, g[{}] = base,
           \A n \in 1 .. Len(s) :
             g[1 .. n - 1] \in A => g[1 .. n] = op[<<g[1 .. n - 1], s[n]>>]
    PROVE  [n \in 0 .. Len(s) |-> g[1 .. n]] \in Steps(A, base, op, s)
  <1> DEFINE F == [n \in 0 .. Len(s) |-> g[1 .. n]]
  <1>1. Len(s) \in Nat /\ 1 .. 0 = {}
    OBVIOUS
  <1>2. F[0] = base
    BY <1>1
  <1>3. ASSUME NEW n \in 1 .. Len(s), F[n - 1] \in A
        PROVE  F[n] = op[<<F[n - 1], s[n]>>]
    <2>1. n - 1 \in 0 .. Len(s) /\ n \in 0 .. Len(s)
      BY <1>1
    <2> QED
      BY <1>3, <2>1
  <1>4. \A n \in 0 .. Len(s) : F[n] \in A
    <2> DEFINE S == {n \in 0 .. Len(s) : F[n] \in A}
    <2>1. 0 \in S
      BY <1>1, <1>2
    <2>2. ASSUME NEW n \in 0 .. Len(s), n \in S, n # Len(s) PROVE n + 1 \in S
      <3>1. /\ n + 1 \in 1 .. Len(s) /\ n + 1 \in 0 .. Len(s) /\ (n + 1) - 1 = n
            /\ s[n + 1] \in B /\ F[n] \in A
        BY <1>1, <2>2
      <3>2. F[n + 1] = op[<<F[n], s[n + 1]>>]
        <4> HIDE DEF F
        <4> QED
          BY <1>3, <3>1
      <3> HIDE DEF F
      <3> QED
        BY <3>1, <3>2
    <2>3. \A n \in 0 .. Len(s) : n \in S
      <3> HIDE DEF S
      <3> QED
        BY <1>1, <2>1, <2>2, InductionUpTo
    <2> QED
      BY <2>3
  <1>5. F \in [0 .. Len(s) -> A]
    BY <1>4
  <1> HIDE DEF F
  <1>6. F \in Steps(A, base, op, s)
    <2>1. \A n \in 1 .. Len(s) : n - 1 \in 0 .. Len(s)
      BY <1>1
    <2> QED
      BY <1>2, <1>3, <1>4, <1>5, <2>1 DEF Steps
  <1> QED
    BY <1>6 DEF F

\* What a filter has chosen after each place.
Filters(A, s, S) ==
    {F \in [0 .. Len(s) -> Seq(A)] :
        /\ F[0] = << >>
        /\ \A n \in 1 .. Len(s) :
             F[n] = IF s[n] \in S THEN Append(F[n - 1], s[n]) ELSE F[n - 1]}

\* FoldLeft makes a filter go through the list place by place.
LEMMA ChosenSteps ==
    ASSUME NEW A, NEW s \in Seq(A), NEW S
    PROVE  \E F \in Filters(A, s, S) : Chosen(s, S) = F[Len(s)]
  <1> DEFINE op == [p \in Seq(A) \X A |-> IF p[2] \in S THEN Append(p[1], p[2]) ELSE p[1]]
             Iterates(g) ==
               g = [u \in SUBSET DOMAIN s |->
                      IF u = {} THEN << >>
                      ELSE IF s[Max(u)] \in S
                      THEN Append(g[u \ {Max(u)}], s[Max(u)]) ELSE g[u \ {Max(u)}]]
             iter == CHOOSE g : Iterates(g)
  <1>1. Chosen(s, S) = iter[DOMAIN s]
    BY DEF Chosen, FoldLeft, MapThenFoldSet
  <1>2. << >> \in Seq(A) /\ op \in [Seq(A) \X A -> Seq(A)]
        /\ DOMAIN s = 1 .. Len(s) /\ Len(s) \in Nat
    OBVIOUS
  <1>3. Iterates(iter)
    <2>1. PICK g \in [SUBSET (1 .. Len(s)) -> Seq(A)] : IsFold(g, Len(s), << >>, op, s)
      BY <1>2, FoldExists
    <2>2. ASSUME NEW u \in SUBSET DOMAIN s
          PROVE  g[u] = IF u = {} THEN << >>
                        ELSE IF s[Max(u)] \in S
                        THEN Append(g[u \ {Max(u)}], s[Max(u)]) ELSE g[u \ {Max(u)}]
      <3>1. CASE u = {}
        BY <1>2, <2>1, <3>1 DEF IsFold
      <3>2. CASE u # {}
        <4>1. Max(u) \in u /\ g[u] = op[<<g[u \ {Max(u)}], s[Max(u)]>>]
          BY <1>2, <2>1, <3>2 DEF IsFold
        <4>2. s[Max(u)] \in A /\ g[u \ {Max(u)}] \in Seq(A)
          BY <1>2, <4>1
        <4> QED
          BY <3>2, <4>1, <4>2
      <3> QED
        BY <3>1, <3>2
    <2>3. Iterates(g)
      BY <1>2, <2>2
    <2> HIDE DEF Iterates
    <2> QED
      BY <2>3
  <1> HIDE DEF iter
  <1>4. iter[{}] = << >>
    BY <1>3
  <1>5. ASSUME NEW n \in 1 .. Len(s)
        PROVE  iter[1 .. n] = IF s[n] \in S THEN Append(iter[1 .. n - 1], s[n])
                              ELSE iter[1 .. n - 1]
    <2>1. 1 .. n \in SUBSET DOMAIN s
      BY <1>2
    <2>2. 1 .. n # {} /\ Max(1 .. n) = n /\ (1 .. n) \ {n} = 1 .. n - 1
      BY FirstPlaces
    <2> QED
      BY <1>3, <2>1, <2>2
  <1>6. ASSUME NEW n \in 1 .. Len(s), iter[1 .. n - 1] \in Seq(A)
        PROVE  iter[1 .. n] = op[<<iter[1 .. n - 1], s[n]>>]
    BY <1>5, <1>6
  <1> DEFINE F == [n \in 0 .. Len(s) |-> iter[1 .. n]]
  <1>7. F \in Steps(Seq(A), << >>, op, s)
    <2> HIDE DEF op
    <2> QED
      BY <1>2, <1>4, <1>6, FoldOfFirst
  <1>8. /\ F \in [0 .. Len(s) -> Seq(A)]
        /\ F[0] = << >>
        /\ \A n \in 1 .. Len(s) : n - 1 \in 0 .. Len(s) /\ F[n] = op[<<F[n - 1], s[n]>>]
    <2> HIDE DEF F, op
    <2> QED
      BY <1>2, <1>7 DEF Steps
  <1>9. Chosen(s, S) = F[Len(s)]
    BY <1>1, <1>2
  <1>10. \A n \in 1 .. Len(s) :
           F[n] = IF s[n] \in S THEN Append(F[n - 1], s[n]) ELSE F[n - 1]
    <2>1. \A n \in 1 .. Len(s) : n \in 0 .. Len(s) /\ n - 1 \in 0 .. Len(s)
      BY <1>2
    <2> QED
      BY <1>5, <2>1
  <1> QED
    <2> HIDE DEF F, op
    <2>1. F \in Filters(A, s, S)
      BY <1>8, <1>10 DEF Filters
    <2> QED
      BY <1>9, <2>1

-----------------------------------------------------------------------------
(* Sequences: the first of some places, and what RemoveAt and InsertAt do. *)

\* The first of some places is one of them, and the least.
LEMMA FirstIsLeast ==
    ASSUME NEW S \in SUBSET Nat, S # {}
    PROVE  FirstOf(S) \in S /\ \A j \in S : FirstOf(S) <= j
  <1>1. \E x \in S : \A y \in S : ~(<<y, x>> \in Below)
    BY BelowIsWellFounded, WFMin
  <1>2. PICK x \in S : \A y \in S : ~(<<y, x>> \in Below)
    BY <1>1
  <1>3. ASSUME NEW y \in S PROVE x <= y
    <2>1. x \in Nat /\ y \in Nat
      OBVIOUS
    <2>2. y < x => <<y, x>> \in Below
      BY <2>1 DEF Below
    <2> QED
      BY <1>2, <2>1, <2>2
  <1> QED
    BY <1>3 DEF FirstOf

\* The place in s of what is at k once i is removed, and the other way round.
Was(i, k) == IF k < i THEN k ELSE k + 1
Becomes(i, k) == IF k < i THEN k ELSE k - 1

\* RemoveAt: what is where, before and after.
LEMMA Removed ==
    ASSUME NEW S, NEW s \in Seq(S), NEW i \in DOMAIN s
    PROVE  /\ RemoveAt(s, i) \in Seq(S)
           /\ DOMAIN RemoveAt(s, i) = 1 .. Len(s) - 1
           /\ \A k \in DOMAIN RemoveAt(s, i) :
                /\ Was(i, k) \in DOMAIN s \ {i}
                /\ RemoveAt(s, i)[k] = s[Was(i, k)]
           /\ \A k \in DOMAIN s \ {i} :
                /\ Becomes(i, k) \in DOMAIN RemoveAt(s, i)
                /\ RemoveAt(s, i)[Becomes(i, k)] = s[k]
  <1> DEFINE a == SubSeq(s, 1, i - 1)
             b == SubSeq(s, i + 1, Len(s))
  <1>1. Len(s) \in Nat /\ i \in 1 .. Len(s) /\ DOMAIN s = 1 .. Len(s)
    OBVIOUS
  <1>2. /\ a \in Seq(S) /\ Len(a) = i - 1
        /\ \A k \in 1 .. i - 1 : a[k] = s[k]
    BY <1>1
  <1>3. /\ b \in Seq(S) /\ Len(b) = Len(s) - i
        /\ \A k \in 1 .. Len(s) - i : b[k] = s[k + i]
    <2>1. \A k \in i + 1 .. Len(s) : s[k] \in S
      BY <1>1
    <2>2. b \in Seq(S) /\ Len(b) = Len(s) - i
      BY <1>1, <2>1
    <2>3. ASSUME NEW k \in 1 .. Len(s) - i PROVE b[k] = s[k + i]
      <3>1. (i + 1) + k - 1 = k + i
        BY <1>1
      <3>2. b[k] = s[(i + 1) + k - 1]
        BY <1>1
      <3> QED
        BY <3>1, <3>2
    <2> QED
      BY <2>2, <2>3
  <1> HIDE DEF a, b
  <1>4. /\ a \o b \in Seq(S) /\ Len(a \o b) = Len(s) - 1
        /\ \A k \in 1 .. Len(s) - 1 :
             (a \o b)[k] = IF k <= i - 1 THEN a[k] ELSE b[k - (i - 1)]
    <2>1. /\ a \o b \in Seq(S) /\ Len(a \o b) = Len(a) + Len(b)
          /\ \A k \in 1 .. Len(a) + Len(b) :
               (a \o b)[k] = IF k <= Len(a) THEN a[k] ELSE b[k - Len(a)]
      BY <1>2, <1>3
    <2>2. (i - 1) + (Len(s) - i) = Len(s) - 1
      BY <1>1
    <2> QED
      BY <1>2, <1>3, <2>1, <2>2
  <1>5. RemoveAt(s, i) = a \o b
    BY DEF RemoveAt, a, b
  <1>6. ASSUME NEW k \in 1 .. Len(s) - 1
        PROVE  Was(i, k) \in DOMAIN s \ {i} /\ (a \o b)[k] = s[Was(i, k)]
    <2>1. CASE k < i
      BY <1>1, <1>2, <1>4, <2>1 DEF Was
    <2>2. CASE ~(k < i)
      <3>1. /\ k - (i - 1) \in 1 .. Len(s) - i /\ (k - (i - 1)) + i = k + 1
            /\ ~(k <= i - 1)
        BY <1>1, <2>2
      <3>2. (a \o b)[k] = s[k + 1] /\ k + 1 \in DOMAIN s \ {i}
        <4>1. (a \o b)[k] = b[k - (i - 1)]
          BY <1>4, <3>1
        <4>2. b[k - (i - 1)] = s[k + 1]
          BY <1>3, <3>1
        <4>3. k + 1 \in DOMAIN s \ {i}
          BY <1>1, <2>2
        <4> QED
          BY <4>1, <4>2, <4>3
      <3> QED
        BY <2>2, <3>2 DEF Was
    <2> QED
      BY <2>1, <2>2
  <1>7. ASSUME NEW k \in DOMAIN s \ {i}
        PROVE  Becomes(i, k) \in 1 .. Len(s) - 1 /\ Was(i, Becomes(i, k)) = k
    BY <1>1 DEF Was, Becomes
  <1>8. DOMAIN (a \o b) = 1 .. Len(s) - 1
    BY <1>4
  <1>9. \A k \in DOMAIN s \ {i} : (a \o b)[Becomes(i, k)] = s[k]
    BY <1>6, <1>7
  <1> QED
    BY <1>4, <1>5, <1>6, <1>7, <1>8, <1>9

\* InsertAt: what is where, before and after.
LEMMA Inserted ==
    ASSUME NEW S, NEW s \in Seq(S), NEW i \in 1 .. Len(s) + 1, NEW e \in S
    PROVE  /\ InsertAt(s, i, e) \in Seq(S)
           /\ DOMAIN InsertAt(s, i, e) = 1 .. Len(s) + 1
           /\ InsertAt(s, i, e)[i] = e
           /\ \A k \in DOMAIN InsertAt(s, i, e) \ {i} :
                /\ Becomes(i, k) \in DOMAIN s
                /\ InsertAt(s, i, e)[k] = s[Becomes(i, k)]
           /\ \A k \in DOMAIN s :
                /\ Was(i, k) \in DOMAIN InsertAt(s, i, e) \ {i}
                /\ InsertAt(s, i, e)[Was(i, k)] = s[k]
  <1> DEFINE a == SubSeq(s, 1, i - 1)
             b == SubSeq(s, i, Len(s))
             t == a \o <<e>> \o b
  <1>1. Len(s) \in Nat /\ i \in 1 .. Len(s) + 1 /\ DOMAIN s = 1 .. Len(s)
    OBVIOUS
  <1>2. /\ a \in Seq(S) /\ Len(a) = i - 1
        /\ \A k \in 1 .. i - 1 : a[k] = s[k]
    BY <1>1
  <1>3. /\ b \in Seq(S) /\ Len(b) = Len(s) - i + 1
        /\ \A k \in 1 .. Len(s) - i + 1 : b[k] = s[k + i - 1]
    BY <1>1
  <1> HIDE DEF a, b
  <1>4. /\ a \o <<e>> \in Seq(S) /\ Len(a \o <<e>>) = i
        /\ (a \o <<e>>)[i] = e
        /\ \A k \in 1 .. i - 1 : (a \o <<e>>)[k] = s[k]
    BY <1>1, <1>2
  <1>5. /\ t \in Seq(S) /\ Len(t) = Len(s) + 1
        /\ \A k \in 1 .. Len(s) + 1 :
             t[k] = IF k <= i THEN (a \o <<e>>)[k] ELSE b[k - i]
    BY <1>1, <1>3, <1>4
  <1>6. InsertAt(s, i, e) = t
    BY DEF InsertAt, a, b
  <1> HIDE DEF t
  <1>7. t[i] = e
    BY <1>1, <1>4, <1>5
  <1>8. ASSUME NEW k \in 1 .. Len(s) + 1, k # i
        PROVE  Becomes(i, k) \in DOMAIN s /\ t[k] = s[Becomes(i, k)]
    <2>1. CASE k < i
      <3>1. k <= i /\ k \in 1 .. i - 1 /\ k \in 1 .. Len(s)
        BY <1>1, <2>1
      <3>2. t[k] = s[k]
        BY <1>4, <1>5, <3>1
      <3> QED
        BY <1>1, <2>1, <3>1, <3>2 DEF Becomes
    <2>2. CASE ~(k < i)
      <3>1. k - i \in 1 .. Len(s) - i + 1 /\ (k - i) + i - 1 = k - 1 /\ ~(k <= i)
            /\ k - 1 \in 1 .. Len(s)
        BY <1>1, <1>8, <2>2
      <3> QED
        <4>1. t[k] = b[k - i]
          BY <1>5, <3>1
        <4>2. b[k - i] = s[k - 1]
          BY <1>3, <3>1
        <4> QED
          BY <1>1, <2>2, <3>1, <4>1, <4>2 DEF Becomes
    <2> QED
      BY <2>1, <2>2
  <1>9. ASSUME NEW k \in DOMAIN s
        PROVE  /\ Was(i, k) \in 1 .. Len(s) + 1 /\ Was(i, k) # i
               /\ Becomes(i, Was(i, k)) = k
    BY <1>1 DEF Was, Becomes
  <1> QED
    BY <1>1, <1>5, <1>6, <1>7, <1>8, <1>9

-----------------------------------------------------------------------------
(* Strips.  GoodStrips are the well-formed ones; the operations of TaskStrip  *)
(* stay in them, and change the windows they show and the order of the slots  *)
(* as their names say.                                                        *)

Entries == [app : Apps, pinned : BOOLEAN, ref : RefSet]
GoodStrips == {s \in Seq(Entries) : WellFormed(s)}

\* SlotsAreFilled, entry by entry.
LEMMA FilledMeans ==
    ASSUME NEW s
    PROVE  SlotsAreFilled(s) <=>
             \A i, j \in DOMAIN s :
               s[i].ref = NoRef => s[i].pinned /\ (s[j].app = s[i].app => s[j].pinned)
  BY DEF SlotsAreFilled, Siblings, Places

\* A reference to a window is no empty slot.
LEMMA RefIsWindow ==
    ASSUME NEW ref \in Ids \X Nat
    PROVE  ref # NoRef /\ ref \in RefSet
  BY TaskBarAssumption DEF RefSet

\* The slots of s are slots of t, in the same order.
KeepsOrder(s, t) ==
    \A i, j \in DOMAIN s :
        i < j /\ s[i].pinned /\ s[j].pinned =>
            \E k, l \in DOMAIN t :
                /\ k < l
                /\ t[k].pinned /\ t[k].app = s[i].app
                /\ t[l].pinned /\ t[l].app = s[j].app

\* The order of the slots is kept from step to step.
LEMMA OrderKept ==
    ASSUME NEW s, NEW t, NEW u, KeepsOrder(s, t), KeepsOrder(t, u)
    PROVE  KeepsOrder(s, u)
  BY DEF KeepsOrder

\* An entry is put in the place of another that gives up its window, if it has
\* one, and keeps its application.
LEMMA Replaced ==
    ASSUME NEW s \in Seq(Entries), NEW i \in DOMAIN s, NEW e \in Entries
    PROVE  /\ ReplaceAt(s, i, e) \in Seq(Entries)
           /\ DOMAIN ReplaceAt(s, i, e) = DOMAIN s
           /\ ReplaceAt(s, i, e)[i] = e
           /\ \A k \in DOMAIN s \ {i} : ReplaceAt(s, i, e)[k] = s[k]
  BY DEF ReplaceAt

\* The two kinds of entries.
LEMMA EntryTypes ==
    ASSUME NEW app \in Apps, NEW ref \in RefSet
    PROVE  /\ Slot(app, ref) \in Entries /\ WindowEntry(app, ref) \in Entries
           /\ Slot(app, ref).pinned /\ Slot(app, ref).app = app /\ Slot(app, ref).ref = ref
           /\ ~WindowEntry(app, ref).pinned /\ WindowEntry(app, ref).app = app
           /\ WindowEntry(app, ref).ref = ref
  BY DEF Slot, WindowEntry, Entries

\* An entry at the end.
LEMMA Appended ==
    ASSUME NEW s \in Seq(Entries), NEW e \in Entries
    PROVE  /\ Append(s, e) \in Seq(Entries)
           /\ DOMAIN Append(s, e) = DOMAIN s \cup {Len(s) + 1}
           /\ Len(s) + 1 \notin DOMAIN s /\ Len(s) + 1 \in Nat
           /\ Append(s, e)[Len(s) + 1] = e
           /\ \A k \in DOMAIN s : Append(s, e)[k] = s[k]
  OBVIOUS

\* add_window: the strip has the window, once, in an empty slot of its application
\* if there is one; the slots are where they were.
LEMMA AddKeeps ==
    ASSUME NEW s \in GoodStrips, NEW app \in Apps, NEW ref \in Ids \X Nat
    PROVE  /\ AddWindow(s, app, ref) \in GoodStrips
           /\ RefsIn(AddWindow(s, app, ref)) = RefsIn(s) \cup {ref}
           /\ KeepsOrder(s, AddWindow(s, app, ref))
  <1> DEFINE t == AddWindow(s, app, ref)
  <1>1. /\ s \in Seq(Entries) /\ WellFormed(s) /\ ref # NoRef /\ ref \in RefSet
        /\ DOMAIN s \in SUBSET Nat /\ \A k \in DOMAIN s : s[k] \in Entries
    BY RefIsWindow DEF GoodStrips
  <1>2. CASE WindowAt(s, ref) # {}
    <2>1. t = s
      BY <1>2 DEF AddWindow
    <2>2. ref \in RefsIn(s)
      BY <1>1, <1>2 DEF WindowAt, Places, RefsIn
    <2>3. KeepsOrder(s, s)
      BY DEF KeepsOrder
    <2> QED
      BY <2>1, <2>2, <2>3
  <1>3. ASSUME WindowAt(s, ref) = {}
        PROVE  \A k \in DOMAIN s : s[k].ref # ref
    BY <1>3 DEF WindowAt, Places
  <1>4. CASE WindowAt(s, ref) = {} /\ EmptySlot(s, app) # {}
    <2> DEFINE i == FirstOf(EmptySlot(s, app))
    <2>1. EmptySlot(s, app) \in SUBSET Nat
      BY <1>1 DEF EmptySlot, Places
    <2>2. i \in EmptySlot(s, app)
      BY <1>4, <2>1, FirstIsLeast
    <2>3. i \in DOMAIN s /\ s[i].app = app /\ s[i].pinned /\ s[i].ref = NoRef
      BY <2>2 DEF EmptySlot, Places
    <2>4. t = ReplaceAt(s, i, Slot(app, ref))
      BY <1>4 DEF AddWindow
    <2> HIDE DEF i, t
    <2>5. /\ t \in Seq(Entries) /\ DOMAIN t = DOMAIN s
          /\ t[i].app = app /\ t[i].pinned /\ t[i].ref = ref
          /\ \A k \in DOMAIN s \ {i} : t[k] = s[k]
      <3> DEFINE e == Slot(app, ref)
      <3>1. e \in Entries /\ e.app = app /\ e.pinned /\ e.ref = ref
        BY <1>1, EntryTypes
      <3> HIDE DEF e
      <3>2. t = ReplaceAt(s, i, e)
        BY <2>4 DEF e
      <3>3. /\ t \in Seq(Entries) /\ DOMAIN t = DOMAIN s /\ t[i] = e
            /\ \A k \in DOMAIN s \ {i} : t[k] = s[k]
        BY <1>1, <2>3, <3>1, <3>2, Replaced
      <3> QED
        BY <3>1, <3>3
    <2>6. \A k \in DOMAIN s : t[k].app = s[k].app /\ (t[k].pinned <=> s[k].pinned)
      BY <2>3, <2>5
    <2>7. EachWindowOnce(t)
      BY <1>1, <1>3, <1>4, <2>3, <2>5 DEF WellFormed, EachWindowOnce
    <2>8. EachPinOnce(t)
      BY <1>1, <2>5, <2>6 DEF WellFormed, EachPinOnce
    <2>9. SlotsAreFilled(t)
      <3>1. ASSUME NEW k \in DOMAIN t, NEW j \in DOMAIN t, t[k].ref = NoRef
            PROVE  t[k].pinned /\ (t[j].app = t[k].app => t[j].pinned)
        <4>1. k # i /\ s[k].ref = NoRef /\ k \in DOMAIN s /\ j \in DOMAIN s
          BY <1>1, <2>5, <3>1
        <4>2. s[k].pinned /\ (s[j].app = s[k].app => s[j].pinned)
          BY <1>1, <4>1, FilledMeans DEF WellFormed
        <4> QED
          BY <2>6, <4>1, <4>2
      <3> QED
        BY <3>1, FilledMeans
    <2>10. RefsIn(t) = RefsIn(s) \cup {ref}
      <3>1. ASSUME NEW k \in DOMAIN t PROVE t[k].ref \in RefsIn(s) \cup {ref, NoRef}
        BY <2>3, <2>5 DEF RefsIn
      <3>2. ASSUME NEW k \in DOMAIN s, s[k].ref # NoRef PROVE s[k].ref \in RefsIn(t)
        BY <2>3, <2>5, <3>2 DEF RefsIn
      <3>3. ref \in RefsIn(t)
        BY <1>1, <2>3, <2>5 DEF RefsIn
      <3> QED
        BY <1>1, <3>1, <3>2, <3>3 DEF RefsIn
    <2>11. KeepsOrder(s, t)
      BY <2>5, <2>6 DEF KeepsOrder
    <2> QED
      BY <2>5, <2>7, <2>8, <2>9, <2>10, <2>11 DEF GoodStrips, WellFormed, t
  <1>5. CASE WindowAt(s, ref) = {} /\ EmptySlot(s, app) = {}
    <2> DEFINE n == Len(s) + 1
    <2>1. ASSUME NEW k \in DOMAIN s, s[k].ref = NoRef, s[k].pinned, s[k].app = app
          PROVE  FALSE
      <3>1. k \in EmptySlot(s, app)
        BY <2>1 DEF EmptySlot, Places
      <3> QED
        BY <1>5, <3>1
    <2>2. t = Append(s, WindowEntry(app, ref))
      BY <1>5 DEF AddWindow
    <2> HIDE DEF t
    <2>3. /\ t \in Seq(Entries) /\ DOMAIN t = DOMAIN s \cup {n} /\ n \notin DOMAIN s
          /\ t[n].app = app /\ ~t[n].pinned /\ t[n].ref = ref
          /\ \A k \in DOMAIN s : t[k] = s[k]
      BY <1>1, <2>2, Appended, EntryTypes
    <2> HIDE DEF n
    <2>4. EachWindowOnce(t)
      BY <1>1, <1>3, <1>5, <2>3 DEF WellFormed, EachWindowOnce
    <2>5. EachPinOnce(t)
      BY <1>1, <2>3 DEF WellFormed, EachPinOnce
    <2>6. SlotsAreFilled(t)
      BY <1>1, <2>1, <2>3, FilledMeans DEF WellFormed
    <2>7. RefsIn(t) = RefsIn(s) \cup {ref}
      BY <1>1, <2>3 DEF RefsIn
    <2>8. KeepsOrder(s, t)
      BY <2>3 DEF KeepsOrder
    <2> QED
      BY <2>3, <2>4, <2>5, <2>6, <2>7, <2>8 DEF GoodStrips, WellFormed, t
  <1> QED
    BY <1>2, <1>4, <1>5

\* t shows the entries of s at the places D, each once, in some order.
Shows(t, s, D) ==
    \E m \in [DOMAIN t -> D] :
        /\ \A k \in DOMAIN t : t[k] = s[m[k]]
        /\ \A k, l \in DOMAIN t : m[k] = m[l] => k = l
        /\ \A d \in D : \E k \in DOMAIN t : m[k] = d

\* What is asked of a strip is then asked of those places.
LEMMA ShownIsWellFormed ==
    ASSUME NEW s \in Seq(Entries), NEW t \in Seq(Entries), NEW D \in SUBSET DOMAIN s,
           Shows(t, s, D),
           \A i, j \in D : s[i].ref = s[j].ref /\ s[i].ref # NoRef => i = j,
           \A i, j \in D : s[i].pinned /\ s[j].pinned /\ s[i].app = s[j].app => i = j,
           \A i, j \in D :
             s[i].ref = NoRef => s[i].pinned /\ (s[j].app = s[i].app => s[j].pinned)
    PROVE  /\ t \in GoodStrips
           /\ RefsIn(t) = {s[i].ref : i \in D} \ {NoRef}
  <1>1. PICK m \in [DOMAIN t -> D] :
          /\ \A k \in DOMAIN t : t[k] = s[m[k]]
          /\ \A k, l \in DOMAIN t : m[k] = m[l] => k = l
          /\ \A d \in D : \E k \in DOMAIN t : m[k] = d
    BY DEF Shows
  <1>2. EachWindowOnce(t)
    BY <1>1 DEF EachWindowOnce
  <1>3. EachPinOnce(t)
    BY <1>1 DEF EachPinOnce
  <1>4. SlotsAreFilled(t)
    BY <1>1, FilledMeans
  <1>5. RefsIn(t) = {s[i].ref : i \in D} \ {NoRef}
    BY <1>1 DEF RefsIn
  <1> QED
    BY <1>2, <1>3, <1>4, <1>5 DEF GoodStrips, WellFormed

\* An entry is removed: the others are left, in their order.
LEMMA RemovedShows ==
    ASSUME NEW s \in Seq(Entries), NEW i \in DOMAIN s
    PROVE  /\ RemoveAt(s, i) \in Seq(Entries)
           /\ Shows(RemoveAt(s, i), s, DOMAIN s \ {i})
           /\ ~s[i].pinned => KeepsOrder(s, RemoveAt(s, i))
  <1> DEFINE t == RemoveAt(s, i)
             m == [k \in DOMAIN t |-> Was(i, k)]
  <1>1. /\ DOMAIN s \in SUBSET Nat /\ DOMAIN t \in SUBSET Nat /\ i \in Nat
        /\ t \in Seq(Entries)
        /\ \A k \in DOMAIN t : Was(i, k) \in DOMAIN s \ {i} /\ t[k] = s[Was(i, k)]
        /\ \A k \in DOMAIN s \ {i} : Becomes(i, k) \in DOMAIN t /\ t[Becomes(i, k)] = s[k]
    <2>1. DOMAIN s = 1 .. Len(s) /\ Len(s) \in Nat
      OBVIOUS
    <2>2. DOMAIN t = 1 .. Len(s) - 1
      BY Removed
    <2> HIDE DEF t
    <2>3. DOMAIN s \in SUBSET Nat /\ DOMAIN t \in SUBSET Nat /\ i \in Nat
      BY <2>1, <2>2
    <2> QED
      BY <2>3, Removed DEF t
  <1> HIDE DEF t
  <1>2. \A k, l \in DOMAIN t : Was(i, k) = Was(i, l) => k = l
    BY <1>1 DEF Was
  <1>3. \A k \in DOMAIN s \ {i} : Was(i, Becomes(i, k)) = k
    BY <1>1 DEF Was, Becomes
  <1>4. \A k, l \in DOMAIN s \ {i} : k < l => Becomes(i, k) < Becomes(i, l)
    BY <1>1 DEF Becomes
  <1>5. Shows(t, s, DOMAIN s \ {i})
    <2>1. m \in [DOMAIN t -> DOMAIN s \ {i}]
      BY <1>1
    <2>2. \A k \in DOMAIN t : m[k] = Was(i, k)
      OBVIOUS
    <2> HIDE DEF m
    <2>3. \A d \in DOMAIN s \ {i} : Becomes(i, d) \in DOMAIN t /\ m[Becomes(i, d)] = d
      BY <1>1, <1>3, <2>2
    <2>4. /\ \A k \in DOMAIN t : t[k] = s[m[k]]
          /\ \A k, l \in DOMAIN t : m[k] = m[l] => k = l
      BY <1>1, <1>2, <2>2
    <2> QED
      BY <2>1, <2>3, <2>4 DEF Shows
  <1>6. ASSUME ~s[i].pinned PROVE KeepsOrder(s, t)
    <2>1. ASSUME NEW a \in DOMAIN s, NEW b \in DOMAIN s, a < b, s[a].pinned, s[b].pinned
          PROVE  \E k, l \in DOMAIN t :
                    /\ k < l
                    /\ t[k].pinned /\ t[k].app = s[a].app
                    /\ t[l].pinned /\ t[l].app = s[b].app
      <3>1. a \in DOMAIN s \ {i} /\ b \in DOMAIN s \ {i}
        BY <1>6, <2>1
      <3>2. /\ Becomes(i, a) \in DOMAIN t /\ t[Becomes(i, a)] = s[a]
            /\ Becomes(i, b) \in DOMAIN t /\ t[Becomes(i, b)] = s[b]
            /\ Becomes(i, a) < Becomes(i, b)
        BY <1>1, <1>4, <2>1, <3>1
      <3> QED
        BY <2>1, <3>2
    <2> QED
      BY <2>1 DEF KeepsOrder
  <1> QED
    BY <1>1, <1>5, <1>6 DEF t

\* An entry is moved: all are left.
LEMMA MovedShows ==
    ASSUME NEW s \in Seq(Entries), NEW from \in DOMAIN s, NEW to \in DOMAIN s
    PROVE  LET t == InsertAt(RemoveAt(s, from), to, s[from])
           IN  t \in Seq(Entries) /\ Shows(t, s, DOMAIN s)
  <1> DEFINE u == RemoveAt(s, from)
             t == InsertAt(u, to, s[from])
             m == [k \in DOMAIN t |-> IF k = to THEN from ELSE Was(from, Becomes(to, k))]
  <1>1. /\ DOMAIN s = 1 .. Len(s) /\ Len(s) \in Nat /\ s[from] \in Entries
        /\ from \in 1 .. Len(s) /\ to \in 1 .. Len(s) /\ Len(s) - 1 \in Nat
    OBVIOUS
  <1>2. /\ u \in Seq(Entries) /\ DOMAIN u = 1 .. Len(s) - 1
        /\ \A k \in DOMAIN u : Was(from, k) \in DOMAIN s \ {from} /\ u[k] = s[Was(from, k)]
        /\ \A k \in DOMAIN s \ {from} : Becomes(from, k) \in DOMAIN u
    <2> HIDE DEF u
    <2>1. u \in Seq(Entries)
      BY Removed DEF u
    <2>2. DOMAIN u = 1 .. Len(s) - 1
      BY Removed DEF u
    <2>3. /\ \A k \in DOMAIN u : Was(from, k) \in DOMAIN s \ {from} /\ u[k] = s[Was(from, k)]
          /\ \A k \in DOMAIN s \ {from} : Becomes(from, k) \in DOMAIN u
      BY Removed DEF u
    <2> QED
      BY <2>1, <2>2, <2>3
  <1> HIDE DEF u
  <1>3. Len(u) = Len(s) - 1 /\ to \in 1 .. Len(u) + 1
    <2>1. Len(u) \in Nat /\ DOMAIN u = 1 .. Len(u)
      <3>1. u \in Seq(Entries)
        BY <1>2
      <3> QED
        BY <3>1
    <2>2. Len(u) = Len(s) - 1
      BY <1>2, <2>1
    <2> QED
      BY <1>1, <2>2
  <1>4. /\ t \in Seq(Entries) /\ DOMAIN t = 1 .. Len(s)
        /\ t[to] = s[from]
        /\ \A k \in DOMAIN t \ {to} :
             Becomes(to, k) \in DOMAIN u /\ t[k] = u[Becomes(to, k)]
        /\ \A k \in DOMAIN u : Was(to, k) \in DOMAIN t \ {to}
    <2> DEFINE e == s[from]
    <2>1. Len(u) + 1 = Len(s) /\ e \in Entries
      BY <1>1, <1>3
    <2> HIDE DEF e, t
    <2>2. t = InsertAt(u, to, e) /\ u \in Seq(Entries) /\ to \in 1 .. Len(u) + 1
      BY <1>2, <1>3 DEF t, e
    <2>3. t \in Seq(Entries)
      BY <2>1, <2>2, Inserted
    <2>8. t[to] = e
      BY <2>1, <2>2, Inserted
    <2>4. DOMAIN t = 1 .. Len(s)
      BY <1>2, <1>3, <2>1, <2>2, Inserted
    <2>5. \A k \in DOMAIN t \ {to} :
               Becomes(to, k) \in DOMAIN u /\ t[k] = u[Becomes(to, k)]
      BY <2>1, <2>2, Inserted
    <2>7. \A k \in DOMAIN u : Was(to, k) \in DOMAIN t \ {to}
      BY <2>1, <2>2, Inserted
    <2>6. t[to] = s[from]
      BY <2>8 DEF e
    <2> QED
      BY <2>3, <2>4, <2>5, <2>6, <2>7
  <1> HIDE DEF t
  <1>5. \A k \in DOMAIN t :
          /\ m[k] \in DOMAIN s /\ t[k] = s[m[k]]
          /\ m[k] = IF k = to THEN from ELSE Was(from, Becomes(to, k))
          /\ k # to => m[k] # from
    BY <1>1, <1>2, <1>4
  <1>6. m \in [DOMAIN t -> DOMAIN s]
    BY <1>5
  <1> HIDE DEF m
  <1>7. \A k, l \in DOMAIN t : m[k] = m[l] => k = l
    <2>1. \A k, l \in DOMAIN t \ {to} :
            Was(from, Becomes(to, k)) = Was(from, Becomes(to, l)) => k = l
      BY <1>1, <1>4 DEF Was, Becomes
    <2> QED
      BY <1>5, <2>1
  <1>8. ASSUME NEW d \in DOMAIN s PROVE \E k \in DOMAIN t : m[k] = d
    <2>1. CASE d = from
      BY <1>1, <1>4, <1>5, <2>1
    <2>2. CASE d # from
      <3>1. Becomes(from, d) \in DOMAIN u
        BY <1>2, <2>2
      <3>2. Was(to, Becomes(from, d)) \in DOMAIN t \ {to}
        BY <1>4, <3>1
      <3>3. Was(from, Becomes(to, Was(to, Becomes(from, d)))) = d
        BY <1>1, <2>2 DEF Was, Becomes
      <3> QED
        BY <1>5, <3>2, <3>3
    <2> QED
      BY <2>1, <2>2
  <1> QED
    BY <1>4, <1>5, <1>6, <1>7, <1>8 DEF Shows, t, u

\* A strip that is well-formed, entry by entry.
LEMMA GoodMeans ==
    ASSUME NEW s \in GoodStrips
    PROVE  /\ s \in Seq(Entries)
           /\ DOMAIN s \in SUBSET Nat
           /\ \A i \in DOMAIN s : s[i] \in Entries
           /\ \A i, j \in DOMAIN s : s[i].ref = s[j].ref /\ s[i].ref # NoRef => i = j
           /\ \A i, j \in DOMAIN s :
                s[i].pinned /\ s[j].pinned /\ s[i].app = s[j].app => i = j
           /\ \A i, j \in DOMAIN s :
                s[i].ref = NoRef => s[i].pinned /\ (s[j].app = s[i].app => s[j].pinned)
  <1>1. s \in Seq(Entries) /\ SlotsAreFilled(s) /\ EachWindowOnce(s) /\ EachPinOnce(s)
    BY DEF GoodStrips, WellFormed
  <1>2. DOMAIN s \in SUBSET Nat /\ \A i \in DOMAIN s : s[i] \in Entries
    BY <1>1
  <1> QED
    BY <1>1, <1>2, FilledMeans DEF EachWindowOnce, EachPinOnce

\* remove_window of a window whose slot stays: the slot is empty now, or has the
\* window of a sibling, whose entry goes.
LEMMA VacateKeeps ==
    ASSUME NEW s \in GoodStrips, NEW i \in DOMAIN s, s[i].pinned, s[i].ref # NoRef
    PROVE  /\ VacateSlot(s, i) \in GoodStrips
           /\ RefsIn(VacateSlot(s, i)) = RefsIn(s) \ {s[i].ref}
           /\ KeepsOrder(s, VacateSlot(s, i))
  <1> DEFINE app == s[i].app
             t == VacateSlot(s, i)
  <1>1. s[i] \in Entries /\ app \in Apps /\ s[i].ref \in RefSet /\ NoRef \in RefSet
    BY GoodMeans DEF Entries, RefSet
  <1> HIDE DEF app
  <1>2. CASE Siblings(s, app) = {}
    <2> DEFINE e == Slot(app, NoRef)
    <2>1. e \in Entries /\ e.app = app /\ e.pinned /\ e.ref = NoRef
      BY <1>1, EntryTypes
    <2>2. t = ReplaceAt(s, i, e)
      BY <1>2 DEF VacateSlot, app
    <2> HIDE DEF e, t
    <2>3. /\ t \in Seq(Entries) /\ DOMAIN t = DOMAIN s /\ t[i] = e
          /\ \A k \in DOMAIN s \ {i} : t[k] = s[k]
      BY <2>1, <2>2, GoodMeans, Replaced
    <2>4. ASSUME NEW k \in DOMAIN s PROVE t[k].app = s[k].app /\ (t[k].pinned <=> s[k].pinned)
      BY <2>1, <2>3 DEF app
    <2>5. ASSUME NEW k \in DOMAIN s, s[k].app = app PROVE s[k].pinned
      BY <1>2, <2>5 DEF Siblings, Places
    <2>6. EachWindowOnce(t)
      BY <2>1, <2>3, GoodMeans DEF EachWindowOnce
    <2>7. EachPinOnce(t)
      BY <2>3, <2>4, GoodMeans DEF EachPinOnce
    <2>8. SlotsAreFilled(t)
      <3>1. ASSUME NEW k \in DOMAIN t, NEW j \in DOMAIN t, t[k].ref = NoRef
            PROVE  t[k].pinned /\ (t[j].app = t[k].app => t[j].pinned)
        <4>1. CASE k = i
          BY <2>1, <2>3, <2>4, <2>5, <4>1
        <4>2. CASE k # i
          BY <2>3, <2>4, <3>1, <4>2, GoodMeans
        <4> QED
          BY <4>1, <4>2
      <3> QED
        BY <3>1, FilledMeans
    <2>9. RefsIn(t) = RefsIn(s) \ {s[i].ref}
      <3>1. ASSUME NEW k \in DOMAIN t, t[k].ref # NoRef
            PROVE  t[k].ref \in RefsIn(s) \ {s[i].ref}
        <4>1. k # i /\ k \in DOMAIN s /\ t[k] = s[k]
          BY <2>1, <2>3, <3>1
        <4>2. s[k].ref # s[i].ref
          BY <3>1, <4>1, GoodMeans
        <4> QED
          BY <3>1, <4>1, <4>2 DEF RefsIn
      <3>2. ASSUME NEW k \in DOMAIN s, s[k].ref # NoRef, s[k].ref # s[i].ref
            PROVE  s[k].ref \in RefsIn(t)
        <4>1. k \in DOMAIN t /\ t[k] = s[k]
          BY <2>3, <3>2
        <4> QED
          BY <3>2, <4>1 DEF RefsIn
      <3> QED
        BY <3>1, <3>2 DEF RefsIn
    <2>10. KeepsOrder(s, t)
      BY <2>3, <2>4 DEF KeepsOrder
    <2> QED
      BY <2>3, <2>6, <2>7, <2>8, <2>9, <2>10 DEF GoodStrips, WellFormed, t
  <1>3. CASE Siblings(s, app) # {}
    <2> DEFINE j == FirstOf(Siblings(s, app))
               e == Slot(app, s[j].ref)
               u == ReplaceAt(s, i, e)
    <2>1. j \in DOMAIN s /\ s[j].app = app /\ ~s[j].pinned
      <3>1. Siblings(s, app) \in SUBSET Nat
        BY GoodMeans DEF Siblings, Places
      <3>2. j \in Siblings(s, app)
        BY <1>3, <3>1, FirstIsLeast
      <3> QED
        BY <3>2 DEF Siblings, Places
    <2> HIDE DEF j
    <2>2. j # i /\ s[j].ref \in RefSet /\ s[j].ref # NoRef
      <3>1. s[j] \in Entries
        BY <2>1, GoodMeans
      <3>2. s[j].ref # NoRef
        BY <2>1, GoodMeans
      <3> QED
        BY <2>1, <3>1, <3>2 DEF Entries
    <2>3. e \in Entries /\ e.app = app /\ e.pinned /\ e.ref = s[j].ref
      BY <1>1, <2>2, EntryTypes
    <2>4. t = RemoveAt(u, j)
      BY <1>3 DEF VacateSlot, app, j
    <2> HIDE DEF e
    <2>5. /\ u \in Seq(Entries) /\ DOMAIN u = DOMAIN s /\ u[i] = e
          /\ \A k \in DOMAIN s \ {i} : u[k] = s[k]
      BY <2>3, GoodMeans, Replaced
    <2> HIDE DEF u, t
    <2>6. ASSUME NEW k \in DOMAIN s PROVE u[k].app = s[k].app /\ (u[k].pinned <=> s[k].pinned)
      BY <2>3, <2>5 DEF app
    <2>7. ~u[j].pinned /\ j \in DOMAIN u
      BY <2>1, <2>5, <2>6
    <2>8. /\ t \in Seq(Entries)
          /\ Shows(t, u, DOMAIN u \ {j})
          /\ KeepsOrder(u, t)
      BY <2>4, <2>5, <2>7, RemovedShows
    <2>9. \A a, b \in DOMAIN u \ {j} : u[a].ref = u[b].ref /\ u[a].ref # NoRef => a = b
      <3>1. ASSUME NEW a \in DOMAIN s \ {i, j} PROVE u[a].ref = s[j].ref => FALSE
        BY <2>1, <2>2, <2>5, GoodMeans
      <3>2. ASSUME NEW a \in DOMAIN s \ {i, j}, NEW b \in DOMAIN s \ {i, j},
                   u[a].ref = u[b].ref, u[a].ref # NoRef
            PROVE  a = b
        BY <2>5, <3>2, GoodMeans
      <3> QED
        BY <2>3, <2>5, <3>1, <3>2
    <2>10. \A a, b \in DOMAIN u \ {j} :
             u[a].pinned /\ u[b].pinned /\ u[a].app = u[b].app => a = b
      BY <2>5, <2>6, GoodMeans
    <2>11. \A a, b \in DOMAIN u \ {j} :
             u[a].ref = NoRef => u[a].pinned /\ (u[b].app = u[a].app => u[b].pinned)
      <3>1. ASSUME NEW a \in DOMAIN s, NEW b \in DOMAIN s, u[a].ref = NoRef
            PROVE  u[a].pinned /\ (u[b].app = u[a].app => u[b].pinned)
        <4>1. a # i /\ u[a] = s[a]
          BY <2>2, <2>3, <2>5, <3>1
        <4>2. s[a].pinned /\ (s[b].app = s[a].app => s[b].pinned)
          BY <3>1, <4>1, GoodMeans
        <4> QED
          BY <2>6, <4>2
      <3> QED
        BY <2>5, <3>1
    <2>12. /\ t \in GoodStrips
           /\ RefsIn(t) = {u[k].ref : k \in DOMAIN u \ {j}} \ {NoRef}
      BY <2>5, <2>8, <2>9, <2>10, <2>11, ShownIsWellFormed
    <2>13. RefsIn(t) = RefsIn(s) \ {s[i].ref}
      <3>1. ASSUME NEW k \in DOMAIN u \ {j}, u[k].ref # NoRef
            PROVE  u[k].ref \in RefsIn(s) \ {s[i].ref}
        <4>1. CASE k = i
          <5>1. u[k].ref = s[j].ref /\ s[j].ref # s[i].ref
            BY <2>1, <2>2, <2>3, <2>5, <4>1, GoodMeans
          <5> QED
            BY <2>1, <2>2, <5>1 DEF RefsIn
        <4>2. CASE k # i
          <5>1. k \in DOMAIN s /\ u[k] = s[k] /\ s[k].ref # s[i].ref
            BY <2>5, <3>1, <4>2, GoodMeans
          <5> QED
            BY <3>1, <5>1 DEF RefsIn
        <4> QED
          BY <4>1, <4>2
      <3>2. ASSUME NEW k \in DOMAIN s, s[k].ref # NoRef, s[k].ref # s[i].ref
            PROVE  \E l \in DOMAIN u \ {j} : u[l].ref = s[k].ref
        <4>1. CASE k = j
          BY <2>2, <2>3, <2>5, <4>1
        <4>2. CASE k # j
          BY <2>5, <3>2, <4>2
        <4> QED
          BY <4>1, <4>2
      <3>3. RefsIn(t) \subseteq RefsIn(s) \ {s[i].ref}
        BY <2>12, <3>1
      <3>4. ASSUME NEW r \in RefsIn(s) \ {s[i].ref} PROVE r \in RefsIn(t)
        <4>1. PICK k \in DOMAIN s : s[k].ref = r /\ r # NoRef
          BY DEF RefsIn
        <4> QED
          BY <2>12, <3>2, <4>1
      <3> QED
        BY <3>3, <3>4
    <2>14. KeepsOrder(s, u)
      BY <2>5, <2>6 DEF KeepsOrder
    <2>15. KeepsOrder(s, t)
      BY <2>8, <2>14, OrderKept
    <2> QED
      BY <2>12, <2>13, <2>15 DEF t
  <1> QED
    BY <1>2, <1>3

\* remove_window: the window is gone, and the slots are where they were.
LEMMA RemoveKeeps ==
    ASSUME NEW s \in GoodStrips, NEW ref \in RefSet \ {NoRef}
    PROVE  /\ RemoveWindow(s, ref) \in GoodStrips
           /\ RefsIn(RemoveWindow(s, ref)) = RefsIn(s) \ {ref}
           /\ KeepsOrder(s, RemoveWindow(s, ref))
  <1> DEFINE i == FirstOf(WindowAt(s, ref))
             t == RemoveWindow(s, ref)
  <1>1. CASE WindowAt(s, ref) = {}
    <2>1. t = s
      BY <1>1 DEF RemoveWindow
    <2>2. ref \notin RefsIn(s)
      BY <1>1 DEF WindowAt, Places, RefsIn
    <2>3. KeepsOrder(s, s)
      BY DEF KeepsOrder
    <2> QED
      BY <2>1, <2>2, <2>3
  <1>2. CASE WindowAt(s, ref) # {}
    <2>1. i \in DOMAIN s /\ s[i].ref = ref
      <3>1. WindowAt(s, ref) \in SUBSET Nat
        BY GoodMeans DEF WindowAt, Places
      <3>2. i \in WindowAt(s, ref)
        BY <1>2, <3>1, FirstIsLeast
      <3> QED
        BY <3>2 DEF WindowAt, Places
    <2>2. CASE s[i].pinned
      <3>1. t = VacateSlot(s, i)
        BY <1>2, <2>2 DEF RemoveWindow
      <3> HIDE DEF i, t
      <3> QED
        BY <2>1, <2>2, <3>1, VacateKeeps DEF t
    <2>3. CASE ~s[i].pinned
      <3>1. t = RemoveAt(s, i)
        BY <1>2, <2>3 DEF RemoveWindow
      <3> HIDE DEF i, t
      <3>2. /\ t \in Seq(Entries)
            /\ Shows(t, s, DOMAIN s \ {i})
            /\ KeepsOrder(s, t)
        BY <2>1, <2>3, <3>1, GoodMeans, RemovedShows
      <3>3. /\ t \in GoodStrips
            /\ RefsIn(t) = {s[k].ref : k \in DOMAIN s \ {i}} \ {NoRef}
        BY <3>2, GoodMeans, ShownIsWellFormed
      <3>4. RefsIn(t) = RefsIn(s) \ {ref}
        <4>1. \A k \in DOMAIN s \ {i} : s[k].ref # ref
          BY <2>1, GoodMeans
        <4> QED
          BY <2>1, <3>3, <4>1 DEF RefsIn
      <3> QED
        BY <3>2, <3>3, <3>4 DEF t
    <2> QED
      BY <2>2, <2>3
  <1> QED
    BY <1>1, <1>2

\* An entry gets or loses its pin in place.
LEMMA RepinKeeps ==
    ASSUME NEW s \in GoodStrips, NEW i \in DOMAIN s, NEW e \in Entries,
           e.app = s[i].app, e.ref = s[i].ref, e.ref # NoRef,
           \A k \in DOMAIN s \ {i} : s[k].pinned => s[k].app # s[i].app
    PROVE  /\ ReplaceAt(s, i, e) \in GoodStrips
           /\ RefsIn(ReplaceAt(s, i, e)) = RefsIn(s)
  <1> DEFINE t == ReplaceAt(s, i, e)
  <1>1. /\ t \in Seq(Entries) /\ DOMAIN t = DOMAIN s /\ t[i] = e
        /\ \A k \in DOMAIN s \ {i} : t[k] = s[k]
    BY GoodMeans, Replaced
  <1> HIDE DEF t
  <1>2. \A k \in DOMAIN s : t[k].app = s[k].app /\ t[k].ref = s[k].ref
    BY <1>1
  <1>3. EachWindowOnce(t)
    BY <1>1, <1>2, GoodMeans DEF EachWindowOnce
  <1>4. EachPinOnce(t)
    BY <1>1, <1>2, GoodMeans DEF EachPinOnce
  <1>5. SlotsAreFilled(t)
    <2>1. ASSUME NEW k \in DOMAIN t, NEW j \in DOMAIN t, t[k].ref = NoRef
          PROVE  t[k].pinned /\ (t[j].app = t[k].app => t[j].pinned)
      <3>1. k # i /\ t[k] = s[k] /\ s[k].ref = NoRef
        BY <1>1, <2>1
      <3>2. s[k].pinned /\ (s[j].app = s[k].app => s[j].pinned)
        BY <1>1, <3>1, GoodMeans
      <3>3. s[k].app # s[i].app
        BY <1>1, <3>1, <3>2
      <3>4. j = i => t[j].app # t[k].app
        BY <1>1, <3>1, <3>3
      <3>5. j # i => t[j] = s[j]
        BY <1>1
      <3> QED
        BY <3>1, <3>2, <3>4, <3>5
    <2> QED
      BY <2>1, FilledMeans
  <1>6. RefsIn(t) = RefsIn(s)
    BY <1>1, <1>2 DEF RefsIn
  <1> QED
    BY <1>1, <1>3, <1>4, <1>5, <1>6 DEF GoodStrips, WellFormed, t

\* pin_app: the windows of the strip are the same.
LEMMA PinKeeps ==
    ASSUME NEW s \in GoodStrips, NEW app \in Apps
    PROVE  Pin(s, app) \in GoodStrips /\ RefsIn(Pin(s, app)) = RefsIn(s)
  <1> DEFINE t == Pin(s, app)
  <1>1. CASE PinnedAt(s, app) # {}
    BY <1>1 DEF Pin
  <1>2. ASSUME PinnedAt(s, app) = {}, NEW k \in DOMAIN s, s[k].pinned
        PROVE  s[k].app # app
    BY <1>2 DEF PinnedAt, Places
  <1>3. CASE PinnedAt(s, app) = {} /\ LiveOf(s, app) # {}
    <2> DEFINE i == FirstOf(LiveOf(s, app))
               e == Slot(app, s[i].ref)
    <2>1. i \in DOMAIN s /\ s[i].app = app /\ s[i].ref # NoRef
      <3>1. LiveOf(s, app) \in SUBSET Nat
        BY GoodMeans DEF LiveOf, Places
      <3>2. i \in LiveOf(s, app)
        BY <1>3, <3>1, FirstIsLeast
      <3> QED
        BY <3>2 DEF LiveOf, Places
    <2>2. t = ReplaceAt(s, i, e)
      BY <1>3 DEF Pin
    <2> HIDE DEF i, t
    <2>3. s[i].ref \in RefSet
      <3>1. s[i] \in Entries
        BY <2>1, GoodMeans
      <3> QED
        BY <3>1 DEF Entries
    <2>4. e \in Entries /\ e.app = app /\ e.ref = s[i].ref
      BY <2>3, EntryTypes
    <2> HIDE DEF e
    <2>5. \A k \in DOMAIN s \ {i} : s[k].pinned => s[k].app # s[i].app
      BY <1>2, <1>3, <2>1
    <2> QED
      BY <2>1, <2>2, <2>4, <2>5, RepinKeeps DEF t
  <1>4. CASE PinnedAt(s, app) = {} /\ LiveOf(s, app) = {}
    <2> DEFINE n == Len(s) + 1
               e == Slot(app, NoRef)
    <2>1. t = Append(s, e)
      BY <1>4 DEF Pin
    <2>2. e \in Entries /\ e.app = app /\ e.pinned /\ e.ref = NoRef
      BY EntryTypes DEF RefSet
    <2> HIDE DEF e, t
    <2>3. /\ t \in Seq(Entries) /\ DOMAIN t = DOMAIN s \cup {n} /\ n \notin DOMAIN s
          /\ t[n] = e
          /\ \A k \in DOMAIN s : t[k] = s[k]
      BY <2>1, <2>2, GoodMeans, Appended
    <2> HIDE DEF n
    <2>4. ASSUME NEW k \in DOMAIN s PROVE s[k].app # app
      <3>1. s[k].ref = NoRef => s[k].pinned
        BY GoodMeans
      <3>2. s[k].ref # NoRef => s[k].app # app
        BY <1>4 DEF LiveOf, Places
      <3> QED
        BY <1>2, <1>4, <3>1, <3>2
    <2>5. EachWindowOnce(t)
      BY <2>2, <2>3, GoodMeans DEF EachWindowOnce
    <2>6. EachPinOnce(t)
      BY <2>2, <2>3, <2>4, GoodMeans DEF EachPinOnce
    <2>7. SlotsAreFilled(t)
      <3>1. ASSUME NEW k \in DOMAIN t, NEW j \in DOMAIN t, t[k].ref = NoRef
            PROVE  t[k].pinned /\ (t[j].app = t[k].app => t[j].pinned)
        <4>1. CASE k \in DOMAIN s /\ j \in DOMAIN s
          BY <2>3, <3>1, <4>1, GoodMeans
        <4>2. CASE k \in DOMAIN s /\ j = n
          <5>1. t[j].app # t[k].app
            BY <2>2, <2>3, <2>4, <4>2
          <5>2. t[k].pinned
            BY <2>3, <3>1, <4>2, GoodMeans
          <5> QED
            BY <5>1, <5>2
        <4>3. CASE k = n /\ j \in DOMAIN s
          <5>1. t[j].app # t[k].app
            BY <2>2, <2>3, <2>4, <4>3
          <5>2. t[k].pinned
            BY <2>2, <2>3, <4>3
          <5> QED
            BY <5>1, <5>2
        <4>4. CASE k = n /\ j = n
          BY <2>2, <2>3, <4>4
        <4> QED
          BY <2>3, <4>1, <4>2, <4>3, <4>4
      <3> QED
        BY <3>1, FilledMeans
    <2>8. RefsIn(t) = RefsIn(s)
      BY <2>2, <2>3 DEF RefsIn
    <2> QED
      BY <2>3, <2>5, <2>6, <2>7, <2>8 DEF GoodStrips, WellFormed, t
  <1> QED
    BY <1>1, <1>3, <1>4

\* unpin_app: the windows of the strip are the same.
LEMMA UnpinKeeps ==
    ASSUME NEW s \in GoodStrips, NEW app \in Apps
    PROVE  Unpin(s, app) \in GoodStrips /\ RefsIn(Unpin(s, app)) = RefsIn(s)
  <1> DEFINE i == FirstOf(PinnedAt(s, app))
             t == Unpin(s, app)
  <1>1. CASE PinnedAt(s, app) = {}
    BY <1>1 DEF Unpin
  <1>2. CASE PinnedAt(s, app) # {}
    <2>1. i \in DOMAIN s /\ s[i].app = app /\ s[i].pinned
      <3>1. PinnedAt(s, app) \in SUBSET Nat
        BY GoodMeans DEF PinnedAt, Places
      <3>2. i \in PinnedAt(s, app)
        BY <1>2, <3>1, FirstIsLeast
      <3> QED
        BY <3>2 DEF PinnedAt, Places
    <2>2. CASE s[i].ref = NoRef
      <3>1. t = RemoveAt(s, i)
        BY <1>2, <2>2 DEF Unpin
      <3> HIDE DEF i, t
      <3>2. t \in Seq(Entries) /\ Shows(t, s, DOMAIN s \ {i})
        BY <2>1, <3>1, GoodMeans, RemovedShows
      <3>3. /\ t \in GoodStrips
            /\ RefsIn(t) = {s[k].ref : k \in DOMAIN s \ {i}} \ {NoRef}
        BY <3>2, GoodMeans, ShownIsWellFormed
      <3>4. RefsIn(t) = RefsIn(s)
        BY <2>1, <2>2, <3>3 DEF RefsIn
      <3> QED
        BY <3>3, <3>4 DEF t
    <2>3. CASE s[i].ref # NoRef
      <3> DEFINE e == WindowEntry(app, s[i].ref)
      <3>1. t = ReplaceAt(s, i, e)
        BY <1>2, <2>3 DEF Unpin
      <3> HIDE DEF i, t
      <3>2. s[i].ref \in RefSet
        <4>1. s[i] \in Entries
          BY <2>1, GoodMeans
        <4> QED
          BY <4>1 DEF Entries
      <3>3. e \in Entries /\ e.app = app /\ e.ref = s[i].ref
        BY <3>2, EntryTypes
      <3> HIDE DEF e
      <3>4. \A k \in DOMAIN s \ {i} : s[k].pinned => s[k].app # s[i].app
        BY <2>1, GoodMeans
      <3> QED
        BY <2>1, <2>3, <3>1, <3>3, <3>4, RepinKeeps DEF t
    <2> QED
      BY <2>2, <2>3
  <1> QED
    BY <1>1, <1>2

\* reorder_on_release: the windows of the strip are the same.
LEMMA MoveKeeps ==
    ASSUME NEW s \in GoodStrips, NEW from \in DOMAIN s, NEW to \in DOMAIN s
    PROVE  MoveEntry(s, from, to) \in GoodStrips /\ RefsIn(MoveEntry(s, from, to)) = RefsIn(s)
  <1> DEFINE t == InsertAt(RemoveAt(s, from), to, s[from])
  <1>1. CASE from = to
    BY <1>1 DEF MoveEntry
  <1>2. CASE from # to
    <2>1. MoveEntry(s, from, to) = t
      BY <1>2 DEF MoveEntry
    <2>2. t \in Seq(Entries) /\ Shows(t, s, DOMAIN s)
      BY GoodMeans, MovedShows
    <2> HIDE DEF t
    <2>3. t \in GoodStrips /\ RefsIn(t) = {s[k].ref : k \in DOMAIN s} \ {NoRef}
      BY <2>2, GoodMeans, ShownIsWellFormed
    <2> QED
      BY <2>1, <2>3 DEF RefsIn
  <1> QED
    BY <1>1, <1>2

-----------------------------------------------------------------------------
(* reconcile_windows: two folds over the operations above. *)

Windows == [ref : Ids \X Nat, app : Apps, mini : BOOLEAN, focused : BOOLEAN]

\* The windows of the list enter one by one.
LEMMA AddSteps ==
    ASSUME NEW s \in GoodStrips, NEW windows \in Seq(Windows)
    PROVE  \E F \in [0 .. Len(windows) -> GoodStrips] :
             /\ F[0] = s
             /\ \A n \in 1 .. Len(windows) :
                  F[n] = AddWindow(F[n - 1], windows[n].app, windows[n].ref)
             /\ AddAll(s, windows) = F[Len(windows)]
  <1> DEFINE op == [p \in GoodStrips \X Windows |-> AddWindow(p[1], p[2].app, p[2].ref)]
             Iterates(g) ==
               g = [u \in SUBSET DOMAIN windows |->
                      IF u = {} THEN s
                      ELSE AddWindow(g[u \ {Max(u)}], windows[Max(u)].app, windows[Max(u)].ref)]
             iter == CHOOSE g : Iterates(g)
  <1>1. AddAll(s, windows) = iter[DOMAIN windows]
    BY DEF AddAll, FoldLeft, MapThenFoldSet
  <1>2. op \in [GoodStrips \X Windows -> GoodStrips]
    <2>1. ASSUME NEW p \in GoodStrips \X Windows
          PROVE  AddWindow(p[1], p[2].app, p[2].ref) \in GoodStrips
      <3>1. p[1] \in GoodStrips /\ p[2].app \in Apps /\ p[2].ref \in Ids \X Nat
        BY DEF Windows
      <3> QED
        BY <3>1, AddKeeps
    <2> QED
      BY <2>1
  <1>3. DOMAIN windows = 1 .. Len(windows) /\ Len(windows) \in Nat
    OBVIOUS
  <1>4. Iterates(iter)
    <2>1. PICK g \in [SUBSET (1 .. Len(windows)) -> GoodStrips] :
            IsFold(g, Len(windows), s, op, windows)
      <3> HIDE DEF op
      <3> QED
        BY <1>2, FoldExists
    <2>2. ASSUME NEW u \in SUBSET DOMAIN windows
          PROVE  g[u] = IF u = {} THEN s
                        ELSE AddWindow(g[u \ {Max(u)}], windows[Max(u)].app, windows[Max(u)].ref)
      <3>1. CASE u = {}
        BY <1>3, <2>1, <3>1 DEF IsFold
      <3>2. CASE u # {}
        <4>1. Max(u) \in u /\ g[u] = op[<<g[u \ {Max(u)}], windows[Max(u)]>>]
          BY <1>3, <2>1, <3>2 DEF IsFold
        <4>2. windows[Max(u)] \in Windows /\ g[u \ {Max(u)}] \in GoodStrips
          BY <1>3, <4>1
        <4> QED
          BY <3>2, <4>1, <4>2
      <3> QED
        BY <3>1, <3>2
    <2>3. Iterates(g)
      BY <1>3, <2>2
    <2> HIDE DEF Iterates
    <2> QED
      BY <2>3
  <1> HIDE DEF iter
  <1>5. iter[{}] = s
    BY <1>4
  <1>6. ASSUME NEW n \in 1 .. Len(windows)
        PROVE  iter[1 .. n] = AddWindow(iter[1 .. n - 1], windows[n].app, windows[n].ref)
    <2>1. 1 .. n \in SUBSET DOMAIN windows
      BY <1>3
    <2>2. 1 .. n # {} /\ Max(1 .. n) = n /\ (1 .. n) \ {n} = 1 .. n - 1
      BY FirstPlaces
    <2> QED
      BY <1>4, <2>1, <2>2
  <1>7. ASSUME NEW n \in 1 .. Len(windows), iter[1 .. n - 1] \in GoodStrips
        PROVE  iter[1 .. n] = op[<<iter[1 .. n - 1], windows[n]>>]
    BY <1>6, <1>7
  <1> DEFINE F == [n \in 0 .. Len(windows) |-> iter[1 .. n]]
  <1>8. F \in Steps(GoodStrips, s, op, windows)
    <2> HIDE DEF op
    <2> QED
      BY <1>2, <1>5, <1>7, FoldOfFirst
  <1>9. F \in [0 .. Len(windows) -> GoodStrips] /\ F[0] = s
    <2> HIDE DEF F, op
    <2> QED
      BY <1>8 DEF Steps
  <1>10. \A n \in 1 .. Len(windows) :
           F[n] = AddWindow(F[n - 1], windows[n].app, windows[n].ref)
    <2>1. \A n \in 1 .. Len(windows) : n \in 0 .. Len(windows) /\ n - 1 \in 0 .. Len(windows)
      BY <1>3
    <2> QED
      BY <1>6, <2>1
  <1>11. AddAll(s, windows) = F[Len(windows)]
    BY <1>1, <1>3
  <1> QED
    <2> HIDE DEF F
    <2> QED
      BY <1>9, <1>10, <1>11

\* The windows that are not live leave one by one.
LEMMA DropSteps ==
    ASSUME NEW s \in GoodStrips, NEW live, NoRef \in live
    PROVE  \E F \in [0 .. Len(s) -> GoodStrips] :
             /\ F[0] = s
             /\ \A n \in 1 .. Len(s) :
                  F[n] = IF s[n].ref \in live THEN F[n - 1] ELSE RemoveWindow(F[n - 1], s[n].ref)
             /\ DropGone(s, live) = F[Len(s)]
  <1> DEFINE refs == [i \in DOMAIN s |-> s[i].ref]
             op == [p \in GoodStrips \X RefSet |->
                      IF p[2] \in live THEN p[1] ELSE RemoveWindow(p[1], p[2])]
             Iterates(g) ==
               g = [u \in SUBSET DOMAIN refs |->
                      IF u = {} THEN s
                      ELSE IF refs[Max(u)] \in live THEN g[u \ {Max(u)}]
                      ELSE RemoveWindow(g[u \ {Max(u)}], refs[Max(u)])]
             iter == CHOOSE g : Iterates(g)
  <1>1. DropGone(s, live) = iter[DOMAIN refs]
    BY DEF DropGone, FoldLeft, MapThenFoldSet
  <1>2. op \in [GoodStrips \X RefSet -> GoodStrips]
    <2>1. ASSUME NEW p \in GoodStrips \X RefSet, p[2] \notin live
          PROVE  RemoveWindow(p[1], p[2]) \in GoodStrips
      BY <2>1, RemoveKeeps
    <2> QED
      BY <2>1
  <1>3. /\ refs \in Seq(RefSet) /\ Len(refs) = Len(s) /\ Len(s) \in Nat
        /\ DOMAIN refs = 1 .. Len(s) /\ DOMAIN s = 1 .. Len(s)
        /\ \A n \in 1 .. Len(s) : refs[n] = s[n].ref /\ refs[n] \in RefSet
    <2>1. Len(s) \in Nat /\ DOMAIN s = 1 .. Len(s)
      BY GoodMeans
    <2>2. \A n \in 1 .. Len(s) : s[n].ref \in RefSet
      BY <2>1, GoodMeans DEF Entries
    <2> QED
      BY <2>1, <2>2
  <1> HIDE DEF refs
  <1>4. Iterates(iter)
    <2>1. PICK g \in [SUBSET (1 .. Len(refs)) -> GoodStrips] :
            IsFold(g, Len(refs), s, op, refs)
      <3> HIDE DEF op
      <3> QED
        BY <1>2, <1>3, FoldExists
    <2>2. ASSUME NEW u \in SUBSET DOMAIN refs
          PROVE  g[u] = IF u = {} THEN s
                        ELSE IF refs[Max(u)] \in live THEN g[u \ {Max(u)}]
                        ELSE RemoveWindow(g[u \ {Max(u)}], refs[Max(u)])
      <3>1. CASE u = {}
        BY <1>3, <2>1, <3>1 DEF IsFold
      <3>2. CASE u # {}
        <4>1. Max(u) \in u /\ g[u] = op[<<g[u \ {Max(u)}], refs[Max(u)]>>]
          BY <1>3, <2>1, <3>2 DEF IsFold
        <4>2. refs[Max(u)] \in RefSet /\ g[u \ {Max(u)}] \in GoodStrips
          BY <1>3, <4>1
        <4> QED
          BY <3>2, <4>1, <4>2
      <3> QED
        BY <3>1, <3>2
    <2>3. Iterates(g)
      BY <1>3, <2>2
    <2> HIDE DEF Iterates
    <2> QED
      BY <2>3
  <1> HIDE DEF iter
  <1>5. iter[{}] = s
    BY <1>4
  <1>6. ASSUME NEW n \in 1 .. Len(s)
        PROVE  iter[1 .. n] = IF refs[n] \in live THEN iter[1 .. n - 1]
                              ELSE RemoveWindow(iter[1 .. n - 1], refs[n])
    <2>1. 1 .. n \in SUBSET DOMAIN refs
      BY <1>3
    <2>2. 1 .. n # {} /\ Max(1 .. n) = n /\ (1 .. n) \ {n} = 1 .. n - 1
      BY FirstPlaces
    <2> QED
      BY <1>4, <2>1, <2>2
  <1>7. ASSUME NEW n \in 1 .. Len(refs), iter[1 .. n - 1] \in GoodStrips
        PROVE  iter[1 .. n] = op[<<iter[1 .. n - 1], refs[n]>>]
    BY <1>3, <1>6, <1>7
  <1> DEFINE F == [n \in 0 .. Len(refs) |-> iter[1 .. n]]
  <1>8. F \in Steps(GoodStrips, s, op, refs)
    <2> HIDE DEF op
    <2> QED
      BY <1>2, <1>3, <1>5, <1>7, FoldOfFirst
  <1>9. F \in [0 .. Len(s) -> GoodStrips] /\ F[0] = s
    <2> HIDE DEF F, op
    <2> QED
      BY <1>3, <1>8 DEF Steps
  <1>10. \A n \in 1 .. Len(s) :
           F[n] = IF s[n].ref \in live THEN F[n - 1] ELSE RemoveWindow(F[n - 1], s[n].ref)
    <2>1. \A n \in 1 .. Len(s) : n \in 0 .. Len(refs) /\ n - 1 \in 0 .. Len(refs)
      BY <1>3
    <2>2. \A n \in 1 .. Len(s) : F[n] = iter[1 .. n] /\ F[n - 1] = iter[1 .. n - 1]
      BY <2>1
    <2> HIDE DEF F
    <2> QED
      BY <1>3, <1>6, <2>2
  <1>11. DropGone(s, live) = F[Len(s)]
    BY <1>1, <1>3
  <1> QED
    <2> HIDE DEF F
    <2> QED
      BY <1>9, <1>10, <1>11

\* What is chosen is of the list, and chosen.
LEMMA ChosenType ==
    ASSUME NEW A, NEW s \in Seq(A), NEW S
    PROVE  Chosen(s, S) \in Seq(A \cap S)
  <1>0. PICK F \in Filters(A, s, S) : Chosen(s, S) = F[Len(s)]
    BY ChosenSteps
  <1>1. /\ F[0] = << >>
        /\ \A n \in 1 .. Len(s) :
             F[n] = IF s[n] \in S THEN Append(F[n - 1], s[n]) ELSE F[n - 1]
        /\ Chosen(s, S) = F[Len(s)]
    BY <1>0 DEF Filters
  <1> DEFINE T == {n \in 0 .. Len(s) : F[n] \in Seq(A \cap S)}
  <1>2. Len(s) \in Nat /\ 0 \in T
    <2>1. Len(s) \in Nat
      OBVIOUS
    <2>2. F[0] \in Seq(A \cap S)
      BY <1>1
    <2>3. 0 \in 0 .. Len(s)
      BY <2>1
    <2> QED
      BY <2>1, <2>2, <2>3
  <1>3. ASSUME NEW n \in 0 .. Len(s), n \in T, n # Len(s) PROVE n + 1 \in T
    <2>1. n + 1 \in 1 .. Len(s) /\ n + 1 \in 0 .. Len(s) /\ (n + 1) - 1 = n
      BY <1>2, <1>3
    <2>2. F[n + 1] = IF s[n + 1] \in S THEN Append(F[n], s[n + 1]) ELSE F[n]
      BY <1>1, <2>1
    <2>3. s[n + 1] \in A
      BY <2>1
    <2>4. F[n + 1] \in Seq(A \cap S)
      BY <1>3, <2>2, <2>3
    <2> QED
      BY <2>1, <2>4
  <1>4. \A n \in 0 .. Len(s) : n \in T
    <2> HIDE DEF T
    <2> QED
      BY <1>2, <1>3, InductionUpTo
  <1> QED
    BY <1>1, <1>2, <1>4

\* What is of the list and wanted is chosen.
LEMMA ChosenHas ==
    ASSUME NEW A, NEW s \in Seq(A), NEW S, NEW k \in DOMAIN s, s[k] \in S
    PROVE  \E i \in DOMAIN Chosen(s, S) : Chosen(s, S)[i] = s[k]
  <1>0. PICK F \in Filters(A, s, S) : Chosen(s, S) = F[Len(s)]
    BY ChosenSteps
  <1>1. /\ \A n \in 0 .. Len(s) : F[n] \in Seq(A)
        /\ \A n \in 1 .. Len(s) :
             F[n] = IF s[n] \in S THEN Append(F[n - 1], s[n]) ELSE F[n - 1]
    BY <1>0 DEF Filters
  <1> DEFINE Has(q) == \E i \in DOMAIN q : q[i] = s[k]
             T == {n \in 0 .. Len(s) : k <= n => Has(F[n])}
  <1>2. Len(s) \in Nat /\ k \in 1 .. Len(s) /\ 0 \in T
    OBVIOUS
  <1>3. ASSUME NEW n \in 0 .. Len(s), n \in T, n # Len(s) PROVE n + 1 \in T
    <2>1. n + 1 \in 1 .. Len(s) /\ n + 1 \in 0 .. Len(s) /\ (n + 1) - 1 = n
      BY <1>2, <1>3
    <2>2. /\ F[n + 1] = IF s[n + 1] \in S THEN Append(F[n], s[n + 1]) ELSE F[n]
          /\ F[n] \in Seq(A) /\ s[n + 1] \in A
      BY <1>1, <2>1
    <2>3. CASE k <= n
      <3>1. PICK i \in DOMAIN F[n] : F[n][i] = s[k]
        BY <1>3, <2>3
      <3>2. i \in DOMAIN F[n + 1] /\ F[n + 1][i] = F[n][i]
        BY <2>2, <3>1
      <3> QED
        BY <2>1, <3>1, <3>2
    <2>4. CASE k = n + 1
      <3>1. F[n + 1] = Append(F[n], s[k])
        BY <2>2, <2>4
      <3>2. /\ Len(F[n]) + 1 \in DOMAIN F[n + 1]
            /\ F[n + 1][Len(F[n]) + 1] = s[k]
        BY <2>2, <2>4, <3>1
      <3> QED
        BY <2>1, <3>2
    <2>5. CASE ~(k <= n + 1)
      BY <2>1, <2>5
    <2> QED
      BY <1>2, <2>1, <2>3, <2>4, <2>5
  <1>4. \A n \in 0 .. Len(s) : n \in T
    <2> HIDE DEF T
    <2> QED
      BY <1>2, <1>3, InductionUpTo
  <1>5. Len(s) \in T
    BY <1>2, <1>4
  <1> QED
    BY <1>0, <1>2, <1>5

\* All windows of the list are in the strip, beside those that were.
LEMMA AddAllKeeps ==
    ASSUME NEW s \in GoodStrips, NEW windows \in Seq(Windows)
    PROVE  /\ AddAll(s, windows) \in GoodStrips
           /\ RefsIn(AddAll(s, windows)) = RefsIn(s) \cup RefsOfList(windows)
           /\ KeepsOrder(s, AddAll(s, windows))
  <1>1. PICK F \in [0 .. Len(windows) -> GoodStrips] :
             /\ F[0] = s
             /\ \A n \in 1 .. Len(windows) :
                  F[n] = AddWindow(F[n - 1], windows[n].app, windows[n].ref)
             /\ AddAll(s, windows) = F[Len(windows)]
    BY AddSteps
  <1> DEFINE Refs(n) == {windows[i].ref : i \in 1 .. n}
             T == {n \in 0 .. Len(windows) :
                     RefsIn(F[n]) = RefsIn(s) \cup Refs(n) /\ KeepsOrder(s, F[n])}
  <1>2. Len(windows) \in Nat /\ DOMAIN windows = 1 .. Len(windows) /\ 0 \in T
    <2>1. Refs(0) = {}
      OBVIOUS
    <2>2. KeepsOrder(s, s)
      BY DEF KeepsOrder
    <2> QED
      BY <1>1, <2>1, <2>2
  <1>3. ASSUME NEW n \in 0 .. Len(windows), n \in T, n # Len(windows) PROVE n + 1 \in T
    <2> DEFINE w == windows[n + 1]
    <2>1. n + 1 \in 1 .. Len(windows) /\ n + 1 \in 0 .. Len(windows) /\ (n + 1) - 1 = n
      <3> HIDE DEF T
      <3>1. Len(windows) \in Nat
        BY <1>2
      <3>2. n # Len(windows)
        BY <1>3
      <3> QED
        BY <3>1, <3>2
    <2>2. F[n + 1] = AddWindow(F[n], w.app, w.ref)
      BY <1>1, <2>1
    <2>3. F[n] \in GoodStrips /\ w.app \in Apps /\ w.ref \in Ids \X Nat
      <3>1. w \in Windows
        BY <2>1
      <3> QED
        BY <3>1 DEF Windows
    <2>4. Refs(n + 1) = Refs(n) \cup {w.ref}
      <3>1. 1 .. n + 1 = (1 .. n) \cup {n + 1}
        BY <2>1
      <3> QED
        BY <3>1
    <2> HIDE DEF w, Refs
    <2>5. /\ RefsIn(F[n + 1]) = RefsIn(F[n]) \cup {w.ref}
          /\ KeepsOrder(F[n], F[n + 1])
      BY <2>2, <2>3, AddKeeps
    <2>6. KeepsOrder(s, F[n + 1])
      BY <1>3, <2>5, OrderKept
    <2> QED
      BY <1>3, <2>1, <2>4, <2>5, <2>6
  <1>4. \A n \in 0 .. Len(windows) : n \in T
    <2> HIDE DEF T
    <2>1. Len(windows) \in Nat /\ 0 \in T
      BY <1>2
    <2>2. \A n \in 0 .. Len(windows) : n \in T /\ n # Len(windows) => n + 1 \in T
      BY <1>3
    <2> QED
      BY <2>1, <2>2, InductionUpTo
  <1>5. RefsOfList(windows) = Refs(Len(windows))
    BY <1>2 DEF RefsOfList
  <1>6. Len(windows) \in 0 .. Len(windows)
    BY <1>2
  <1> HIDE DEF Refs
  <1> QED
    BY <1>1, <1>4, <1>5, <1>6

\* Of the windows of the strip the live ones stay.
LEMMA DropGoneKeeps ==
    ASSUME NEW s \in GoodStrips, NEW live, NoRef \in live
    PROVE  /\ DropGone(s, live) \in GoodStrips
           /\ RefsIn(DropGone(s, live)) = RefsIn(s) \cap live
           /\ KeepsOrder(s, DropGone(s, live))
  <1>1. PICK F \in [0 .. Len(s) -> GoodStrips] :
             /\ F[0] = s
             /\ \A n \in 1 .. Len(s) :
                  F[n] = IF s[n].ref \in live THEN F[n - 1] ELSE RemoveWindow(F[n - 1], s[n].ref)
             /\ DropGone(s, live) = F[Len(s)]
    BY DropSteps
  <1> DEFINE Gone(n) == {s[i].ref : i \in 1 .. n} \ live
             T == {n \in 0 .. Len(s) :
                     RefsIn(F[n]) = RefsIn(s) \ Gone(n) /\ KeepsOrder(s, F[n])}
  <1>2. Len(s) \in Nat /\ DOMAIN s = 1 .. Len(s) /\ 0 \in T
    <2>1. Gone(0) = {} /\ Len(s) \in Nat /\ DOMAIN s = 1 .. Len(s)
      BY GoodMeans
    <2>2. KeepsOrder(s, s)
      BY DEF KeepsOrder
    <2> QED
      BY <1>1, <2>1, <2>2
  <1>3. ASSUME NEW n \in 0 .. Len(s), n \in T, n # Len(s) PROVE n + 1 \in T
    <2> DEFINE r == s[n + 1].ref
    <2>1. n + 1 \in 1 .. Len(s) /\ n + 1 \in 0 .. Len(s) /\ (n + 1) - 1 = n
      <3> HIDE DEF T
      <3>1. Len(s) \in Nat
        BY <1>2
      <3>2. n # Len(s)
        BY <1>3
      <3> QED
        BY <3>1, <3>2
    <2>2. F[n + 1] = IF r \in live THEN F[n] ELSE RemoveWindow(F[n], r)
      BY <1>1, <2>1
    <2>3. F[n] \in GoodStrips /\ r \in RefSet
      <3>1. s[n + 1] \in Entries
        BY <1>2, <2>1, GoodMeans
      <3> QED
        BY <3>1 DEF Entries
    <2>4. Gone(n + 1) = Gone(n) \cup ({r} \ live)
      <3>1. 1 .. n + 1 = (1 .. n) \cup {n + 1}
        BY <2>1
      <3> QED
        BY <3>1
    <2> HIDE DEF r, Gone
    <2>5. /\ RefsIn(F[n + 1]) = RefsIn(F[n]) \ ({r} \ live)
          /\ KeepsOrder(F[n], F[n + 1])
      <3>1. CASE r \in live
        BY <2>2, <3>1 DEF KeepsOrder
      <3>2. CASE r \notin live
        <4>1. r \in RefSet \ {NoRef}
          BY <2>3, <3>2
        <4> QED
          BY <2>2, <2>3, <3>2, <4>1, RemoveKeeps
      <3> QED
        BY <3>1, <3>2
    <2>6. KeepsOrder(s, F[n + 1])
      BY <1>3, <2>5, OrderKept
    <2> QED
      BY <1>3, <2>1, <2>4, <2>5, <2>6
  <1>4. \A n \in 0 .. Len(s) : n \in T
    <2> HIDE DEF T
    <2>1. Len(s) \in Nat /\ 0 \in T
      BY <1>2
    <2>2. \A n \in 0 .. Len(s) : n \in T /\ n # Len(s) => n + 1 \in T
      BY <1>3
    <2> QED
      BY <2>1, <2>2, InductionUpTo
  <1>5. RefsIn(s) \ Gone(Len(s)) = RefsIn(s) \cap live
    BY <1>2 DEF RefsIn
  <1>6. Len(s) \in 0 .. Len(s)
    BY <1>2
  <1> HIDE DEF Gone
  <1> QED
    BY <1>1, <1>4, <1>5, <1>6

\* reconcile_windows: the strip is well-formed, shows exactly the windows of the
\* list, and its slots are in their order.
THEOREM ReconcileKeeps ==
    ASSUME NEW s \in GoodStrips, NEW windows \in Seq(Windows)
    PROVE  /\ Reconcile(s, windows) \in GoodStrips
           /\ RefsIn(Reconcile(s, windows)) = RefsOfList(windows)
           /\ KeepsOrder(s, Reconcile(s, windows))
  <1> DEFINE live == {NoRef} \cup RefsOfList(windows)
             t == DropGone(s, live)
  <1>1. /\ t \in GoodStrips
        /\ RefsIn(t) = RefsIn(s) \cap live
        /\ KeepsOrder(s, t)
    BY DropGoneKeeps
  <1>2. Reconcile(s, windows) = AddAll(t, windows)
    BY DEF Reconcile
  <1>3. RefsIn(t) \subseteq RefsOfList(windows)
    BY <1>1 DEF RefsIn
  <1> HIDE DEF t
  <1>4. /\ AddAll(t, windows) \in GoodStrips
        /\ RefsIn(AddAll(t, windows)) = RefsIn(t) \cup RefsOfList(windows)
        /\ KeepsOrder(t, AddAll(t, windows))
    BY <1>1, AddAllKeeps
  <1>5. KeepsOrder(s, AddAll(t, windows))
    BY <1>1, <1>4, OrderKept
  <1> QED
    BY <1>2, <1>3, <1>4, <1>5

\* Slots that are in their order are, of each application, in the order of the
\* applications.
LEMMA OrderOfSlots ==
    ASSUME NEW s \in GoodStrips, NEW t \in GoodStrips, KeepsOrder(s, t),
           NEW i \in DOMAIN s, NEW j \in DOMAIN s,
           i < j, s[i].pinned, s[j].pinned
    PROVE  FirstOf(PinnedAt(t, s[i].app)) < FirstOf(PinnedAt(t, s[j].app))
  <1>1. PICK k \in DOMAIN t, l \in DOMAIN t :
          /\ k < l
          /\ t[k].pinned /\ t[k].app = s[i].app
          /\ t[l].pinned /\ t[l].app = s[j].app
    BY DEF KeepsOrder
  <1>2. DOMAIN t \in SUBSET Nat
        /\ \A a, b \in DOMAIN t : t[a].pinned /\ t[b].pinned /\ t[a].app = t[b].app => a = b
    BY GoodMeans
  <1>3. PinnedAt(t, s[i].app) = {k} /\ PinnedAt(t, s[j].app) = {l}
    BY <1>1, <1>2 DEF PinnedAt, Places
  <1>4. k \in Nat /\ l \in Nat
    BY <1>2
  <1>5. FirstOf({k}) = k /\ FirstOf({l}) = l
    BY <1>4 DEF FirstOf
  <1> QED
    BY <1>1, <1>3, <1>5

-----------------------------------------------------------------------------
(* The inductive invariant. *)

\* Every number that someone holds a reference with has been given out.
NumbersAreOld ==
    /\ \A i \in DOMAIN calls : calls[i].op \in WindowOps => calls[i].ref[2] < next
    /\ \A r \in RefsOfList(view.windows) : r[2] < next
    /\ \A r \in RefsIn(view.tasks) : r[2] < next
    /\ \A r \in RefsOfList(cached) : r[2] < next
    /\ \A r \in RefsIn(strip) : r[2] < next
    /\ \A c \in Ids : numbers[c] < next

LiveHasApp == \A c \in Ids : client[c].alive => client[c].app \in Apps

Inv ==
    /\ TypeOK
    /\ StripIsWellFormed
    /\ StripShowsCache
    /\ reconciled => started
    /\ LiveHasApp
    /\ NumbersAreOld

\* The strip is one of the well-formed ones, with their types.
LEMMA StripIsGood ==
    ASSUME Inv PROVE strip \in GoodStrips
  BY DEF Inv, TypeOK, StripIsWellFormed, GoodStrips, Strips, Entries

\* A list of windows names windows, and a strip names windows in its references.
LEMMA ListRefs ==
    ASSUME NEW l \in Snapshots, NEW r \in RefsOfList(l)
    PROVE  r \in Ids \X Nat
  <1>1. PICK i \in DOMAIN l : r = l[i].ref
    BY DEF RefsOfList
  <1>2. l \in Seq(Windows)
    BY DEF Snapshots, Windows
  <1>3. l[i] \in Windows
    BY <1>2
  <1> QED
    BY <1>1, <1>3 DEF Windows

\* It holds at the start: with no window or one, and nothing numbered or shown.
THEOREM InitInv == Init => Inv
  <1> SUFFICES ASSUME Init PROVE Inv
    OBVIOUS
  <1>1. TypeOK
    <2>0. PICK app \in Apps, c \in Ids :
            \/ /\ listed = << >>
               /\ client = [i \in Ids |-> NoWindow]
               /\ active = NoId
               /\ marked = {}
            \/ /\ listed = <<c>>
               /\ client = [i \in Ids |-> IF i = c THEN NewWindow(app) ELSE NoWindow]
               /\ active = c
               /\ marked = {"windows"}
      BY DEF Init
    <2>1. listed \in Seq(Ids)
      <3>1. << >> \in Seq(Ids) /\ <<c>> \in Seq(Ids)
        OBVIOUS
      <3> QED
        BY <2>0, <3>1
    <2>9. active \in Ids \cup {NoId}
      BY <2>0
    <2>10. marked \subseteq {"windows", "panels"}
      BY <2>0
    <2>2. client \in [Ids -> [app : Apps \cup {NoApp}, mini : BOOLEAN, alive : BOOLEAN]]
      <3>1. /\ NoWindow \in [app : Apps \cup {NoApp}, mini : BOOLEAN, alive : BOOLEAN]
            /\ NewWindow(app) \in [app : Apps \cup {NoApp}, mini : BOOLEAN, alive : BOOLEAN]
        BY DEF NoWindow, NewWindow
      <3> QED
        BY <2>0, <3>1
    <2>3. /\ events \in Seq(Messages) /\ Len(events) <= EventBound
          /\ calls \in Seq(Commands) /\ Len(calls) <= QueueBound
      BY TaskBarAssumption DEF Init
    <2>4. next \in Nat \ {0} /\ revision \in Nat \ {0}
      BY DEF Init
    <2>11. phase \in {"drain", "rest"}
      BY DEF Init
    <2>12. started \in BOOLEAN
      BY DEF Init
    <2>13. reconciled \in BOOLEAN
      BY DEF Init
    <2>8. numbers \in [Ids -> Nat]
      BY DEF Init
    <2>5. cached \in Snapshots /\ strip \in Strips
      BY DEF Init, Snapshots, Strips
    <2>6. view \in [windows : Snapshots, revision : Nat, tasks : Strips]
      BY DEF Init, Snapshots, Strips
    <2>7. spent \in [opens : 0 .. MaxOpens, asks : 0 .. MaxAsks, calls : 0 .. MaxCalls]
      <3>1. 0 \in 0 .. MaxOpens /\ 0 \in 0 .. MaxAsks /\ 0 \in 0 .. MaxCalls
        BY TaskBarAssumption
      <3> QED
        BY <3>1 DEF Init
    <2>14. carried \subseteq Ids \X Nat
      BY DEF Init
    <2> QED
      BY <2>1, <2>2, <2>3, <2>4, <2>5, <2>6, <2>7, <2>8, <2>9, <2>10, <2>11, <2>12, <2>13, <2>14
         DEF TypeOK
  <1>2. StripIsWellFormed
    <2>1. strip = << >> /\ DOMAIN strip = {}
      BY DEF Init
    <2> QED
      BY <2>1 DEF StripIsWellFormed, WellFormed, EachWindowOnce, EachPinOnce, SlotsAreFilled
  <1>3. StripShowsCache /\ (reconciled => started)
    BY DEF Init, StripShowsCache
  <1>4. LiveHasApp
    BY DEF Init, LiveHasApp, NoWindow, NewWindow
  <1>5. NumbersAreOld
    BY DEF Init, NumbersAreOld, RefsOfList, RefsIn
  <1> QED
    BY <1>1, <1>2, <1>3, <1>4, <1>5 DEF Inv

-----------------------------------------------------------------------------
(* Applications, and the WM before its hook: nothing about numbers or the strip. *)

\* A step that touches neither numbers nor lists nor calls keeps the invariant
\* when it keeps the types and the applications of the windows.
LEMMA QuietKeeps ==
    ASSUME Inv, TypeOK', LiveHasApp', started' = started,
           UNCHANGED <<engineVars, hostVars, view, calls>>
    PROVE  Inv'
  <1>1. /\ strip' = strip /\ cached' = cached /\ reconciled' = reconciled
        /\ numbers' = numbers /\ next' = next /\ view' = view /\ calls' = calls
    BY DEF engineVars, hostVars
  <1>2. StripIsWellFormed' /\ StripShowsCache' /\ (reconciled => started)'
    BY <1>1 DEF Inv, StripIsWellFormed, StripShowsCache
  <1>3. NumbersAreOld'
    BY <1>1 DEF Inv, NumbersAreOld
  <1> QED
    BY <1>2, <1>3 DEF Inv

\* What bounds the three kinds of requests stays within the bounds.
LEMMA Spending ==
    ASSUME TypeOK, NEW kind \in {"opens", "asks", "calls"}, NEW max,
           Spends(kind, max),
           max = IF kind = "opens" THEN MaxOpens
                 ELSE IF kind = "asks" THEN MaxAsks ELSE MaxCalls
    PROVE  spent' \in [opens : 0 .. MaxOpens, asks : 0 .. MaxAsks, calls : 0 .. MaxCalls]
  <1>1. /\ spent \in [opens : 0 .. MaxOpens, asks : 0 .. MaxAsks, calls : 0 .. MaxCalls]
        /\ spent[kind] < max /\ spent' = [spent EXCEPT ![kind] = spent[kind] + 1]
    BY DEF TypeOK, Spends
  <1>2. MaxOpens \in Nat /\ MaxAsks \in Nat /\ MaxCalls \in Nat
    BY TaskBarAssumption
  <1>3. CASE kind = "opens"
    <2>1. spent.opens + 1 \in 0 .. MaxOpens
      BY <1>1, <1>2, <1>3
    <2> QED
      BY <1>1, <1>3, <2>1
  <1>4. CASE kind = "asks"
    <2>1. spent.asks + 1 \in 0 .. MaxAsks
      BY <1>1, <1>2, <1>4
    <2> QED
      BY <1>1, <1>4, <2>1
  <1>5. CASE kind = "calls"
    <2>1. spent.calls + 1 \in 0 .. MaxCalls
      BY <1>1, <1>2, <1>5
    <2> QED
      BY <1>1, <1>5, <2>1
  <1> QED
    BY <1>3, <1>4, <1>5

\* A message for which there is room leaves the queue within its bound.
LEMMA Posted ==
    ASSUME TypeOK, NEW op, NEW c, Message(op, c) \in Messages, Room, Post(op, c)
    PROVE  events' \in Seq(Messages) /\ Len(events') <= EventBound
  <1>1. events \in Seq(Messages) /\ Len(events) < EventBound /\ EventBound \in Nat
    BY TaskBarAssumption DEF TypeOK, Room
  <1>2. events' = Append(events, Message(op, c))
    BY DEF Post
  <1> QED
    BY <1>1, <1>2

\* The messages that are posted.
LEMMA MessageTypes ==
    /\ \A c \in Ids, op \in {"map", "destroyed", "minimize", "deiconify", "activate",
                             "restore", "close"} : Message(op, c) \in Messages
    /\ Message("dock", NoId) \in Messages
  BY DEF Message, Messages

\* What applications keep, of TypeOK.
LEMMA AppsType ==
    ASSUME TypeOK, AppsKeep, UNCHANGED <<listed, active>>,
           client' \in [Ids -> [app : Apps \cup {NoApp}, mini : BOOLEAN, alive : BOOLEAN]],
           events' \in Seq(Messages) /\ Len(events') <= EventBound,
           spent' \in [opens : 0 .. MaxOpens, asks : 0 .. MaxAsks, calls : 0 .. MaxCalls]
    PROVE  TypeOK'
  BY DEF TypeOK, AppsKeep, engineVars, hostVars

\* An application maps a window.
LEMMA OpensKeeps ==
    ASSUME Inv, NEW c \in Ids, NEW app \in Apps, Opens(c, app)
    PROVE  Inv'
  <1>1. TypeOK /\ LiveHasApp
    BY DEF Inv
  <1>2. client' = [client EXCEPT ![c] = NewWindow(app)] /\ AppsKeep
        /\ UNCHANGED <<listed, active>>
    BY DEF Opens
  <1>3. client' \in [Ids -> [app : Apps \cup {NoApp}, mini : BOOLEAN, alive : BOOLEAN]]
    BY <1>1, <1>2 DEF TypeOK, NewWindow
  <1>4. LiveHasApp'
    BY <1>1, <1>2 DEF TypeOK, LiveHasApp, NewWindow
  <1>5. events' \in Seq(Messages) /\ Len(events') <= EventBound
    BY <1>1, MessageTypes, Posted DEF Opens
  <1>6. spent' \in [opens : 0 .. MaxOpens, asks : 0 .. MaxAsks, calls : 0 .. MaxCalls]
    BY <1>1, Spending DEF Opens
  <1>7. TypeOK'
    BY <1>1, <1>2, <1>3, <1>5, <1>6, AppsType
  <1> QED
    BY <1>2, <1>4, <1>7, QuietKeeps DEF AppsKeep

\* A window is destroyed behind the back of the WM.
LEMMA VanishesKeeps ==
    ASSUME Inv, NEW c \in Ids, Vanishes(c)
    PROVE  Inv'
  <1>1. TypeOK /\ LiveHasApp
    BY DEF Inv
  <1>2. client' = [client EXCEPT ![c] = NoWindow] /\ AppsKeep
        /\ UNCHANGED <<listed, active, spent>>
    BY DEF Vanishes
  <1>3. client' \in [Ids -> [app : Apps \cup {NoApp}, mini : BOOLEAN, alive : BOOLEAN]]
    BY <1>1, <1>2 DEF TypeOK, NoWindow
  <1>4. LiveHasApp'
    BY <1>1, <1>2 DEF TypeOK, LiveHasApp, NoWindow
  <1>5. events' \in Seq(Messages) /\ Len(events') <= EventBound
    BY <1>1, MessageTypes, Posted DEF Vanishes
  <1>6. spent' \in [opens : 0 .. MaxOpens, asks : 0 .. MaxAsks, calls : 0 .. MaxCalls]
    BY <1>1, <1>2 DEF TypeOK
  <1>7. TypeOK'
    BY <1>1, <1>2, <1>3, <1>5, <1>6, AppsType
  <1> QED
    BY <1>2, <1>4, <1>7, QuietKeeps DEF AppsKeep

\* An application names its class late.
LEMMA RenamesKeeps ==
    ASSUME Inv, NEW c \in Ids, NEW app \in Apps, Renames(c, app)
    PROVE  Inv'
  <1>1. TypeOK /\ LiveHasApp
    BY DEF Inv
  <1>2. client' = [client EXCEPT ![c].app = app] /\ AppsKeep
        /\ UNCHANGED <<listed, active, events>>
    BY DEF Renames
  <1>3. client' \in [Ids -> [app : Apps \cup {NoApp}, mini : BOOLEAN, alive : BOOLEAN]]
    BY <1>1, <1>2 DEF TypeOK
  <1>4. LiveHasApp'
    BY <1>1, <1>2 DEF TypeOK, LiveHasApp
  <1>5. events' \in Seq(Messages) /\ Len(events') <= EventBound
    BY <1>1, <1>2 DEF TypeOK
  <1>6. spent' \in [opens : 0 .. MaxOpens, asks : 0 .. MaxAsks, calls : 0 .. MaxCalls]
    BY <1>1, Spending DEF Renames
  <1>7. TypeOK'
    BY <1>1, <1>2, <1>3, <1>5, <1>6, AppsType
  <1> QED
    BY <1>2, <1>4, <1>7, QuietKeeps DEF AppsKeep

\* A request to a window, or a change of a dock.
LEMMA AsksKeeps ==
    ASSUME Inv,
           \/ \E c \in Ids, op \in {"minimize", "deiconify", "activate"} : Asks(op, c)
           \/ DockChanges
    PROVE  Inv'
  <1>1. TypeOK /\ LiveHasApp
    BY DEF Inv
  <1>2. AppsKeep /\ UNCHANGED <<listed, client, active>>
    BY DEF Asks, DockChanges
  <1>3. client' \in [Ids -> [app : Apps \cup {NoApp}, mini : BOOLEAN, alive : BOOLEAN]]
    BY <1>1, <1>2 DEF TypeOK
  <1>4. LiveHasApp'
    BY <1>1, <1>2 DEF LiveHasApp
  <1>5. events' \in Seq(Messages) /\ Len(events') <= EventBound
    BY <1>1, MessageTypes, Posted DEF Asks, DockChanges
  <1>6. spent' \in [opens : 0 .. MaxOpens, asks : 0 .. MaxAsks, calls : 0 .. MaxCalls]
    BY <1>1, Spending DEF Asks, DockChanges
  <1>7. TypeOK'
    BY <1>1, <1>2, <1>3, <1>5, <1>6, AppsType
  <1> QED
    BY <1>2, <1>4, <1>7, QuietKeeps DEF AppsKeep

-----------------------------------------------------------------------------
(* The turn of the thread. *)

\* An event leaves the list of windows and the window's application of their types;
\* no event changes the application of a window, or makes it live or dead.
LEMMA EffectType ==
    ASSUME TypeOK, NEW e \in Messages, Effect(e)
    PROVE  /\ listed' \in Seq(Ids) /\ active' \in Ids \cup {NoId}
           /\ marked' \subseteq {"windows", "panels"}
           /\ client' \in [Ids -> [app : Apps \cup {NoApp}, mini : BOOLEAN, alive : BOOLEAN]]
           /\ \A i \in Ids : client'[i].app = client[i].app /\ client'[i].alive = client[i].alive
  <1> DEFINE c == e.id
             Kept == UNCHANGED client
             Iconified(b) == client' = [client EXCEPT ![c].mini = b]
  <1>1. /\ listed \in Seq(Ids) /\ active \in Ids \cup {NoId}
        /\ marked \subseteq {"windows", "panels"}
        /\ client \in [Ids -> [app : Apps \cup {NoApp}, mini : BOOLEAN, alive : BOOLEAN]]
    BY DEF TypeOK
  <1>2. c \in Ids \/ (e.op = "dock" /\ c = NoId)
    BY DEF Messages, Message
  <1>3. CASE UNCHANGED <<listed, client, active, marked>> \/ Docked
    BY <1>1, <1>3 DEF Docked, Mark
  <1>4. CASE c \in Ids /\ (Managed(c) \/ Forgotten(c) \/ Focused(c))
    <2>1. client' = client /\ marked' = marked \cup {"windows"}
      BY <1>4 DEF Managed, Forgotten, Focused, Mark
    <2>2. active' \in {c, NoId, active}
      BY <1>4 DEF Managed, Forgotten, Focused
    <2>3. listed' \in Seq(Ids)
      <3>1. Chosen(listed, Ids \ {c}) \in Seq(Ids \cap (Ids \ {c}))
        BY <1>1, ChosenType
      <3>2. Append(listed, c) \in Seq(Ids)
        BY <1>1, <1>4
      <3>3. Chosen(listed, Ids \ {c}) \in Seq(Ids)
        BY <3>1
      <3> QED
        BY <1>1, <1>4, <3>2, <3>3 DEF Managed, Forgotten, Focused
    <2> QED
      BY <1>1, <1>4, <2>1, <2>2, <2>3
  <1>5. CASE c \in Ids /\ (Minimised(c) \/ Restored(c))
    <2>1. /\ marked' = marked \cup {"windows"} /\ listed' = listed
          /\ active' \in {c, NoId, active}
          /\ Iconified(TRUE) \/ Iconified(FALSE)
      BY <1>5 DEF Minimised, Restored, Mark
    <2>2. ASSUME NEW b \in BOOLEAN, Iconified(b)
          PROVE  /\ client' \in [Ids -> [app : Apps \cup {NoApp}, mini : BOOLEAN, alive : BOOLEAN]]
                 /\ \A i \in Ids : client'[i].app = client[i].app
                                   /\ client'[i].alive = client[i].alive
      BY <1>1, <2>2
    <2> HIDE DEF Iconified
    <2> QED
      BY <1>1, <1>5, <2>1, <2>2
  <1>6. \/ UNCHANGED <<listed, client, active, marked>> \/ Docked
        \/ c \in Ids /\ (Managed(c) \/ Forgotten(c) \/ Focused(c) \/ Minimised(c) \/ Restored(c))
    BY <1>2, Zenon DEF Effect
  <1> QED
    BY <1>3, <1>4, <1>5, <1>6

\* The WM reads an event.
LEMMA HandleEventKeeps ==
    ASSUME Inv, HandleEvent
    PROVE  Inv'
  <1>1. TypeOK /\ LiveHasApp
    BY DEF Inv
  <1>2. /\ events \in Seq(Messages) /\ Len(events) <= EventBound /\ events # << >>
        /\ events' = Tail(events) /\ EventBound \in Nat
    BY <1>1, TaskBarAssumption DEF TypeOK, HandleEvent
  <1>3. /\ Head(events) \in Messages
        /\ events' \in Seq(Messages) /\ Len(events') <= EventBound
    BY <1>2
  <1>4. /\ listed' \in Seq(Ids) /\ active' \in Ids \cup {NoId}
        /\ marked' \subseteq {"windows", "panels"}
        /\ client' \in [Ids -> [app : Apps \cup {NoApp}, mini : BOOLEAN, alive : BOOLEAN]]
        /\ \A i \in Ids : client'[i].app = client[i].app /\ client'[i].alive = client[i].alive
    BY <1>1, <1>3, EffectType DEF HandleEvent
  <1>5. UNCHANGED <<phase, started, engineVars, hostVars, view, calls, spent>>
    BY DEF HandleEvent
  <1>6. TypeOK'
    BY <1>1, <1>3, <1>4, <1>5 DEF TypeOK, engineVars, hostVars
  <1>7. LiveHasApp'
    BY <1>1, <1>4 DEF LiveHasApp
  <1> QED
    BY <1>5, <1>6, <1>7, QuietKeeps

\* The wait ends.
LEMMA WakesKeeps ==
    ASSUME Inv, Wakes
    PROVE  Inv'
  <1>1. TypeOK'
    BY DEF Inv, TypeOK, Wakes, xVars, engineVars, hostVars
  <1>2. LiveHasApp'
    BY DEF Inv, LiveHasApp, Wakes, xVars
  <1> QED
    BY <1>1, <1>2, QuietKeeps DEF Wakes

\* The numbers after a refresh are as they were, or new and below the next.
LEMMA NumberedBounds ==
    ASSUME TypeOK
    PROVE  /\ Readable \in Seq({c \in Ids : client[c].alive})
           /\ Len(Unnumbered) \in Nat
           /\ Numbered \in [Ids -> Nat]
           /\ \A c \in Ids : \/ Numbered[c] = numbers[c]
                             \/ Numbered[c] \in next .. next + Len(Unnumbered) - 1
  <1>1. listed \in Seq(Ids) /\ numbers \in [Ids -> Nat] /\ next \in Nat \ {0}
    BY DEF TypeOK
  <1> DEFINE Live == {c \in Ids : client[c].alive}
             Bare == {c \in Ids : numbers[c] = 0}
  <1>2. Readable \in Seq(Live)
    <2>1. Chosen(listed, Live) \in Seq(Ids \cap Live)
      <3> HIDE DEF Live
      <3> QED
        BY <1>1, ChosenType
    <2>2. Ids \cap Live = Live
      OBVIOUS
    <2> QED
      BY <2>1, <2>2 DEF Readable
  <1>3. Unnumbered \in Seq(Live \cap Bare)
    <2> HIDE DEF Live
    <2>1. Chosen(Readable, Bare) \in Seq(Live \cap Bare)
      <3> HIDE DEF Bare
      <3> QED
        BY <1>2, ChosenType
    <2> QED
      BY <2>1 DEF Unnumbered
  <1>4. Len(Unnumbered) \in Nat /\ DOMAIN Unnumbered = 1 .. Len(Unnumbered)
    BY <1>3
  <1> DEFINE n(c) == next - 1 + CHOOSE i \in DOMAIN Unnumbered : Unnumbered[i] = c
  <1>5. ASSUME NEW c \in Ids, NEW i \in DOMAIN Unnumbered, Unnumbered[i] = c
        PROVE  n(c) \in next .. next + Len(Unnumbered) - 1
    <2> DEFINE k == CHOOSE j \in DOMAIN Unnumbered : Unnumbered[j] = c
    <2>1. k \in DOMAIN Unnumbered
      BY <1>5
    <2> HIDE DEF k
    <2>2. next - 1 + k \in next .. next + Len(Unnumbered) - 1
      BY <1>1, <1>4, <2>1
    <2> QED
      BY <2>2 DEF k
  <1>6. Numbered = [c \in Ids |-> IF \E i \in DOMAIN Unnumbered : Unnumbered[i] = c
                                  THEN n(c) ELSE numbers[c]]
    BY DEF Numbered
  <1> HIDE DEF n
  <1>7. \A c \in Ids : \/ Numbered[c] = numbers[c]
                       \/ Numbered[c] \in next .. next + Len(Unnumbered) - 1
    BY <1>5, <1>6
  <1>8. \A c \in Ids : Numbered[c] \in Nat
    BY <1>1, <1>4, <1>7
  <1>9. Numbered \in [Ids -> Nat]
    BY <1>6, <1>8
  <1> QED
    BY <1>2, <1>4, <1>7, <1>9

\* WindowService::refresh: what is listed is a live window with its application,
\* and its number has been given out.
LEMMA RefreshedList ==
    ASSUME Inv, RefreshList
    PROVE  /\ numbers' \in [Ids -> Nat] /\ next' \in Nat \ {0} /\ next <= next'
           /\ cached' \in Seq(Windows) /\ cached' \in Snapshots
           /\ \A c \in Ids : numbers'[c] < next'
           /\ \A c \in Ids : numbers'[c] = numbers[c] \/ numbers'[c] >= next
           /\ \A r \in RefsOfList(cached') : r[2] < next'
           /\ carried' = carried
  <1>1. TypeOK /\ LiveHasApp /\ NumbersAreOld
    BY DEF Inv
  <1>2. /\ numbers \in [Ids -> Nat] /\ next \in Nat \ {0}
        /\ client \in [Ids -> [app : Apps \cup {NoApp}, mini : BOOLEAN, alive : BOOLEAN]]
        /\ \A c \in Ids : numbers[c] < next
        /\ \A c \in Ids : client[c].alive => client[c].app \in Apps
    BY <1>1 DEF TypeOK, NumbersAreOld, LiveHasApp
  <1> DEFINE new == Len(Unnumbered)
  <1>3. /\ numbers' = Numbered /\ next' = next + new
        /\ cached' = Snapshot(numbers')
    BY DEF RefreshList
  <1>4. /\ Readable \in Seq({c \in Ids : client[c].alive})
        /\ new \in Nat
        /\ numbers' \in [Ids -> Nat]
        /\ \A c \in Ids : numbers'[c] = numbers[c] \/ numbers'[c] \in next .. next + new - 1
    BY <1>1, <1>3, NumberedBounds
  <1> HIDE DEF new
  <1>5. next' \in Nat \ {0} /\ next <= next'
    BY <1>2, <1>3, <1>4
  <1>6. ASSUME NEW c \in Ids PROVE numbers'[c] < next'
    <2>1. numbers[c] < next /\ numbers[c] \in Nat
      BY <1>2
    <2>2. numbers'[c] = numbers[c] \/ numbers'[c] \in next .. next + new - 1
      BY <1>4
    <2> QED
      BY <1>2, <1>3, <1>4, <2>1, <2>2
  <1>7. \A c \in Ids : numbers'[c] = numbers[c] \/ numbers'[c] >= next
    BY <1>2, <1>4
  <1> DEFINE read(i) == Readable[i]
             w(i) == [ref |-> Ref(read(i), numbers'[read(i)]), app |-> client[read(i)].app,
                      mini |-> client[read(i)].mini, focused |-> active = read(i)]
  <1>8. /\ DOMAIN Readable = 1 .. Len(Readable) /\ Len(Readable) \in Nat
        /\ \A i \in DOMAIN Readable : read(i) \in Ids /\ client[read(i)].alive
    BY <1>4
  <1>9. cached' = [i \in DOMAIN Readable |-> w(i)]
    BY <1>3 DEF Snapshot
  <1> HIDE DEF read
  <1>10. ASSUME NEW i \in DOMAIN Readable
         PROVE  w(i) \in Windows /\ w(i).ref[2] < next'
    <2>1. /\ read(i) \in Ids /\ client[read(i)].app \in Apps
          /\ numbers'[read(i)] \in Nat /\ numbers'[read(i)] < next'
      BY <1>2, <1>4, <1>6, <1>8
    <2>2. client[read(i)].mini \in BOOLEAN
      BY <1>2, <2>1
    <2>3. (active = read(i)) \in BOOLEAN
      OBVIOUS
    <2>4. Ref(read(i), numbers'[read(i)]) \in Ids \X Nat
          /\ Ref(read(i), numbers'[read(i)])[2] = numbers'[read(i)]
      BY <2>1 DEF Ref
    <2> QED
      BY <2>1, <2>2, <2>3, <2>4 DEF Windows
  <1> HIDE DEF w
  <1>11. cached' \in Seq(Windows)
    BY <1>8, <1>9, <1>10
  <1>12. cached' \in Snapshots
    BY <1>11 DEF Snapshots, Windows
  <1>13. \A r \in RefsOfList(cached') : r[2] < next'
    BY <1>9, <1>10 DEF RefsOfList
  <1>14. carried' = carried
    BY DEF RefreshList
  <1> QED
    BY <1>14, <1>4, <1>5, <1>6, <1>7, <1>11, <1>12, <1>13

\* What a strip shows are windows.
LEMMA StripRefs ==
    ASSUME NEW s \in Strips, NEW r \in RefsIn(s)
    PROVE  r \in Ids \X Nat
  <1>1. PICK i \in DOMAIN s : r = s[i].ref /\ r # NoRef
    BY DEF RefsIn
  <1>2. s \in Seq(Entries)
    BY DEF Strips, Entries
  <1>3. s[i] \in Entries
    BY <1>2
  <1> QED
    BY <1>1, <1>3 DEF Entries, RefSet

\* A call has the fields of its kind.
LEMMA CallTypes ==
    ASSUME TypeOK, NEW i \in DOMAIN calls
    PROVE  /\ calls[i] \in Commands
           /\ calls[i].op \in WindowOps => calls[i].ref \in Ids \X Nat
           /\ calls[i].op \in PanelOps =>
                /\ calls[i].app \in Apps /\ calls[i].to \in Nat /\ calls[i].id \in EntryIds
                /\ calls[i].revision \in Nat /\ calls[i].tasks \in Strips
  <1>1. calls[i] \in Commands
    BY DEF TypeOK
  <1>2. WindowOps \cap PanelOps = {}
    BY DEF WindowOps, PanelOps
  <1> QED
    BY <1>1, <1>2 DEF Commands

\* What was given out before is below every later next number.
LEMMA StillOld ==
    ASSUME Inv, NEW n \in Nat, next <= n
    PROVE  /\ \A i \in DOMAIN calls : calls[i].op \in WindowOps => calls[i].ref[2] < n
           /\ \A r \in RefsOfList(view.windows) : r[2] < n
           /\ \A r \in RefsIn(view.tasks) : r[2] < n
           /\ \A r \in RefsOfList(cached) : r[2] < n
           /\ \A r \in RefsIn(strip) : r[2] < n
           /\ \A c \in Ids : numbers[c] < n
  <1>1. TypeOK /\ NumbersAreOld
    BY DEF Inv
  <1>2. /\ next \in Nat /\ view.windows \in Snapshots /\ view.tasks \in Strips
        /\ cached \in Snapshots /\ strip \in Strips /\ numbers \in [Ids -> Nat]
    BY <1>1 DEF TypeOK
  <1>3. \A k \in Nat : k < next => k < n
    BY <1>2
  <1>4. \A r \in Ids \X Nat : r[2] \in Nat
    OBVIOUS
  <1>5. \A i \in DOMAIN calls : calls[i].op \in WindowOps => calls[i].ref[2] < n
    BY <1>1, <1>3, <1>4, CallTypes DEF NumbersAreOld
  <1>6. \A r \in RefsOfList(view.windows) \cup RefsOfList(cached) : r[2] < n
    BY <1>1, <1>2, <1>3, <1>4, ListRefs DEF NumbersAreOld
  <1>7. \A r \in RefsIn(view.tasks) \cup RefsIn(strip) : r[2] < n
    BY <1>1, <1>2, <1>3, <1>4, StripRefs DEF NumbersAreOld
  <1>8. \A c \in Ids : numbers[c] < n
    BY <1>1, <1>2, <1>3 DEF NumbersAreOld
  <1> QED
    BY <1>5, <1>6, <1>7, <1>8

\* A good strip is a strip, and well-formed.
LEMMA GoodAreStrips ==
    ASSUME NEW s \in GoodStrips
    PROVE  s \in Strips /\ WellFormed(s)
  BY DEF GoodStrips, Strips, Entries

\* refresh_windows: the strip is in step with the list whenever a change was found.
LEMMA Refreshed ==
    ASSUME Inv, Refresh
    PROVE  /\ strip' \in GoodStrips
           /\ revision' \in Nat \ {0} /\ reconciled' \in BOOLEAN
           /\ reconciled' => RefsIn(strip') = RefsOfList(cached')
           /\ KeepsOrder(strip, strip')
           /\ \A r \in RefsIn(strip') : r[2] < next'
  <1>1. /\ RefreshList
        /\ strip' = IF cached' # cached THEN Reconcile(strip, cached') ELSE strip
        /\ revision' = IF strip' # strip THEN revision + 1 ELSE revision
        /\ reconciled' = (reconciled \/ cached' # cached)
    BY DEF Refresh
  <1>2. /\ next' \in Nat \ {0} /\ next <= next' /\ cached' \in Seq(Windows)
        /\ \A r \in RefsOfList(cached') : r[2] < next'
    BY <1>1, RefreshedList
  <1>3. strip \in GoodStrips
    BY StripIsGood
  <1>4. revision' \in Nat \ {0}
    BY <1>1 DEF Inv, TypeOK
  <1>5. CASE cached' = cached
    <2>1. strip' = strip /\ reconciled' = reconciled
      BY <1>1, <1>5 DEF Inv, TypeOK
    <2>2. reconciled' => RefsIn(strip') = RefsOfList(cached')
      BY <1>5, <2>1 DEF Inv, StripShowsCache
    <2>3. reconciled' \in BOOLEAN
      BY <2>1 DEF Inv, TypeOK
    <2>4. KeepsOrder(strip, strip')
      BY <2>1 DEF KeepsOrder
    <2>5. \A r \in RefsIn(strip') : r[2] < next'
      BY <1>2, <2>1, StillOld
    <2> QED
      BY <1>3, <1>4, <2>1, <2>2, <2>3, <2>4, <2>5
  <1>6. CASE cached' # cached
    <2>1. strip' = Reconcile(strip, cached') /\ reconciled' = TRUE
      BY <1>1, <1>6
    <2>2. /\ strip' \in GoodStrips
          /\ RefsIn(strip') = RefsOfList(cached')
          /\ KeepsOrder(strip, strip')
      BY <1>2, <1>3, <2>1, ReconcileKeeps
    <2> QED
      BY <1>2, <1>4, <2>1, <2>2
  <1> QED
    BY <1>5, <1>6

\* The host starts: the list is filled, the strip is not, and nothing is claimed
\* of the two yet.
LEMMA HostStartsKeeps ==
    ASSUME Inv, HostStarts
    PROVE  Inv'
  <1>1. /\ RefreshList /\ ~started /\ started' = TRUE /\ marked' = {} /\ phase' = "rest"
        /\ UNCHANGED <<xVars, strip, revision, reconciled, view, calls, spent>>
    BY DEF HostStarts
  <1>2. /\ numbers' \in [Ids -> Nat] /\ next' \in Nat \ {0} /\ next <= next'
        /\ cached' \in Snapshots
        /\ \A c \in Ids : numbers'[c] < next'
        /\ \A r \in RefsOfList(cached') : r[2] < next'
        /\ carried' = carried
    BY <1>1, RefreshedList
  <1>3. TypeOK'
    BY <1>1, <1>2 DEF Inv, TypeOK, xVars
  <1>4. StripIsWellFormed' /\ LiveHasApp'
    BY <1>1 DEF Inv, StripIsWellFormed, LiveHasApp, xVars
  <1>5. ~reconciled'
    BY <1>1 DEF Inv
  <1>6. NumbersAreOld'
    BY <1>1, <1>2, StillOld DEF NumbersAreOld
  <1> QED
    BY <1>3, <1>4, <1>5, <1>6 DEF Inv, StripShowsCache

\* The hook of a turn: the list is refreshed when windows are marked, and the view
\* gets what was announced.
LEMMA FlushKeeps ==
    ASSUME Inv, Flush
    PROVE  Inv'
  <1>1. /\ started /\ phase' = "rest" /\ marked' = {}
        /\ UNCHANGED <<xVars, started, calls, spent>>
        /\ IF "windows" \in marked THEN Refresh ELSE UNCHANGED <<engineVars, hostVars>>
    BY DEF Flush
  <1>2. /\ view'.windows \in {view.windows, cached'}
        /\ view'.tasks \in {view.tasks, strip'}
        /\ view'.revision \in {view.revision, revision'}
        /\ view' \in {view, [windows |-> view'.windows, revision |-> view'.revision,
                             tasks |-> view'.tasks]}
    BY DEF Flush
  <1>3. /\ numbers' \in [Ids -> Nat] /\ next' \in Nat \ {0} /\ next <= next'
        /\ cached' \in Snapshots
        /\ \A c \in Ids : numbers'[c] < next'
        /\ \A r \in RefsOfList(cached') : r[2] < next'
        /\ carried' = carried
        /\ strip' \in GoodStrips
        /\ revision' \in Nat \ {0} /\ reconciled' \in BOOLEAN
        /\ reconciled' => RefsIn(strip') = RefsOfList(cached')
        /\ \A r \in RefsIn(strip') : r[2] < next'
    <2>1. CASE "windows" \in marked
      <3>1. Refresh /\ RefreshList
        BY <1>1, <2>1 DEF Refresh
      <3> QED
        BY <3>1, RefreshedList, Refreshed
    <2>2. CASE "windows" \notin marked
      <3>1. /\ numbers' = numbers /\ next' = next /\ cached' = cached /\ strip' = strip
            /\ revision' = revision /\ reconciled' = reconciled /\ carried' = carried
        BY <1>1, <2>2 DEF engineVars, hostVars
      <3>2. next \in Nat \ {0} /\ next <= next
        BY DEF Inv, TypeOK
      <3>3. strip \in GoodStrips
        BY StripIsGood
      <3> QED
        BY <3>1, <3>2, <3>3 DEF Inv, TypeOK, StripShowsCache, NumbersAreOld
    <2> QED
      BY <2>1, <2>2
  <1>4. strip' \in Strips /\ StripIsWellFormed'
    BY <1>3, GoodAreStrips DEF StripIsWellFormed
  <1>5. view' \in [windows : Snapshots, revision : Nat, tasks : Strips]
    <2>1. view \in [windows : Snapshots, revision : Nat, tasks : Strips]
      BY DEF Inv, TypeOK
    <2> QED
      BY <1>2, <1>3, <1>4, <2>1
  <1>6. TypeOK'
    BY <1>1, <1>3, <1>4, <1>5 DEF Inv, TypeOK, xVars
  <1>7. LiveHasApp' /\ (reconciled => started)' /\ StripShowsCache'
    BY <1>1, <1>3 DEF Inv, LiveHasApp, StripShowsCache, xVars
  <1>8. NumbersAreOld'
    <2>1. /\ \A i \in DOMAIN calls : calls[i].op \in WindowOps => calls[i].ref[2] < next'
          /\ \A r \in RefsOfList(view.windows) : r[2] < next'
          /\ \A r \in RefsIn(view.tasks) : r[2] < next'
      BY <1>3, StillOld
    <2> QED
      BY <1>1, <1>2, <1>3, <2>1 DEF NumbersAreOld
  <1> QED
    BY <1>4, <1>6, <1>7, <1>8 DEF Inv

\* A shell starts and loads the view.
LEMMA ShellLoadsKeeps ==
    ASSUME Inv, ShellLoads
    PROVE  Inv'
  <1>1. /\ started /\ Refresh /\ RefreshList /\ calls' = << >> /\ phase' = "drain"
        /\ view' = [windows |-> cached', revision |-> revision', tasks |-> strip']
        /\ UNCHANGED <<xVars, marked, started, spent>>
    BY DEF ShellLoads, Refresh
  <1>2. /\ numbers' \in [Ids -> Nat] /\ next' \in Nat \ {0} /\ next <= next'
        /\ cached' \in Snapshots
        /\ \A c \in Ids : numbers'[c] < next'
        /\ \A r \in RefsOfList(cached') : r[2] < next'
        /\ carried' = carried
    BY <1>1, RefreshedList
  <1>3. /\ strip' \in GoodStrips
        /\ revision' \in Nat \ {0} /\ reconciled' \in BOOLEAN
        /\ reconciled' => RefsIn(strip') = RefsOfList(cached')
        /\ \A r \in RefsIn(strip') : r[2] < next'
    BY <1>1, Refreshed
  <1>4. strip' \in Strips /\ StripIsWellFormed'
    BY <1>3, GoodAreStrips DEF StripIsWellFormed
  <1>5. view' \in [windows : Snapshots, revision : Nat, tasks : Strips]
    BY <1>1, <1>2, <1>3, <1>4
  <1>6. calls' \in Seq(Commands) /\ Len(calls') <= QueueBound
    BY <1>1, TaskBarAssumption
  <1>7. TypeOK'
    BY <1>1, <1>2, <1>3, <1>4, <1>5, <1>6 DEF Inv, TypeOK, xVars
  <1>8. LiveHasApp' /\ (reconciled => started)' /\ StripShowsCache'
    BY <1>1, <1>3 DEF Inv, LiveHasApp, StripShowsCache, xVars
  <1>9. NumbersAreOld'
    BY <1>1, <1>2, <1>3 DEF NumbersAreOld
  <1> QED
    BY <1>4, <1>7, <1>8, <1>9 DEF Inv

-----------------------------------------------------------------------------
(* The shell, and its calls on the thread. *)

\* A command that the shell sends has the numbers of its view.
Sendable(call) ==
    /\ call \in Commands
    /\ call.op \in WindowOps => call.ref[2] < next

\* Commands whose numbers are old may be put on their way.
LEMMA SendKeeps ==
    ASSUME Inv, NEW new \in Seq({call \in Commands : Sendable(call)}), Send(new)
    PROVE  Inv'
  <1>1. /\ TypeOK /\ Len(calls) + Len(new) <= QueueBound /\ calls' = calls \o new
        /\ Spends("calls", MaxCalls) /\ ShellKeeps
    BY DEF Inv, Send
  <1>2. /\ phase' = phase /\ marked' = marked /\ started' = started /\ view' = view
        /\ UNCHANGED xVars
        /\ numbers' = numbers /\ next' = next /\ cached' = cached /\ strip' = strip
        /\ revision' = revision /\ reconciled' = reconciled /\ carried' = carried
    BY <1>1 DEF ShellKeeps, engineVars, hostVars
  <1>3. calls \in Seq(Commands) /\ new \in Seq(Commands)
        /\ \A i \in 1 .. Len(new) : Sendable(new[i])
    BY <1>1 DEF TypeOK
  <1>4. /\ calls' \in Seq(Commands) /\ Len(calls') <= QueueBound
        /\ DOMAIN calls' = 1 .. Len(calls) + Len(new)
        /\ \A i \in 1 .. Len(calls) + Len(new) :
             calls'[i] = IF i <= Len(calls) THEN calls[i] ELSE new[i - Len(calls)]
    BY <1>1, <1>3
  <1>5. spent' \in [opens : 0 .. MaxOpens, asks : 0 .. MaxAsks, calls : 0 .. MaxCalls]
    BY <1>1, Spending
  <1>6. TypeOK'
    BY <1>1, <1>2, <1>4, <1>5 DEF TypeOK, xVars
  <1>7. StripIsWellFormed' /\ StripShowsCache' /\ LiveHasApp' /\ (reconciled => started)'
    BY <1>2 DEF Inv, StripIsWellFormed, StripShowsCache, LiveHasApp, xVars
  <1>8. ASSUME NEW i \in DOMAIN calls', calls'[i].op \in WindowOps
        PROVE  calls'[i].ref[2] < next
    <2>1. Len(calls) \in Nat /\ Len(new) \in Nat /\ DOMAIN calls = 1 .. Len(calls)
          /\ i \in 1 .. Len(calls) + Len(new)
      BY <1>3, <1>4
    <2>2. CASE i <= Len(calls)
      <3>1. i \in DOMAIN calls /\ calls'[i] = calls[i]
        BY <1>4, <2>1, <2>2
      <3> QED
        BY <1>8, <3>1 DEF Inv, NumbersAreOld
    <2>3. CASE ~(i <= Len(calls))
      <3>1. i - Len(calls) \in 1 .. Len(new) /\ calls'[i] = new[i - Len(calls)]
        BY <1>4, <2>1, <2>3
      <3> QED
        BY <1>3, <1>8, <3>1 DEF Sendable
    <2> QED
      BY <2>2, <2>3
  <1>9. NumbersAreOld'
    BY <1>2, <1>8 DEF Inv, NumbersAreOld
  <1> QED
    BY <1>6, <1>7, <1>9 DEF Inv

\* One command, or two.
LEMMA OneOrTwo ==
    ASSUME NEW S, NEW x \in S, NEW y \in S
    PROVE  <<x>> \in Seq(S) /\ <<x, y>> \in Seq(S)
  OBVIOUS

\* A command about a window of the view's strip.
LEMMA WindowCallSendable ==
    ASSUME Inv, NEW op \in WindowOps, NEW ref \in RefsIn(view.tasks)
    PROVE  WindowCall(op, ref) \in {call \in Commands : Sendable(call)}
  <1>1. ref \in Ids \X Nat
    BY StripRefs DEF Inv, TypeOK
  <1>2. ref[2] < next
    BY DEF Inv, NumbersAreOld
  <1>3. WindowCall(op, ref).ref = ref /\ WindowCall(op, ref) \in Commands
    BY <1>1 DEF WindowCall, Commands
  <1> QED
    BY <1>2, <1>3 DEF Sendable

\* A click on a button.
LEMMA ClickKeeps ==
    ASSUME Inv, NEW i \in DOMAIN view.tasks, Click(i)
    PROVE  Inv'
  <1> DEFINE ref == view.tasks[i].ref
             S == {call \in Commands : Sendable(call)}
  <1>1. ref \in RefsIn(view.tasks) /\ Send(ClickCalls(ref))
    BY DEF Click, RefsIn
  <1>2. \A op \in WindowOps : WindowCall(op, ref) \in S
    BY <1>1, WindowCallSendable
  <1> HIDE DEF ref, S
  <1>3. /\ WindowCall("restore", ref) \in S /\ WindowCall("activate", ref) \in S
        /\ WindowCall("minimize", ref) \in S
    BY <1>2 DEF WindowOps
  <1>4. /\ <<WindowCall("restore", ref), WindowCall("activate", ref)>> \in Seq(S)
        /\ <<WindowCall("minimize", ref)>> \in Seq(S)
        /\ <<WindowCall("activate", ref)>> \in Seq(S)
    BY <1>3, OneOrTwo
  <1>5. ClickCalls(ref) \in Seq(S)
    BY <1>4 DEF ClickCalls
  <1> QED
    BY <1>1, <1>5, SendKeeps DEF S

\* An entry of the menu of a window.
LEMMA MenuKeeps ==
    ASSUME Inv, NEW i \in DOMAIN view.tasks, NEW op \in {"activate", "close"},
           MenuAsks(op, i)
    PROVE  Inv'
  <1> DEFINE ref == view.tasks[i].ref
             S == {call \in Commands : Sendable(call)}
  <1>1. /\ Seen(ref) # {} /\ Send(<<WindowCall(op, ref)>>)
        /\ view.windows \in Seq(Windows) /\ view.windows \in Snapshots
    BY DEF MenuAsks, Inv, TypeOK, Snapshots, Windows
  <1>2. ref \in RefsOfList(view.windows)
    <2>1. PICK w \in ToSet(view.windows) : w.ref = ref
      BY <1>1 DEF Seen
    <2> QED
      BY <2>1 DEF ToSet, RefsOfList
  <1> HIDE DEF ref
  <1>3. ref \in Ids \X Nat /\ ref[2] < next
    BY <1>1, <1>2, ListRefs DEF Inv, NumbersAreOld
  <1>4. op \in WindowOps
    BY DEF WindowOps
  <1>5. WindowCall(op, ref).ref = ref /\ WindowCall(op, ref) \in Commands
    BY <1>3, <1>4 DEF WindowCall, Commands
  <1>6. <<WindowCall(op, ref)>> \in Seq(S)
    <2>1. WindowCall(op, ref) \in S
      BY <1>3, <1>5 DEF Sendable
    <2> HIDE DEF S
    <2> QED
      BY <2>1, OneOrTwo
  <1> QED
    BY <1>1, <1>6, SendKeeps

\* The identifier of an entry.
LEMMA IdTypes ==
    ASSUME NEW e \in Entries
    PROVE  IdOf(e) \in EntryIds
  <1>1. e.app \in Apps /\ e.ref \in RefSet
    BY DEF Entries
  <1>2. <<"pin", e.app>> \in {"pin"} \X Apps /\ <<"win", e.ref>> \in {"win"} \X RefSet
    BY <1>1
  <1> QED
    BY <1>2 DEF IdOf, EntryIds

\* Commands about the strip hold no number.
LEMMA PanelCallsKeep ==
    ASSUME Inv,
           \/ \E app \in Apps : AsksPin(app) \/ AsksUnpin(app)
           \/ \E i, j \in DOMAIN view.tasks : AsksMove(i, j)
    PROVE  Inv'
  <1> DEFINE S == {call \in Commands : Sendable(call)}
  <1>1. /\ view.revision \in Nat /\ view.tasks \in Strips /\ view.tasks \in Seq(Entries)
    BY DEF Inv, TypeOK, Strips, Entries
  <1>2. ASSUME NEW call \in [op : PanelOps, app : Apps, id : EntryIds, to : Nat,
                             revision : Nat, tasks : Strips]
        PROVE  call \in S
    BY <1>2 DEF Commands, Sendable, PanelOps, WindowOps
  <1>3. ASSUME NEW app \in Apps, NEW op \in {"pin", "unpin"}
        PROVE  AppCall(op, app) \in S
    <2>1. << >> \in EntryIds /\ op \in PanelOps /\ 0 \in Nat
      BY DEF EntryIds, PanelOps
    <2>2. AppCall(op, app) \in [op : PanelOps, app : Apps, id : EntryIds, to : Nat,
                                revision : Nat, tasks : Strips]
      BY <1>1, <2>1 DEF AppCall
    <2> QED
      BY <1>2, <2>2
  <1>4. ASSUME NEW i \in DOMAIN view.tasks, NEW j \in DOMAIN view.tasks
        PROVE  PanelCall("move", view.tasks[i].app, i, j) \in S
    <2>1. view.tasks[i] \in Entries /\ j \in Nat /\ "move" \in PanelOps
      BY <1>1 DEF PanelOps
    <2>2. IdOf(view.tasks[i]) \in EntryIds /\ view.tasks[i].app \in Apps
      BY <2>1, IdTypes DEF Entries
    <2>3. PanelCall("move", view.tasks[i].app, i, j)
            \in [op : PanelOps, app : Apps, id : EntryIds, to : Nat,
                 revision : Nat, tasks : Strips]
      BY <1>1, <2>1, <2>2 DEF PanelCall
    <2> QED
      BY <1>2, <2>3
  <1>5. \E call \in S : Send(<<call>>)
    BY <1>3, <1>4 DEF AsksPin, AsksUnpin, AsksMove
  <1>6. \E new \in Seq(S) : Send(new)
    <2> HIDE DEF S
    <2> QED
      BY <1>5, OneOrTwo
  <1> QED
    BY <1>6, SendKeeps

\* What is left in the queue when a call is taken.
LEMMA TakenCalls ==
    ASSUME Inv, calls # << >>, calls' = Tail(calls)
    PROVE  /\ calls' \in Seq(Commands) /\ Len(calls') <= QueueBound
           /\ 1 \in DOMAIN calls /\ Head(calls) = calls[1]
           /\ \A n \in Nat :
                (\A i \in DOMAIN calls : calls[i].op \in WindowOps => calls[i].ref[2] < n)
                => \A i \in DOMAIN calls' : calls'[i].op \in WindowOps => calls'[i].ref[2] < n
  <1>1. calls \in Seq(Commands) /\ Len(calls) <= QueueBound /\ QueueBound \in Nat
    BY TaskBarAssumption DEF Inv, TypeOK
  <1>2. /\ calls' \in Seq(Commands) /\ Len(calls') = Len(calls) - 1
        /\ 1 \in DOMAIN calls /\ Head(calls) = calls[1]
        /\ \A i \in DOMAIN calls' : i + 1 \in DOMAIN calls /\ calls'[i] = calls[i + 1]
    BY <1>1
  <1> QED
    BY <1>1, <1>2

\* A command about a window runs: an accepted one gives out the next number, so
\* what it was called with is old.
LEMMA RunWindowCallKeeps ==
    ASSUME Inv, RunWindowCall
    PROVE  Inv'
  <1> DEFINE call == Head(calls)
             c == call.ref[1]
  <1>1. /\ calls # << >> /\ call.op \in WindowOps /\ calls' = Tail(calls)
        /\ phase' = "drain"
        /\ UNCHANGED <<listed, client, active, marked, started, spent, view>>
        /\ cached' = cached /\ strip' = strip /\ revision' = revision
        /\ reconciled' = reconciled
    BY DEF RunWindowCall, Taken, hostVars
  <1>2. \/ /\ Accepted(call.ref) /\ Room /\ Post(call.op, c)
           /\ numbers' = [numbers EXCEPT ![c] = IF call.op = "close" THEN 0 ELSE next]
           /\ next' = next + 1
           /\ carried' = carried \cup {call.ref}
        \/ numbers' = numbers /\ next' = next /\ events' = events /\ carried' = carried
    BY DEF RunWindowCall, engineVars
  <1>3. /\ calls' \in Seq(Commands) /\ Len(calls') <= QueueBound
        /\ call.op \in WindowOps /\ call.ref \in Ids \X Nat
    BY <1>1, TakenCalls, CallTypes DEF Inv
  <1> HIDE DEF call
  <1>4. /\ events' \in Seq(Messages) /\ Len(events') <= EventBound
        /\ numbers' \in [Ids -> Nat] /\ next' \in Nat \ {0} /\ next <= next'
        /\ \A i \in Ids : numbers'[i] < next'
    <2>1. /\ numbers \in [Ids -> Nat] /\ next \in Nat \ {0} /\ c \in Ids
          /\ \A i \in Ids : numbers[i] < next
      BY <1>3 DEF Inv, TypeOK, NumbersAreOld
    <2>2. CASE numbers' = numbers /\ next' = next /\ events' = events
      BY <2>1, <2>2 DEF Inv, TypeOK
    <2>3. CASE /\ Accepted(call.ref) /\ Room /\ Post(call.op, c)
               /\ numbers' = [numbers EXCEPT ![c] = IF call.op = "close" THEN 0 ELSE next]
               /\ next' = next + 1
      <3>1. Message(call.op, c) \in Messages
        BY <1>3, <2>1, MessageTypes DEF WindowOps
      <3>2. events' \in Seq(Messages) /\ Len(events') <= EventBound
        BY <2>3, <3>1, Posted DEF Inv
      <3>3. \A i \in Ids : numbers'[i] \in {0, next, numbers[i]}
        BY <2>1, <2>3
      <3>4. numbers' \in [Ids -> Nat]
        BY <2>1, <2>3
      <3>5. next' \in Nat \ {0} /\ next <= next'
        BY <2>1, <2>3
      <3>6. \A i \in Ids : numbers'[i] < next'
        BY <2>1, <2>3, <3>3
      <3> QED
        BY <3>2, <3>4, <3>5, <3>6
    <2> QED
      BY <1>2, <2>2, <2>3
  <1>8. carried' \subseteq Ids \X Nat
    BY <1>2, <1>3 DEF Inv, TypeOK
  <1>5. TypeOK'
    BY <1>1, <1>3, <1>4, <1>8 DEF Inv, TypeOK
  <1>6. StripIsWellFormed' /\ StripShowsCache' /\ LiveHasApp' /\ (reconciled => started)'
    BY <1>1 DEF Inv, StripIsWellFormed, StripShowsCache, LiveHasApp
  <1>7. NumbersAreOld'
    <2>1. /\ \A i \in DOMAIN calls : calls[i].op \in WindowOps => calls[i].ref[2] < next'
          /\ \A r \in RefsOfList(view.windows) : r[2] < next'
          /\ \A r \in RefsIn(view.tasks) : r[2] < next'
          /\ \A r \in RefsOfList(cached) : r[2] < next'
          /\ \A r \in RefsIn(strip) : r[2] < next'
      BY <1>4, StillOld
    <2>2. \A i \in DOMAIN calls' : calls'[i].op \in WindowOps => calls'[i].ref[2] < next'
      BY <1>1, <1>4, <2>1, TakenCalls
    <2> QED
      BY <1>1, <1>4, <2>1, <2>2 DEF NumbersAreOld
  <1> QED
    BY <1>5, <1>6, <1>7 DEF Inv

\* A pin, an unpin or a move leaves the windows of the strip as they are.
LEMMA PanelCallStrip ==
    ASSUME Inv, NEW call, call.op \in PanelOps, call.app \in Apps, PanelAccepts(call)
    PROVE  StripFor(call) \in GoodStrips /\ RefsIn(StripFor(call)) = RefsIn(strip)
  <1>1. strip \in GoodStrips
    BY StripIsGood
  <1>2. CASE call.op = "pin"
    BY <1>1, <1>2, PinKeeps DEF StripFor
  <1>3. CASE call.op = "unpin"
    BY <1>1, <1>3, UnpinKeeps DEF StripFor
  <1>4. CASE call.op = "move"
    <2>1. PlacesOf(call.id) # {} /\ call.to \in DOMAIN strip
      BY <1>4 DEF PanelAccepts
    <2>2. PlacesOf(call.id) \in SUBSET DOMAIN strip /\ DOMAIN strip \in SUBSET Nat
      BY <1>1, GoodMeans DEF PlacesOf, Places
    <2>3. FirstOf(PlacesOf(call.id)) \in DOMAIN strip
      BY <2>1, <2>2, FirstIsLeast
    <2>4. StripFor(call) = MoveEntry(strip, FirstOf(PlacesOf(call.id)), call.to)
      BY <1>4 DEF StripFor
    <2> QED
      BY <1>1, <2>1, <2>3, <2>4, MoveKeeps
  <1> QED
    BY <1>2, <1>3, <1>4 DEF PanelOps

\* A command about the strip runs.
LEMMA RunPanelCallKeeps ==
    ASSUME Inv, RunPanelCall
    PROVE  Inv'
  <1> DEFINE call == Head(calls)
  <1>1. /\ calls # << >> /\ call.op \in PanelOps /\ calls' = Tail(calls)
        /\ phase' = "drain"
        /\ UNCHANGED <<listed, client, active, marked, started, spent, view>>
        /\ events' = events /\ numbers' = numbers /\ next' = next /\ cached' = cached
        /\ reconciled' = reconciled /\ carried' = carried
    BY DEF RunPanelCall, Taken, engineVars
  <1>2. IF PanelAccepts(call)
        THEN /\ strip' = StripFor(call)
             /\ revision' = IF strip' # strip THEN revision + 1 ELSE revision
        ELSE strip' = strip /\ revision' = revision
    BY DEF RunPanelCall
  <1>3. calls' \in Seq(Commands) /\ Len(calls') <= QueueBound /\ call.app \in Apps
    BY <1>1, TakenCalls, CallTypes DEF Inv
  <1> HIDE DEF call
  <1>4. /\ strip' \in GoodStrips /\ RefsIn(strip') = RefsIn(strip)
        /\ revision' \in Nat \ {0}
    <2>1. revision \in Nat \ {0} /\ strip \in GoodStrips
      BY StripIsGood DEF Inv, TypeOK
    <2> QED
      BY <1>1, <1>2, <1>3, <2>1, PanelCallStrip
  <1>5. strip' \in Strips /\ StripIsWellFormed'
    BY <1>4, GoodAreStrips DEF StripIsWellFormed
  <1>6. TypeOK'
    BY <1>1, <1>3, <1>4, <1>5 DEF Inv, TypeOK
  <1>7. StripShowsCache' /\ LiveHasApp' /\ (reconciled => started)'
    BY <1>1, <1>4 DEF Inv, StripShowsCache, LiveHasApp
  <1>8. NumbersAreOld'
    <2>1. next \in Nat
      BY DEF Inv, TypeOK
    <2>2. \A i \in DOMAIN calls' : calls'[i].op \in WindowOps => calls'[i].ref[2] < next
      BY <1>1, <2>1, TakenCalls DEF Inv, NumbersAreOld
    <2> QED
      BY <1>1, <1>4, <2>2 DEF Inv, NumbersAreOld
  <1> QED
    BY <1>5, <1>6, <1>7, <1>8 DEF Inv

\* Every step keeps the invariant.
THEOREM NextInv == Inv /\ [Next]_vars => Inv'
  <1> SUFFICES ASSUME Inv, [Next]_vars PROVE Inv'
    OBVIOUS
  <1>1. CASE Environment
    <2>1. CASE \E c \in Ids, app \in Apps : Opens(c, app) \/ Renames(c, app)
      BY <2>1, OpensKeeps, RenamesKeeps
    <2>2. CASE \E c \in Ids : Vanishes(c)
      BY <2>2, VanishesKeeps
    <2>3. CASE \/ \E c \in Ids, op \in {"minimize", "deiconify", "activate"} : Asks(op, c)
               \/ DockChanges
      BY <2>3, AsksKeeps
    <2> QED
      BY <1>1, <2>1, <2>2, <2>3 DEF Environment
  <1>2. CASE WmTurn
    BY <1>2, HandleEventKeeps, HostStartsKeeps, FlushKeeps, WakesKeeps DEF WmTurn
  <1>3. CASE Clients
    <2>1. CASE \E i \in DOMAIN view.tasks : Click(i)
      BY <2>1, ClickKeeps
    <2>2. CASE \E i \in DOMAIN view.tasks, op \in {"activate", "close"} : MenuAsks(op, i)
      BY <2>2, MenuKeeps
    <2>3. CASE \/ \E app \in Apps : AsksPin(app) \/ AsksUnpin(app)
               \/ \E i, j \in DOMAIN view.tasks : AsksMove(i, j)
      BY <2>3, PanelCallsKeep
    <2> QED
      BY <1>3, <2>1, <2>2, <2>3 DEF Clients
  <1>4. CASE RunWindowCall \/ RunPanelCall \/ ShellLoads
    BY <1>4, RunWindowCallKeeps, RunPanelCallKeeps, ShellLoadsKeeps
  <1>5. CASE UNCHANGED vars
    <2>1. TypeOK' /\ LiveHasApp'
      BY <1>5 DEF Inv, TypeOK, LiveHasApp, vars
    <2> QED
      BY <1>5, <2>1, QuietKeeps DEF vars, engineVars, hostVars
  <1> QED
    BY <1>1, <1>2, <1>3, <1>4, <1>5 DEF Next

-----------------------------------------------------------------------------
(* Safety. *)

\* The invariant of the whole path holds in every state.
THEOREM TaskBarInvariance == Spec => []Inv
  <1> QED
    BY InitInv, NextInv, PTL DEF Spec

\* Types.
THEOREM TaskBarTypeCorrect == Spec => []TypeOK
  <1>1. Inv => TypeOK
    BY DEF Inv
  <1> QED
    BY <1>1, TaskBarInvariance, PTL

\* The strip is well-formed, however many windows, applications and calls.
THEOREM StripStaysWellFormed == Spec => []StripIsWellFormed
  <1>1. Inv => StripIsWellFormed
    BY DEF Inv
  <1> QED
    BY <1>1, TaskBarInvariance, PTL

\* The strip shows the platform's windows.
THEOREM StripShowsWindows == Spec => []StripShowsCache
  <1>1. Inv => StripShowsCache
    BY DEF Inv
  <1> QED
    BY <1>1, TaskBarInvariance, PTL

-----------------------------------------------------------------------------
(* Steps. *)

\* A window that is read has a number from then on.
LEMMA ReadAreNumbered ==
    ASSUME Inv, RefreshList
    PROVE  \A r \in RefsOfList(cached') : r[2] # 0
  <1>1. /\ Readable \in Seq({c \in Ids : client[c].alive})
        /\ \A c \in Ids : \/ Numbered[c] = numbers[c]
                          \/ Numbered[c] \in next .. next + Len(Unnumbered) - 1
        /\ Len(Unnumbered) \in Nat
    BY NumberedBounds DEF Inv
  <1>2. next \in Nat \ {0} /\ numbers' = Numbered /\ cached' = Snapshot(numbers')
    BY DEF Inv, TypeOK, RefreshList
  <1>3. ASSUME NEW k \in DOMAIN Readable PROVE Numbered[Readable[k]] # 0
    <2>1. Readable[k] \in Ids
      BY <1>1
    <2>2. CASE numbers[Readable[k]] # 0
      BY <1>1, <1>2, <2>1, <2>2
    <2>3. CASE numbers[Readable[k]] = 0
      <3> DEFINE Bare == {c \in Ids : numbers[c] = 0}
      <3>1. Readable[k] \in Bare
        BY <2>1, <2>3
      <3>2. \E i \in DOMAIN Chosen(Readable, Bare) : Chosen(Readable, Bare)[i] = Readable[k]
        <4> HIDE DEF Bare
        <4> QED
          BY <1>1, <3>1, ChosenHas
      <3>3. PICK i \in DOMAIN Unnumbered : Unnumbered[i] = Readable[k]
        BY <3>2 DEF Unnumbered
      <3> DEFINE j == CHOOSE n \in DOMAIN Unnumbered : Unnumbered[n] = Readable[k]
      <3>4. j \in DOMAIN Unnumbered
        BY <3>3
      <3>5. Numbered[Readable[k]] = next - 1 + j
        BY <2>1, <3>3 DEF Numbered
      <3>6. DOMAIN Unnumbered = 1 .. Len(Unnumbered)
        <4>1. Unnumbered \in Seq({c \in Ids : client[c].alive} \cap Bare)
          <5> HIDE DEF Bare
          <5>1. Chosen(Readable, Bare) \in Seq({c \in Ids : client[c].alive} \cap Bare)
            BY <1>1, ChosenType
          <5> QED
            BY <5>1 DEF Unnumbered, Bare
        <4> QED
          BY <4>1
      <3> HIDE DEF j
      <3> QED
        BY <1>1, <1>2, <3>4, <3>5, <3>6
    <2> QED
      BY <2>2, <2>3
  <1>4. ASSUME NEW r \in RefsOfList(cached') PROVE r[2] # 0
    <2>1. PICK k \in DOMAIN cached' : r = cached'[k].ref
      BY <1>4 DEF RefsOfList
    <2>2. k \in DOMAIN Readable /\ r = Ref(Readable[k], Numbered[Readable[k]])
      BY <1>2, <2>1 DEF Snapshot
    <2> QED
      BY <1>3, <2>2 DEF Ref
  <1> QED
    BY <1>4

\* References to windows that wait in commands, or from which a command may be made.
Held ==
    RefsOfCalls \cup RefsOfList(view.windows) \cup RefsIn(view.tasks)
        \cup RefsOfList(cached) \cup RefsIn(strip)

\* A command that is sent is about a window of the view, or about none.
LEMMA SentFrom ==
    ASSUME Inv, NEW new \in Seq(Commands), Send(new), NEW R,
           \A i \in DOMAIN new : new[i].op \in WindowOps => new[i].ref \in R
    PROVE  RefsOfCalls' \subseteq RefsOfCalls \cup R
  <1>1. calls \in Seq(Commands) /\ calls' = calls \o new
    BY DEF Inv, TypeOK, Send
  <1>2. ASSUME NEW i \in DOMAIN calls', calls'[i].op \in WindowOps
        PROVE  calls'[i].ref \in RefsOfCalls \cup R
    <2>1. /\ i \in 1 .. Len(calls) + Len(new) /\ Len(calls) \in Nat /\ Len(new) \in Nat
          /\ calls'[i] = IF i <= Len(calls) THEN calls[i] ELSE new[i - Len(calls)]
      BY <1>1
    <2>2. CASE i <= Len(calls)
      <3>1. i \in DOMAIN calls /\ calls'[i] = calls[i]
        BY <1>1, <2>1, <2>2
      <3> QED
        BY <1>2, <3>1 DEF RefsOfCalls
    <2>3. CASE ~(i <= Len(calls))
      <3>1. i - Len(calls) \in DOMAIN new /\ calls'[i] = new[i - Len(calls)]
        BY <2>1, <2>3
      <3> QED
        BY <1>2, <3>1
    <2> QED
      BY <2>2, <2>3
  <1> QED
    BY <1>2 DEF RefsOfCalls

\* What waits when a call is taken waited before.
LEMMA TakenFrom ==
    ASSUME Inv, calls # << >>, calls' = Tail(calls)
    PROVE  RefsOfCalls' \subseteq RefsOfCalls
  <1>1. calls \in Seq(Commands)
    BY DEF Inv, TypeOK
  <1>2. \A i \in DOMAIN calls' : i + 1 \in DOMAIN calls /\ calls'[i] = calls[i + 1]
    BY <1>1
  <1> QED
    BY <1>2 DEF RefsOfCalls

\* The shell and other clients make commands from the view.
LEMMA ClientsFrom ==
    ASSUME Inv, Clients
    PROVE  RefsOfCalls' \subseteq RefsOfCalls \cup RefsIn(view.tasks) \cup RefsOfList(view.windows)
  <1> DEFINE R == RefsIn(view.tasks) \cup RefsOfList(view.windows)
  <1>0. /\ view.tasks \in Strips /\ view.windows \in Snapshots /\ view.windows \in Seq(Windows)
        /\ view.tasks \in Seq(Entries) /\ view.revision \in Nat
    BY DEF Inv, TypeOK, Strips, Entries, Snapshots, Windows
  <1>1. R \subseteq Ids \X Nat
    BY <1>0, ListRefs, StripRefs
  <1>2. ASSUME NEW op \in WindowOps, NEW ref \in R
        PROVE  WindowCall(op, ref) \in Commands /\ WindowCall(op, ref).ref \in R
    <2>1. ref \in Ids \X Nat
      BY <1>1
    <2> HIDE DEF R
    <2> QED
      BY <2>1 DEF WindowCall, Commands
  <1>3. ASSUME NEW i \in DOMAIN view.tasks, Click(i) PROVE RefsOfCalls' \subseteq RefsOfCalls \cup R
    <2> DEFINE ref == view.tasks[i].ref
    <2>1. ref \in R /\ Send(ClickCalls(ref))
      BY <1>3 DEF Click, RefsIn
    <2> HIDE DEF ref, R
    <2>2. /\ WindowCall("restore", ref) \in Commands /\ WindowCall("restore", ref).ref \in R
          /\ WindowCall("activate", ref) \in Commands /\ WindowCall("activate", ref).ref \in R
          /\ WindowCall("minimize", ref) \in Commands /\ WindowCall("minimize", ref).ref \in R
      BY <1>2, <2>1 DEF WindowOps
    <2>3. /\ ClickCalls(ref) \in Seq(Commands)
          /\ \A n \in DOMAIN ClickCalls(ref) : ClickCalls(ref)[n].ref \in R
      BY <2>2 DEF ClickCalls
    <2> QED
      BY <2>1, <2>3, SentFrom
  <1>4. ASSUME NEW i \in DOMAIN view.tasks, NEW op \in {"activate", "close"}, MenuAsks(op, i)
        PROVE  RefsOfCalls' \subseteq RefsOfCalls \cup R
    <2> DEFINE ref == view.tasks[i].ref
               new == <<WindowCall(op, ref)>>
    <2>1. Seen(ref) # {} /\ Send(new)
      BY <1>4 DEF MenuAsks
    <2>2. ref \in R
      <3>1. PICK w \in ToSet(view.windows) : w.ref = ref
        BY <2>1 DEF Seen
      <3> QED
        BY <3>1 DEF ToSet, RefsOfList
    <2> HIDE DEF ref, R
    <2>3. WindowCall(op, ref) \in Commands /\ WindowCall(op, ref).ref \in R
      BY <1>2, <2>2 DEF WindowOps
    <2>4. new \in Seq(Commands) /\ \A n \in DOMAIN new : new[n].ref \in R
      BY <2>3
    <2> HIDE DEF new
    <2> QED
      BY <2>1, <2>4, SentFrom
  <1>5. ASSUME NEW call \in [op : PanelOps, app : Apps, id : EntryIds, to : Nat,
                             revision : Nat, tasks : Strips],
               Send(<<call>>)
        PROVE  RefsOfCalls' \subseteq RefsOfCalls
    <2> DEFINE new == <<call>>
    <2>1. call \in Commands /\ call.op \notin WindowOps
      BY <1>5 DEF Commands, PanelOps, WindowOps
    <2>2. /\ new \in Seq(Commands) /\ Send(new)
          /\ \A n \in DOMAIN new : new[n].op \in WindowOps => new[n].ref \in {}
      BY <1>5, <2>1
    <2> HIDE DEF new
    <2>3. RefsOfCalls' \subseteq RefsOfCalls \cup {}
      BY <2>2, SentFrom
    <2> QED
      BY <2>3
  <1>6. ASSUME NEW app \in Apps, AsksPin(app) \/ AsksUnpin(app)
        PROVE  RefsOfCalls' \subseteq RefsOfCalls
    <2>1. \A op \in {"pin", "unpin"} :
             AppCall(op, app) \in [op : PanelOps, app : Apps, id : EntryIds, to : Nat,
                                   revision : Nat, tasks : Strips]
      BY <1>0 DEF AppCall, EntryIds, PanelOps
    <2> QED
      BY <1>5, <1>6, <2>1 DEF AsksPin, AsksUnpin
  <1>7. ASSUME NEW i \in DOMAIN view.tasks, NEW j \in DOMAIN view.tasks, AsksMove(i, j)
        PROVE  RefsOfCalls' \subseteq RefsOfCalls
    <2>1. view.tasks[i] \in Entries /\ j \in Nat
      BY <1>0
    <2>2. IdOf(view.tasks[i]) \in EntryIds /\ view.tasks[i].app \in Apps
      BY <2>1, IdTypes DEF Entries
    <2>3. PanelCall("move", view.tasks[i].app, i, j)
            \in [op : PanelOps, app : Apps, id : EntryIds, to : Nat,
                 revision : Nat, tasks : Strips]
      BY <1>0, <2>1, <2>2 DEF PanelCall, PanelOps
    <2> QED
      BY <1>5, <1>7, <2>3 DEF AsksMove
  <1> HIDE DEF R
  <1>8. RefsOfCalls' \subseteq RefsOfCalls \cup R
    BY <1>3, <1>4, <1>6, <1>7 DEF Clients
  <1> QED
    BY <1>8 DEF R

\* A refresh puts windows of the new list into the strip.
LEMMA StripFrom ==
    ASSUME Inv, Refresh
    PROVE  RefsIn(strip') \subseteq RefsIn(strip) \cup RefsOfList(cached')
  <1>1. /\ strip' = IF cached' # cached THEN Reconcile(strip, cached') ELSE strip
        /\ reconciled' = (reconciled \/ cached' # cached)
    BY DEF Refresh
  <1> QED
    BY <1>1, Refreshed

\* What is held was read from a list: a step adds what the list it reads names.
LEMMA HeldFrom ==
    ASSUME Inv, [Next]_vars
    PROVE  Held' \subseteq Held \cup RefsOfList(cached')
  <1>1. ASSUME view' = view, calls' = calls, cached' = cached, strip' = strip
        PROVE  Held' \subseteq Held
    BY <1>1 DEF Held, RefsOfCalls
  <1>2. CASE Environment \/ HandleEvent \/ Wakes \/ UNCHANGED vars
    BY <1>1, <1>2 DEF Environment, Opens, Renames, Vanishes, Asks, DockChanges, AppsKeep,
                      HandleEvent, Wakes, hostVars, vars
  <1>3. CASE HostStarts
    <2>1. strip' = strip /\ view' = view /\ calls' = calls
      BY <1>3 DEF HostStarts
    <2> QED
      BY <2>1 DEF Held, RefsOfCalls
  <1>4. CASE Flush
    <2>1. /\ view'.windows \in {view.windows, cached'} /\ view'.tasks \in {view.tasks, strip'}
          /\ calls' = calls
      BY <1>4 DEF Flush
    <2>2. RefsIn(strip') \subseteq RefsIn(strip) \cup RefsOfList(cached')
      BY <1>4, StripFrom DEF Flush, hostVars
    <2> QED
      BY <2>1, <2>2 DEF Held, RefsOfCalls
  <1>5. CASE ShellLoads
    <2>1. /\ view'.windows = cached' /\ view'.tasks = strip' /\ calls' = << >>
      BY <1>5 DEF ShellLoads
    <2>2. RefsIn(strip') \subseteq RefsIn(strip) \cup RefsOfList(cached')
      BY <1>5, StripFrom DEF ShellLoads
    <2>3. RefsOfCalls' = {}
      BY <2>1 DEF RefsOfCalls
    <2> QED
      BY <2>1, <2>2, <2>3 DEF Held
  <1>6. CASE Clients
    <2>1. ShellKeeps
      BY <1>6 DEF Clients, Click, MenuAsks, AsksPin, AsksUnpin, AsksMove, Send
    <2>2. view' = view /\ cached' = cached /\ strip' = strip
      BY <2>1 DEF ShellKeeps, hostVars
    <2> QED
      BY <1>6, <2>2, ClientsFrom DEF Held
  <1>7. CASE RunWindowCall
    <2>1. view' = view /\ cached' = cached /\ strip' = strip
      BY <1>7 DEF RunWindowCall, Taken, hostVars
    <2>2. RefsOfCalls' \subseteq RefsOfCalls
      BY <1>7, TakenFrom DEF RunWindowCall, Taken
    <2> QED
      BY <2>1, <2>2 DEF Held
  <1>8. CASE RunPanelCall
    <2>1. view' = view /\ cached' = cached
      BY <1>8 DEF RunPanelCall, Taken
    <2>2. RefsOfCalls' \subseteq RefsOfCalls
      BY <1>8, TakenFrom DEF RunPanelCall, Taken
    <2>3. RefsIn(strip') = RefsIn(strip)
      <3> DEFINE call == Head(calls)
      <3>1. /\ strip' = IF PanelAccepts(call) THEN StripFor(call) ELSE strip
            /\ calls # << >> /\ calls' = Tail(calls) /\ call.op \in PanelOps
        BY <1>8 DEF RunPanelCall, Taken
      <3>2. call.app \in Apps
        BY <3>1, TakenCalls, CallTypes DEF Inv
      <3> HIDE DEF call
      <3> QED
        BY <3>1, <3>2, PanelCallStrip
    <2> QED
      BY <2>1, <2>2, <2>3 DEF Held
  <1> QED
    BY <1>2, <1>3, <1>4, <1>5, <1>6, <1>7, <1>8 DEF Next, WmTurn

\* Whoever holds a reference holds a number.
HeldIsNumbered == \A r \in Held : r[2] # 0

\* A reference with which a command was carried out has a number that was given out
\* and is not its window's any more.
CarriedIsOver ==
    \A r \in carried : r[2] \in 1 .. next - 1 /\ numbers[r[1]] # r[2]

\* At the start nothing is held and no command was carried out.
LEMMA InitCarried == Init => HeldIsNumbered /\ CarriedIsOver
  BY DEF Init, HeldIsNumbered, CarriedIsOver, Held, RefsOfCalls, RefsOfList, RefsIn

\* Every step keeps both.
LEMMA CarriedStep ==
    ASSUME Inv, HeldIsNumbered, CarriedIsOver, [Next]_vars
    PROVE  HeldIsNumbered' /\ CarriedIsOver'
  <1>1. RefreshList \/ RunWindowCall \/ UNCHANGED <<cached, numbers, next, carried>>
    <2>1. CASE Environment
      BY <2>1 DEF Environment, Opens, Renames, Vanishes, Asks, DockChanges, AppsKeep,
                  engineVars, hostVars
    <2>2. CASE WmTurn
      BY <2>2 DEF WmTurn, HandleEvent, HostStarts, Flush, Refresh, Wakes, engineVars, hostVars
    <2>3. CASE Clients
      <3>1. ShellKeeps
        BY <2>3 DEF Clients, Click, MenuAsks, AsksPin, AsksUnpin, AsksMove, Send
      <3> QED
        BY <3>1 DEF ShellKeeps, engineVars, hostVars
    <2>4. CASE RunWindowCall \/ RunPanelCall \/ ShellLoads
      BY <2>4 DEF RunPanelCall, ShellLoads, Refresh, engineVars
    <2>5. CASE UNCHANGED vars
      BY <2>5 DEF vars
    <2> QED
      BY <2>1, <2>2, <2>3, <2>4, <2>5 DEF Next
  <1>2. /\ next \in Nat \ {0} /\ numbers \in [Ids -> Nat] /\ carried \subseteq Ids \X Nat
        /\ \A c \in Ids : numbers[c] < next
    BY DEF Inv, TypeOK, NumbersAreOld
  <1>3. HeldIsNumbered'
    <2>1. CASE RefreshList
      BY <2>1, HeldFrom, ReadAreNumbered DEF HeldIsNumbered
    <2>2. CASE cached' = cached
      <3>1. Held' \subseteq Held
        BY <2>2, HeldFrom DEF Held
      <3> QED
        BY <3>1 DEF HeldIsNumbered
    <2>3. RunWindowCall => cached' = cached
      BY DEF RunWindowCall, hostVars
    <2> QED
      BY <1>1, <2>1, <2>2, <2>3
  <1>4. CarriedIsOver'
    <2>1. CASE RefreshList
      <3>1. /\ next' \in Nat /\ next <= next' /\ carried' = carried
            /\ numbers' \in [Ids -> Nat]
            /\ \A c \in Ids : numbers'[c] = numbers[c] \/ numbers'[c] >= next
        BY <2>1, RefreshedList
      <3>2. ASSUME NEW r \in carried PROVE r[2] \in 1 .. next' - 1 /\ numbers'[r[1]] # r[2]
        <4>1. r[2] \in 1 .. next - 1 /\ numbers[r[1]] # r[2] /\ r[1] \in Ids
          BY <1>2, <3>2 DEF CarriedIsOver
        <4> QED
          BY <1>2, <3>1, <4>1
      <3> QED
        BY <3>1, <3>2 DEF CarriedIsOver
    <2>2. CASE RunWindowCall
      <3> DEFINE call == Head(calls)
                 c == call.ref[1]
      <3>1. /\ calls # << >> /\ calls' = Tail(calls) /\ call.op \in WindowOps
            /\ \/ /\ Accepted(call.ref)
                  /\ numbers' = [numbers EXCEPT ![c] = IF call.op = "close" THEN 0 ELSE next]
                  /\ next' = next + 1
                  /\ carried' = carried \cup {call.ref}
               \/ numbers' = numbers /\ next' = next /\ carried' = carried
        BY <2>2 DEF RunWindowCall, Taken, engineVars
      <3>2. 1 \in DOMAIN calls /\ call = calls[1]
        BY <3>1, TakenCalls
      <3>3. call.ref \in Ids \X Nat /\ call.ref \in Held
        BY <3>1, <3>2, CallTypes DEF Inv, Held, RefsOfCalls
      <3>4. call.ref[2] # 0 /\ c \in Ids /\ call.ref[2] \in Nat
        BY <3>3 DEF HeldIsNumbered
      <3> HIDE DEF call
      <3>5. ASSUME NEW r \in carried PROVE r[2] \in 1 .. next' - 1 /\ numbers'[r[1]] # r[2]
        <4>1. r[2] \in 1 .. next - 1 /\ numbers[r[1]] # r[2] /\ r[1] \in Ids
          BY <1>2, <3>5 DEF CarriedIsOver
        <4>2. numbers'[r[1]] \in {numbers[r[1]], 0, next}
          BY <1>2, <3>1, <3>4, <4>1
        <4>3. next' \in {next, next + 1}
          BY <3>1
        <4> QED
          BY <1>2, <4>1, <4>2, <4>3
      <3>6. ASSUME Accepted(call.ref), next' = next + 1,
                   numbers' = [numbers EXCEPT ![c] = IF call.op = "close" THEN 0 ELSE next]
            PROVE  call.ref[2] \in 1 .. next' - 1 /\ numbers'[c] # call.ref[2]
        <4>1. numbers[c] = call.ref[2] /\ numbers[c] < next
          BY <1>2, <3>4, <3>6 DEF Accepted
        <4>2. numbers'[c] \in {0, next}
          BY <1>2, <3>4, <3>6
        <4> QED
          BY <1>2, <3>4, <3>6, <4>1, <4>2
      <3> QED
        BY <3>1, <3>5, <3>6 DEF CarriedIsOver
    <2>3. CASE UNCHANGED <<cached, numbers, next, carried>>
      BY <2>3 DEF CarriedIsOver
    <2> QED
      BY <1>1, <2>1, <2>2, <2>3
  <1> QED
    BY <1>3, <1>4

\* Of the commands that carry one reference, at most one is carried out, whatever
\* windows come and go with that identifier.
THEOREM ReferenceServesOnce == Spec => []OneCommandPerReference
  <1>1. Spec => [](HeldIsNumbered /\ CarriedIsOver)
    BY InitCarried, CarriedStep, TaskBarInvariance, PTL DEF Spec
  <1>2. CarriedIsOver => OneCommandPerReference
    BY DEF CarriedIsOver, OneCommandPerReference, Accepted
  <1> QED
    BY <1>1, <1>2, PTL

\* Where the list and the strip change in one step, the strip was reconciled.
LEMMA OrderStep ==
    ASSUME Inv, [Next]_vars, strip' # strip, cached' # cached
    PROVE  KeepsOrder(strip, strip')
  <1>1. CASE Refresh
    BY <1>1, Refreshed
  <1>2. Refresh
    <2>1. CASE Environment
      BY <2>1 DEF Environment, Opens, Renames, Vanishes, Asks, DockChanges, AppsKeep, hostVars
    <2>2. CASE WmTurn
      BY <2>2 DEF WmTurn, HandleEvent, HostStarts, Flush, Wakes, hostVars
    <2>3. CASE Clients
      <3>1. ShellKeeps
        BY <2>3 DEF Clients, Click, MenuAsks, AsksPin, AsksUnpin, AsksMove, Send
      <3> QED
        BY <3>1 DEF ShellKeeps, hostVars
    <2>4. CASE RunWindowCall \/ RunPanelCall \/ ShellLoads
      BY <2>4 DEF RunWindowCall, RunPanelCall, ShellLoads, hostVars
    <2>5. CASE UNCHANGED vars
      BY <2>5 DEF vars
    <2> QED
      BY <2>1, <2>2, <2>3, <2>4, <2>5 DEF Next
  <1> QED
    BY <1>1, <1>2

\* However many windows come and go at once, the slots stay in their order.
THEOREM SlotsStayInOrder == Spec => SlotsKeepTheirOrder
  <1>1. ASSUME Inv, [Next]_vars, strip' # strip, cached' # cached,
               NEW i \in DOMAIN strip, NEW j \in DOMAIN strip,
               i < j, strip[i].pinned, strip[j].pinned
        PROVE  FirstOf(PinnedAt(strip', strip[i].app))
                 < FirstOf(PinnedAt(strip', strip[j].app))
    <2>1. strip \in GoodStrips /\ KeepsOrder(strip, strip')
      BY <1>1, StripIsGood, OrderStep
    <2>2. Inv'
      BY <1>1, NextInv
    <2>3. strip' \in GoodStrips
      BY <2>2 DEF Inv, TypeOK, StripIsWellFormed, GoodStrips, Strips, Entries
    <2> QED
      BY <1>1, <2>1, <2>3, OrderOfSlots
  <1>2. Inv /\ [Next]_vars =>
          [strip' # strip /\ cached' # cached =>
             \A i, j \in DOMAIN strip :
               i < j /\ strip[i].pinned /\ strip[j].pinned =>
                 FirstOf(PinnedAt(strip', strip[i].app))
                   < FirstOf(PinnedAt(strip', strip[j].app))]_vars
    BY <1>1
  <1> QED
    BY <1>2, TaskBarInvariance, PTL DEF Spec, SlotsKeepTheirOrder

-----------------------------------------------------------------------------
(* The revision of the panels names the strip: whoever holds a revision, the  *)
(* view of the shell or a command on its way, holds with it the strip that    *)
(* the platform has, or a smaller number.  What the strip is made of does     *)
(* not matter.                                                                *)

\* A revision n and the strip seen with it, while the platform has rev and s.
Names(n, tasks, rev, s) == n \in Nat /\ n <= rev /\ (n = rev => tasks = s)

CallNames(call, rev, s) ==
    call.op \in PanelOps => Names(call.revision, call.tasks, rev, s)

\* Every command about the strip that waits in q names the strip it was meant for.
CallsName(q, rev, s) ==
    /\ \E S : q \in Seq(S)
    /\ \A i \in 1 .. Len(q) : CallNames(q[i], rev, s)

RevisionNamesStrip ==
    /\ revision \in Nat \ {0}
    /\ Names(view.revision, view.tasks, revision, strip)
    /\ CallsName(calls, revision, strip)

-----------------------------------------------------------------------------
(* What is named stays named when strip and revision stay, and when the    *)
(* revision goes up.                                                       *)

Renamed(rev, s, rev2, s2) == (rev2 = rev /\ s2 = s) \/ rev2 = rev + 1

\* A named pair stays named.
LEMMA NamesKept ==
    ASSUME NEW rev \in Nat, NEW s, NEW rev2, NEW s2, Renamed(rev, s, rev2, s2),
           NEW n, NEW tasks, Names(n, tasks, rev, s)
    PROVE  Names(n, tasks, rev2, s2)
  BY DEF Renamed, Names

\* So do the calls that wait.
LEMMA CallsKept ==
    ASSUME NEW rev \in Nat, NEW s, NEW rev2, NEW s2, Renamed(rev, s, rev2, s2),
           NEW q, CallsName(q, rev, s)
    PROVE  CallsName(q, rev2, s2)
  <1>1. ASSUME NEW i \in 1 .. Len(q), q[i].op \in PanelOps
        PROVE  Names(q[i].revision, q[i].tasks, rev2, s2)
    <2>1. Names(q[i].revision, q[i].tasks, rev, s)
      BY <1>1 DEF CallsName, CallNames
    <2> QED
      BY <2>1, NamesKept
  <1> QED
    BY <1>1 DEF CallsName, CallNames

\* The first call is taken.
LEMMA TailName ==
    ASSUME NEW rev, NEW s, NEW q, CallsName(q, rev, s), q # << >>
    PROVE  CallsName(Tail(q), rev, s)
  <1>1. PICK S : q \in Seq(S)
    BY DEF CallsName
  <1>2. /\ Len(q) \in Nat \ {0}
        /\ Tail(q) \in Seq(S)
        /\ Len(Tail(q)) = Len(q) - 1
        /\ \A i \in 1 .. Len(q) - 1 : Tail(q)[i] = q[i + 1]
    BY <1>1
  <1>3. \A i \in 1 .. Len(q) - 1 : i + 1 \in 1 .. Len(q)
    BY <1>2
  <1>4. \A i \in 1 .. Len(Tail(q)) : CallNames(Tail(q)[i], rev, s)
    BY <1>2, <1>3 DEF CallsName
  <1> QED
    BY <1>2, <1>4 DEF CallsName

\* No calls, nothing to name.
LEMMA NoCallsName ==
    ASSUME NEW rev, NEW s
    PROVE  CallsName(<< >>, rev, s)
  BY DEF CallsName

\* New calls are added, as many as a click makes.
LEMMA SentName ==
    ASSUME NEW rev, NEW s, NEW q, CallsName(q, rev, s),
           NEW new, CallsName(new, rev, s)
    PROVE  CallsName(q \o new, rev, s)
  <1>1. PICK S : q \in Seq(S)
    BY DEF CallsName
  <1>2. PICK T : new \in Seq(T)
    BY DEF CallsName
  <1>3. q \in Seq(S \cup T) /\ new \in Seq(S \cup T)
    BY <1>1, <1>2
  <1>4. /\ q \o new \in Seq(S \cup T)
        /\ Len(q) \in Nat /\ Len(new) \in Nat
        /\ Len(q \o new) = Len(q) + Len(new)
        /\ \A i \in 1 .. Len(q) + Len(new) :
             (q \o new)[i] = IF i <= Len(q) THEN q[i] ELSE new[i - Len(q)]
    BY <1>3
  <1>5. ASSUME NEW i \in 1 .. Len(q \o new) PROVE CallNames((q \o new)[i], rev, s)
    <2>1. CASE i <= Len(q)
      BY <1>4, <2>1 DEF CallsName
    <2>2. CASE ~(i <= Len(q))
      <3>1. i - Len(q) \in 1 .. Len(new) /\ (q \o new)[i] = new[i - Len(q)]
        BY <1>4, <2>2
      <3> QED
        BY <3>1 DEF CallsName
    <2> QED
      BY <2>1, <2>2
  <1> QED
    BY <1>4, <1>5 DEF CallsName

-----------------------------------------------------------------------------
(* The steps. *)

\* At the start nothing has been sent, and the view has no revision.
THEOREM InitNames == Init => RevisionNamesStrip
  BY NoCallsName DEF Init, RevisionNamesStrip, Names

\* A refresh changes the strip only with its revision (reconcile_windows).
LEMMA RefreshRenames ==
    ASSUME revision \in Nat, Refresh
    PROVE  Renamed(revision, strip, revision', strip')
  BY DEF Refresh, Renamed

\* A step of the platform that the view does not notice and no call is born in.
LEMMA QuietStep ==
    ASSUME RevisionNamesStrip,
           Renamed(revision, strip, revision', strip'),
           view' = view,
           calls' = calls \/ (calls # << >> /\ calls' = Tail(calls))
    PROVE  RevisionNamesStrip'
  <1>1. revision \in Nat \ {0} /\ revision' \in Nat \ {0}
    BY DEF RevisionNamesStrip, Renamed
  <1>2. Names(view.revision, view.tasks, revision', strip')
    BY <1>1, NamesKept DEF RevisionNamesStrip
  <1>3. CallsName(calls', revision, strip)
    BY TailName DEF RevisionNamesStrip
  <1>4. CallsName(calls', revision', strip')
    BY <1>1, <1>3, CallsKept
  <1> QED
    BY <1>1, <1>2, <1>4 DEF RevisionNamesStrip

\* What the shell sends names what the shell has.
LEMMA SendStep ==
    ASSUME RevisionNamesStrip, NEW new, CallsName(new, revision, strip), Send(new)
    PROVE  RevisionNamesStrip'
  BY SentName DEF Send, ShellKeeps, hostVars, RevisionNamesStrip

\* One call that names the strip, and two.
LEMMA FewCalls ==
    ASSUME NEW rev, NEW s, NEW a, NEW b, CallNames(a, rev, s), CallNames(b, rev, s)
    PROVE  CallsName(<<a>>, rev, s) /\ CallsName(<<a, b>>, rev, s)
  <1>1. /\ <<a>> \in Seq({a}) /\ Len(<<a>>) = 1 /\ <<a>>[1] = a
        /\ <<a, b>> \in Seq({a, b}) /\ Len(<<a, b>>) = 2
        /\ <<a, b>>[1] = a /\ <<a, b>>[2] = b
    OBVIOUS
  <1>2. \A i \in 1 .. 1 : CallNames(<<a>>[i], rev, s)
    <2>1. \A i \in 1 .. 1 : i = 1
      OBVIOUS
    <2> QED
      BY <1>1, <2>1
  <1>3. \A i \in 1 .. 2 : CallNames(<<a, b>>[i], rev, s)
    <2>1. \A i \in 1 .. 2 : i = 1 \/ i = 2
      OBVIOUS
    <2> QED
      BY <1>1, <2>1
  <1>4. /\ \E S : <<a>> \in Seq(S)
        /\ \E S : <<a, b>> \in Seq(S)
    BY <1>1
  <1> QED
    BY <1>1, <1>2, <1>3, <1>4 DEF CallsName

\* A command about a window names nothing.
LEMMA ClickNames ==
    ASSUME NEW ref
    PROVE  CallsName(ClickCalls(ref), revision, strip)
  <1>1. \A op \in WindowOps : CallNames(WindowCall(op, ref), revision, strip)
    BY DEF WindowOps, PanelOps, WindowCall, CallNames
  <1> QED
    BY <1>1, FewCalls DEF ClickCalls, WindowOps

\* One command about the strip, with the revision and the tasks of the view.
LEMMA PanelNames ==
    ASSUME RevisionNamesStrip, NEW call,
           call.revision = view.revision, call.tasks = view.tasks
    PROVE  CallsName(<<call>>, revision, strip)
  <1>1. CallNames(call, revision, strip)
    BY DEF RevisionNamesStrip, CallNames
  <1> QED
    BY <1>1, FewCalls

\* Every step keeps the invariant.
THEOREM NextNames == RevisionNamesStrip /\ [Next]_vars => RevisionNamesStrip'
  <1> SUFFICES ASSUME RevisionNamesStrip, [Next]_vars PROVE RevisionNamesStrip'
    OBVIOUS
  <1>0. revision \in Nat
    BY DEF RevisionNamesStrip
  <1>1. CASE Environment
    <2>1. view' = view /\ calls' = calls /\ strip' = strip /\ revision' = revision
      BY <1>1 DEF Environment, Opens, Vanishes, Renames, Asks, DockChanges,
                  AppsKeep, hostVars
    <2> QED
      BY <2>1, QuietStep DEF Renamed
  <1>2. CASE HandleEvent
    BY <1>2, QuietStep DEF HandleEvent, hostVars, Renamed
  <1>3. CASE HostStarts
    BY <1>3, QuietStep DEF HostStarts, Renamed
  <1>4. CASE Flush
    <2>1. Renamed(revision, strip, revision', strip')
      BY <1>0, <1>4, RefreshRenames DEF Flush, hostVars, Renamed
    <2>2. calls' = calls
      BY <1>4 DEF Flush
    <2>3. CallsName(calls', revision', strip')
      BY <1>0, <2>1, <2>2, CallsKept DEF RevisionNamesStrip
    <2>4. revision' \in Nat \ {0}
      BY <2>1 DEF RevisionNamesStrip, Renamed
    <2>5. Names(view'.revision, view'.tasks, revision', strip')
      <3>1. Names(view.revision, view.tasks, revision', strip')
        BY <1>0, <2>1, NamesKept DEF RevisionNamesStrip
      <3>2. Names(revision', strip', revision', strip')
        BY <2>4 DEF Names
      <3>3. CASE view' = view
        BY <3>1, <3>3
      <3>4. CASE PanelsAnnounced /\ view'.revision = revision' /\ view'.tasks = strip'
        BY <3>2, <3>4
      <3>5. CASE view'.revision = view.revision /\ view'.tasks = view.tasks
        BY <3>1, <3>5
      <3> QED
        BY <1>4, <3>3, <3>4, <3>5 DEF Flush
    <2> QED
      BY <2>3, <2>4, <2>5 DEF RevisionNamesStrip
  <1>5. CASE Wakes
    BY <1>5, QuietStep DEF Wakes, hostVars, Renamed
  <1>6. ASSUME NEW i \in DOMAIN view.tasks, Click(i) PROVE RevisionNamesStrip'
    BY <1>6, ClickNames, SendStep DEF Click
  <1>7. ASSUME NEW i \in DOMAIN view.tasks, NEW op \in {"activate", "close"},
               MenuAsks(op, i)
        PROVE  RevisionNamesStrip'
    <2>1. CallNames(WindowCall(op, view.tasks[i].ref), revision, strip)
      BY DEF WindowCall, CallNames, PanelOps
    <2>2. CallsName(<<WindowCall(op, view.tasks[i].ref)>>, revision, strip)
      BY <2>1, FewCalls
    <2> QED
      BY <1>7, <2>2, SendStep DEF MenuAsks
  <1>8. ASSUME NEW app \in Apps, AsksPin(app) \/ AsksUnpin(app) PROVE RevisionNamesStrip'
    <2>1. \A op : /\ AppCall(op, app).revision = view.revision
                  /\ AppCall(op, app).tasks = view.tasks
      BY DEF AppCall
    <2>2. \A op : CallsName(<<AppCall(op, app)>>, revision, strip)
      BY <2>1, PanelNames
    <2> QED
      BY <1>8, <2>2, SendStep DEF AsksPin, AsksUnpin
  <1>9. ASSUME NEW i \in DOMAIN view.tasks, NEW j \in DOMAIN view.tasks, AsksMove(i, j)
        PROVE  RevisionNamesStrip'
    <2>1. CallsName(<<PanelCall("move", view.tasks[i].app, i, j)>>, revision, strip)
      <3>1. /\ PanelCall("move", view.tasks[i].app, i, j).revision = view.revision
            /\ PanelCall("move", view.tasks[i].app, i, j).tasks = view.tasks
        BY DEF PanelCall
      <3> QED
        BY <3>1, PanelNames
    <2> QED
      BY <1>9, <2>1, SendStep DEF AsksMove
  <1>10. CASE RunWindowCall
    BY <1>10, QuietStep DEF RunWindowCall, Taken, hostVars, Renamed
  <1>11. CASE RunPanelCall
    <2>1. Renamed(revision, strip, revision', strip')
      BY <1>11 DEF RunPanelCall, Renamed
    <2>2. view' = view /\ calls # << >> /\ calls' = Tail(calls)
      BY <1>11 DEF RunPanelCall, Taken
    <2> QED
      BY <2>1, <2>2, QuietStep
  <1>12. CASE ShellLoads
    <2>1. Renamed(revision, strip, revision', strip')
      BY <1>0, <1>12, RefreshRenames DEF ShellLoads
    <2>2. revision' \in Nat \ {0}
      BY <2>1 DEF RevisionNamesStrip, Renamed
    <2>3. view'.revision = revision' /\ view'.tasks = strip' /\ calls' = << >>
      BY <1>12 DEF ShellLoads
    <2> QED
      BY <2>2, <2>3, NoCallsName DEF RevisionNamesStrip, Names
  <1>13. CASE UNCHANGED vars
    BY <1>13, QuietStep DEF vars, hostVars, Renamed
  <1> QED
    BY <1>1, <1>2, <1>3, <1>4, <1>5, <1>6, <1>7, <1>8, <1>9, <1>10, <1>11, <1>12, <1>13
    DEF Next, WmTurn, Clients

\* A revision is never the name of two strips, in the view of the shell or in a
\* command that waits (PanelService.require_revision, ShellSnapshot).
THEOREM RevisionIdentifiesStrip == Spec => []RevisionNamesStrip
  <1> QED
    BY InitNames, NextNames, PTL DEF Spec

\* A step that changes the strip and not the list carries out a command whose
\* sender saw that strip.
THEOREM ActsOnSeen == Spec => ActsOnWhatWasSeen
  <1>1. ASSUME RevisionNamesStrip, [Next]_vars, strip' # strip, cached' = cached
        PROVE  calls # << >> /\ Head(calls).op \in PanelOps /\ Head(calls).tasks = strip
    <2>1. RunPanelCall
      <3>1. ~UNCHANGED vars
        BY <1>1 DEF vars, hostVars
      <3>2. ~Environment
        BY <1>1 DEF Environment, Opens, Vanishes, Renames, Asks, DockChanges,
                    AppsKeep, hostVars
      <3>3. ~WmTurn
        BY <1>1 DEF WmTurn, HandleEvent, HostStarts, Flush, Wakes, Refresh, hostVars
      <3>4. ~Clients
        BY <1>1 DEF Clients, Click, MenuAsks, AsksPin, AsksUnpin, AsksMove, Send,
                    ShellKeeps, hostVars
      <3>5. ~RunWindowCall
        BY <1>1 DEF RunWindowCall, hostVars
      <3>6. ~ShellLoads
        BY <1>1 DEF ShellLoads, Refresh
      <3> QED
        BY <1>1, <3>1, <3>2, <3>3, <3>4, <3>5, <3>6 DEF Next
    <2>2. calls # << >> /\ Head(calls).op \in PanelOps /\ PanelAccepts(Head(calls))
      BY <1>1, <2>1 DEF RunPanelCall
    <2>3. CallNames(Head(calls), revision, strip)
      <3>1. PICK S : calls \in Seq(S)
        BY <1>1 DEF RevisionNamesStrip, CallsName
      <3>2. 1 \in 1 .. Len(calls) /\ Head(calls) = calls[1]
        BY <2>2, <3>1
      <3> QED
        BY <1>1, <3>2 DEF RevisionNamesStrip, CallsName
    <2> QED
      BY <2>2, <2>3 DEF PanelAccepts, CallNames, Names
  <1>2. RevisionNamesStrip /\ [Next]_vars =>
          [strip' # strip /\ cached' = cached =>
             calls # << >> /\ Head(calls).op \in PanelOps /\ Head(calls).tasks = strip]_vars
    BY <1>1
  <1> QED
    BY <1>2, RevisionIdentifiesStrip, PTL DEF Spec, ActsOnWhatWasSeen
=============================================================================
