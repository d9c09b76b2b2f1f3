------------------------ MODULE TerminalInputProofs ------------------------
(***************************************************************************)
(* Proofs about the bytes of the input: what the parser makes of a buffer, *)
(* and that cursor_position() finds the reply, for any keys, any reply,    *)
(* any size of the buffers and any number of keys and calls.               *)
(*                                                                         *)
(* Both are folds over the bytes.  A fold is the last of the results of a  *)
(* step function along the sequence, and what is shown of it is shown of   *)
(* each result, by induction over how far it has come.                     *)
(***************************************************************************)
EXTENDS TerminalProofs, WellFoundedInduction

-----------------------------------------------------------------------------
(* Induction over the natural numbers, for a set.                          *)
LEMMA SetInduction ==
    ASSUME NEW S, 0 \in S, \A n \in Nat : n \in S => n + 1 \in S
    PROVE  \A n \in Nat : n \in S
<1> SUFFICES ASSUME NEW m \in Nat, m \notin S PROVE FALSE
  OBVIOUS
<1> DEFINE T == {n \in Nat : n \notin S}
<1>1. \E x \in T : \A y \in T : ~ (<<y, x>> \in OpToRel(<, Nat))
  <2>1. T \subseteq Nat /\ T # {}
    OBVIOUS
  <2> HIDE DEF T
  <2> QED
    BY <2>1, NatLessThanWellFounded, WFMin
<1>2. PICK x \in T : \A y \in T : ~ (<<y, x>> \in OpToRel(<, Nat))
  BY <1>1
<1>3. \A y \in T : ~(y < x)
  <2>1. \A y \in T : y \in Nat /\ x \in Nat
    OBVIOUS
  <2> HIDE DEF T
  <2> QED
    BY <1>2, <2>1 DEF OpToRel
<1> QED
  <2> USE <1>3
  <2>1. x \in Nat /\ x \notin S
    OBVIOUS
  <2>2. x # 0
    BY <2>1
  <2>3. x - 1 \in Nat /\ (x - 1) + 1 = x
    BY <2>1, <2>2
  <2>4. x - 1 \in T
    BY <2>1, <2>3
  <2> QED
    BY <2>1, <2>4

(* The results of a step function along a sequence, one after the other.   *)
IsRun(F, st, b, s) ==
    /\ F[0] = b
    /\ \A k \in 1..Len(s) : F[k] = st[<<F[k - 1], s[k]>>]

Fits(T, C, st, b, s) == st \in [T \X C -> T] /\ b \in T /\ s \in Seq(C)

-----------------------------------------------------------------------------
(* How the folds of the library recur: the last element is dealt with last.*)
FoldValue(g, st, b, s, t) == IF t = {} THEN b ELSE st[<<g[t \ {Max(t)}], s[Max(t)]>>]
IsFold(g, st, b, s, n) == \A t \in SUBSET (1..n) : g[t] = FoldValue(g, st, b, s, t)

LEMMA MaxIs ==
    ASSUME NEW t, NEW m \in t, m \in Int, \A y \in t : y \in Int /\ y <= m
    PROVE  Max(t) = m
<1>1. \A x \in t : (\A y \in t : x >= y) => x = m
  OBVIOUS
<1>2. \A y \in t : m >= y
  OBVIOUS
<1> QED
  BY <1>1, <1>2 DEF Max

LEMMA MaxOfSubset ==
    ASSUME NEW n \in Nat, NEW t \in SUBSET (1..n), t # {}
    PROVE  Max(t) \in t
<1> DEFINE S == {m \in Nat : \A u \in SUBSET (1..m) : u # {} => \E x \in u : \A y \in u : x >= y}
<1>1. 0 \in S
  <2>1. \A u \in SUBSET (1..0) : u = {}
    OBVIOUS
  <2> QED
    BY <2>1
<1>2. \A m \in Nat : m \in S => m + 1 \in S
  <2> SUFFICES ASSUME NEW m \in S, NEW u \in SUBSET (1..(m + 1)), u # {}
               PROVE  \E x \in u : \A y \in u : x >= y
    OBVIOUS
  <2>1. m \in Nat
    OBVIOUS
  <2>2. CASE m + 1 \in u
    BY <2>1, <2>2
  <2>3. CASE m + 1 \notin u
    <3>1. u \in SUBSET (1..m)
      BY <2>1, <2>3
    <3> QED
      BY <3>1
  <2> QED
    BY <2>2, <2>3
<1>3. n \in S
  <2> HIDE DEF S
  <2> QED
    BY <1>1, <1>2, SetInduction
<1>4. \E x \in t : \A y \in t : x >= y
  BY <1>3
<1> QED
  BY <1>4 DEF Max

(* The function by which the library folds exists, and is typed.           *)
LEMMA FoldGrows ==
    ASSUME NEW T, NEW C, NEW st \in [T \X C -> T], NEW b \in T, NEW s \in Seq(C),
           NEW n \in Nat, n + 1 <= Len(s),
           NEW g \in [SUBSET (1..n) -> T], IsFold(g, st, b, s, n)
    PROVE  \E h \in [SUBSET (1..(n + 1)) -> T] : IsFold(h, st, b, s, n + 1)
<1> DEFINE h == [t \in SUBSET (1..(n + 1)) |->
                      IF n + 1 \in t THEN st[<<g[t \ {n + 1}], s[n + 1]>>] ELSE g[t]]
<1>1. \A t \in SUBSET (1..(n + 1)) : t \ {n + 1} \in SUBSET (1..n)
  OBVIOUS
<1>2. \A t \in SUBSET (1..(n + 1)) : n + 1 \notin t => t \in SUBSET (1..n)
  OBVIOUS
<1>3. s[n + 1] \in C
  <2>1. n + 1 \in 1..Len(s)
    BY LenProperties
  <2> QED
    BY <2>1, ElementOfSeq
<1>4. h \in [SUBSET (1..(n + 1)) -> T]
  BY <1>1, <1>2, <1>3
<1>5. ASSUME NEW t \in SUBSET (1..(n + 1)) PROVE h[t] = FoldValue(h, st, b, s, t)
  <2>1. CASE n + 1 \in t
    <3>1. Max(t) = n + 1
      <4>1. n + 1 \in Int /\ \A y \in t : y \in Int /\ y <= n + 1
        OBVIOUS
      <4> QED
        BY <2>1, <4>1, MaxIs
    <3>2. t \ {n + 1} \in SUBSET (1..(n + 1)) /\ n + 1 \notin t \ {n + 1}
      OBVIOUS
    <3>3. h[t \ {n + 1}] = g[t \ {n + 1}]
      BY <3>2
    <3>4. h[t] = st[<<g[t \ {n + 1}], s[n + 1]>>]
      BY <2>1
    <3> HIDE DEF h
    <3> QED
      BY <2>1, <3>1, <3>3, <3>4 DEF FoldValue
  <2>2. CASE n + 1 \notin t
    <3>1. t \in SUBSET (1..n) /\ h[t] = g[t]
      BY <1>2, <2>2
    <3>2. CASE t = {}
      <4> HIDE DEF h
      <4> QED
        BY <3>1, <3>2 DEF FoldValue, IsFold
    <3>3. CASE t # {}
      <4>1. t \ {Max(t)} \in SUBSET (1..(n + 1)) /\ n + 1 \notin t \ {Max(t)}
        BY <2>2
      <4>2. h[t \ {Max(t)}] = g[t \ {Max(t)}]
        BY <4>1
      <4> HIDE DEF h
      <4> QED
        BY <3>1, <3>3, <4>2 DEF FoldValue, IsFold
    <3> QED
      BY <3>2, <3>3
  <2> QED
    BY <2>1, <2>2
<1> HIDE DEF h
<1> QED
  BY <1>4, <1>5 DEF IsFold

LEMMA FoldExists ==
    ASSUME NEW T, NEW C, NEW st \in [T \X C -> T], NEW b \in T, NEW s \in Seq(C)
    PROVE  \E g \in [SUBSET (1..Len(s)) -> T] : IsFold(g, st, b, s, Len(s))
<1> DEFINE Exists(n) == \E g \in [SUBSET (1..n) -> T] : IsFold(g, st, b, s, n)
           S == {n \in Nat : n <= Len(s) => Exists(n)}
<1>0. Len(s) \in Nat
  BY LenProperties
<1>1. 0 \in S
  <2>1. SUBSET (1..0) = {{}}
    OBVIOUS
  <2>2. [t \in {{}} |-> b] \in [SUBSET (1..0) -> T]
    BY <2>1
  <2>3. IsFold([t \in {{}} |-> b], st, b, s, 0)
    BY <2>1 DEF IsFold, FoldValue
  <2> QED
    BY <2>2, <2>3
<1>2. \A n \in Nat : n \in S => n + 1 \in S
  <2>1. ASSUME NEW n \in Nat, Exists(n), n + 1 <= Len(s) PROVE Exists(n + 1)
    BY <2>1, FoldGrows
  <2> HIDE DEF Exists
  <2> QED
    BY <1>0, <2>1
<1>3. Len(s) \in S
  <2> HIDE DEF S
  <2> QED
    BY <1>0, <1>1, <1>2, SetInduction
<1>4. Exists(Len(s))
  <2> HIDE DEF Exists
  <2> QED
    BY <1>0, <1>3
<1> QED
  BY <1>4

(* Its values for the prefixes are the results, one after the other.       *)
LEMMA RunExists ==
    ASSUME NEW T, NEW C, NEW st, NEW b, NEW s, Fits(T, C, st, b, s)
    PROVE  \E F \in [0..Len(s) -> T] : IsRun(F, st, b, s)
<1>0. st \in [T \X C -> T] /\ b \in T /\ s \in Seq(C)
  BY DEF Fits
<1>1. PICK g \in [SUBSET (1..Len(s)) -> T] : IsFold(g, st, b, s, Len(s))
  BY <1>0, FoldExists
<1> DEFINE F == [k \in 0..Len(s) |-> g[1..k]]
<1>2. Len(s) \in Nat
  BY <1>0, LenProperties
<1>3. \A k \in 0..Len(s) : 1..k \in SUBSET (1..Len(s))
  BY <1>2
<1>4. F \in [0..Len(s) -> T]
  BY <1>3
<1>5. F[0] = b
  <2>1. 1..0 = {} /\ 0 \in 0..Len(s)
    BY <1>2
  <2>2. F[0] = g[1..0]
    BY <2>1
  <2> HIDE DEF F
  <2> QED
    BY <1>1, <1>3, <2>1, <2>2 DEF IsFold, FoldValue
<1>6. ASSUME NEW k \in 1..Len(s) PROVE F[k] = st[<<F[k - 1], s[k]>>]
  <2>1. k \in Nat /\ k >= 1 /\ k - 1 \in 0..Len(s) /\ k \in 0..Len(s)
    BY <1>2
  <2>2. k \in 1..k /\ (1..k) \ {k} = 1..(k - 1)
    BY <2>1
  <2>3. Max(1..k) = k
    <3>1. k \in Int /\ \A y \in 1..k : y \in Int /\ y <= k
      BY <2>1
    <3> QED
      BY <2>2, <3>1, MaxIs
  <2>4. F[k] = g[1..k] /\ F[k - 1] = g[1..(k - 1)]
    BY <2>1
  <2> HIDE DEF F
  <2>5. g[1..k] = FoldValue(g, st, b, s, 1..k)
    BY <1>1, <1>3, <2>1 DEF IsFold
  <2> QED
    BY <2>2, <2>3, <2>4, <2>5 DEF FoldValue
<1> HIDE DEF F
<1> QED
  BY <1>4, <1>5, <1>6 DEF IsRun

LEMMA RunUnique ==
    ASSUME NEW T, NEW C, NEW st, NEW b, NEW s, Fits(T, C, st, b, s),
           NEW F, IsRun(F, st, b, s), NEW G, IsRun(G, st, b, s)
    PROVE  \A k \in 0..Len(s) : F[k] = G[k] /\ F[k] \in T
<1> DEFINE S == {k \in Nat : k <= Len(s) => F[k] = G[k] /\ F[k] \in T}
<1>0. Len(s) \in Nat /\ \A k \in 1..Len(s) : s[k] \in C
  BY LenProperties DEF Fits
<1>1. 0 \in S
  BY DEF IsRun, Fits
<1>2. \A k \in Nat : k \in S => k + 1 \in S
  <2> SUFFICES ASSUME NEW k \in Nat, k \in S, k + 1 <= Len(s)
               PROVE  F[k + 1] = G[k + 1] /\ F[k + 1] \in T
    OBVIOUS
  <2>1. F[k] = G[k] /\ F[k] \in T
    BY <1>0
  <2>2. k + 1 \in 1..Len(s) /\ (k + 1) - 1 = k /\ s[k + 1] \in C
    BY <1>0
  <2>3. F[k + 1] = st[<<F[k], s[k + 1]>>] /\ G[k + 1] = st[<<G[k], s[k + 1]>>]
    BY <2>2 DEF IsRun
  <2> QED
    BY <2>1, <2>2, <2>3 DEF Fits
<1>3. \A k \in Nat : k \in S
  <2> HIDE DEF S
  <2> QED
    BY <1>1, <1>2, SetInduction
<1> QED
  BY <1>0, <1>3

(* The last of the results.                                                *)
Steps(st, b, s) == (CHOOSE F : IsRun(F, st, b, s))[Len(s)]

LEMMA StepsOfRun ==
    ASSUME NEW T, NEW C, NEW st, NEW b, NEW s, Fits(T, C, st, b, s),
           NEW F, IsRun(F, st, b, s)
    PROVE  F[Len(s)] = Steps(st, b, s) /\ Steps(st, b, s) \in T
<1>1. IsRun(CHOOSE G : IsRun(G, st, b, s), st, b, s)
  OBVIOUS
<1>2. Len(s) \in 0..Len(s)
  BY LenProperties DEF Fits
<1> QED
  BY <1>1, <1>2, RunUnique DEF Steps

LEMMA StepsTyped ==
    ASSUME NEW T, NEW C, NEW st, NEW b, NEW s, Fits(T, C, st, b, s)
    PROVE  Steps(st, b, s) \in T
BY RunExists, StepsOfRun

(* The results along the first n elements.                                 *)
LEMMA RunPrefix ==
    ASSUME NEW T, NEW C, NEW st, NEW b, NEW s, Fits(T, C, st, b, s),
           NEW F, IsRun(F, st, b, s), NEW n \in 0..Len(s)
    PROVE  /\ SubSeq(s, 1, n) \in Seq(C) /\ Len(SubSeq(s, 1, n)) = n
           /\ F[n] = Steps(st, b, SubSeq(s, 1, n)) /\ F[n] \in T
<1> DEFINE u == SubSeq(s, 1, n)
<1>1. Len(s) \in Nat /\ \A k \in 1..Len(s) : s[k] \in C
  BY LenProperties DEF Fits
<1>2. u \in Seq(C) /\ Len(u) = n /\ \A i \in 1..n : u[i] = s[i]
  BY <1>1
<1>3. IsRun(F, st, b, u)
  <2> HIDE DEF u
  <2> QED
    BY <1>1, <1>2 DEF IsRun
<1> HIDE DEF u
<1>4. Fits(T, C, st, b, u)
  BY <1>2 DEF Fits
<1>5. F[n] = Steps(st, b, u) /\ F[n] \in T
  BY <1>2, <1>3, <1>4, StepsOfRun
<1> QED
  BY <1>2, <1>5 DEF u

(* The results along the rest of a sequence.                               *)
LEMMA RunRest ==
    ASSUME NEW T, NEW C, NEW st, NEW b, NEW s, Fits(T, C, st, b, s),
           NEW F, IsRun(F, st, b, s), NEW n \in 0..Len(s)
    PROVE  /\ Fits(T, C, st, F[n], SubSeq(s, n + 1, Len(s)))
           /\ Len(SubSeq(s, n + 1, Len(s))) = Len(s) - n
           /\ IsRun([k \in 0..(Len(s) - n) |-> F[k + n]], st, F[n], SubSeq(s, n + 1, Len(s)))
<1> DEFINE u == SubSeq(s, n + 1, Len(s))
           G == [k \in 0..(Len(s) - n) |-> F[k + n]]
<1>1. Len(s) \in Nat /\ n \in Nat /\ n <= Len(s) /\ \A k \in 1..Len(s) : s[k] \in C
  BY LenProperties DEF Fits
<1>2. u \in Seq(C) /\ Len(u) = Len(s) - n /\ \A i \in 1..(Len(s) - n) : u[i] = s[i + n]
  BY <1>1
<1> HIDE DEF u
<1>3. F[n] \in T
  BY RunUnique
<1>4. IsRun(G, st, F[n], u)
  <2>1. G[0] = F[n]
    BY <1>1, <1>2
  <2>2. ASSUME NEW k \in 1..Len(u) PROVE G[k] = st[<<G[k - 1], u[k]>>]
    <3>1. G[k] = F[k + n] /\ G[k - 1] = F[(k + n) - 1] /\ u[k] = s[k + n]
      BY <1>1, <1>2
    <3>2. F[k + n] = st[<<F[(k + n) - 1], s[k + n]>>]
      BY <1>1, <1>2 DEF IsRun
    <3> HIDE DEF G
    <3> QED
      BY <3>1, <3>2
  <2> HIDE DEF G
  <2> QED
    BY <2>1, <2>2 DEF IsRun
<1>5. Fits(T, C, st, F[n], u)
  BY <1>2, <1>3 DEF Fits
<1> HIDE DEF G
<1> QED
  BY <1>2, <1>4, <1>5 DEF u, G

(* The results along two sequences, one after the other.                   *)
Then(F, m, G) == [k \in Nat |-> IF k <= m THEN F[k] ELSE G[k - m]]

LEMMA RunThen ==
    ASSUME NEW T, NEW C, NEW st, NEW b, NEW s, Fits(T, C, st, b, s), NEW u \in Seq(C),
           NEW F, IsRun(F, st, b, s), NEW G, IsRun(G, st, F[Len(s)], u)
    PROVE  /\ Fits(T, C, st, b, s \o u) /\ Len(s \o u) = Len(s) + Len(u)
           /\ IsRun(Then(F, Len(s), G), st, b, s \o u)
           /\ \A k \in 0..Len(u) : Then(F, Len(s), G)[k + Len(s)] = G[k]
<1> DEFINE m == Len(s)
           v == s \o u
           H == Then(F, m, G)
<1>1. /\ m \in Nat /\ Len(u) \in Nat /\ v \in Seq(C) /\ Len(v) = m + Len(u)
      /\ \A i \in 1..m : v[i] = s[i]
      /\ \A i \in 1..Len(u) : v[i + m] = u[i]
  <2>1. s \in Seq(C)
    BY DEF Fits
  <2>2. m \in Nat /\ Len(u) \in Nat
    BY <2>1, LenProperties
  <2>3. /\ v \in Seq(C) /\ Len(v) = m + Len(u)
        /\ \A i \in 1..(m + Len(u)) : v[i] = IF i <= m THEN s[i] ELSE u[i - m]
    BY <2>1, ConcatProperties
  <2>0. m = Len(s)
    OBVIOUS
  <2> HIDE DEF v, m
  <2>4. ASSUME NEW i \in 1..Len(u) PROVE v[i + m] = u[i]
    <3>1. i + m \in 1..(m + Len(u)) /\ ~(i + m <= m) /\ (i + m) - m = i
      BY <2>2
    <3> QED
      BY <2>3, <3>1
  <2>5. \A i \in 1..m : v[i] = s[i]
    BY <2>2, <2>3
  <2> QED
    BY <2>2, <2>3, <2>4, <2>5
<1> HIDE DEF v
<1>2. \A k \in 0..m : H[k] = F[k]
  BY <1>1 DEF Then
<1>3. ASSUME NEW k \in 0..Len(u) PROVE H[k + m] = G[k]
  <2>1. k + m \in Nat /\ (k + m) - m = k /\ (k + m <= m => k = 0) /\ k \in Nat
    BY <1>1
  <2>2. H[k + m] = IF k + m <= m THEN F[k + m] ELSE G[k]
    BY <2>1 DEF Then
  <2>3. G[0] = F[m]
    BY DEF IsRun
  <2>4. CASE k = 0
    <3>1. k + m <= m /\ k + m = m
      BY <1>1, <2>4
    <3> HIDE DEF H, m
    <3> QED
      BY <2>2, <2>3, <2>4, <3>1
  <2>5. CASE k # 0
    <3> HIDE DEF H, m
    <3> QED
      BY <2>1, <2>2, <2>5
  <2> QED
    BY <2>4, <2>5
<1> HIDE DEF H
<1>4. ASSUME NEW i \in 1..Len(v) PROVE H[i] = st[<<H[i - 1], v[i]>>]
  <2>1. CASE i <= m
    <3>1. i \in 1..m /\ i - 1 \in 0..m /\ i \in 0..m
      BY <1>1, <2>1
    <3>2. F[i] = st[<<F[i - 1], s[i]>>]
      BY <3>1 DEF IsRun
    <3> QED
      BY <1>1, <1>2, <3>1, <3>2
  <2>2. CASE ~(i <= m)
    <3>1. PICK k \in 1..Len(u) : i = k + m
      <4>1. i - m \in 1..Len(u) /\ i = (i - m) + m
        BY <1>1, <2>2
      <4> QED
        BY <4>1
    <3>2. k - 1 \in 0..Len(u) /\ k \in 0..Len(u) /\ i - 1 = (k - 1) + m
      BY <1>1, <3>1
    <3>3. G[k] = st[<<G[k - 1], u[k]>>]
      BY DEF IsRun
    <3> QED
      BY <1>1, <1>3, <3>1, <3>2, <3>3
  <2> QED
    BY <2>1, <2>2
<1>5. H[0] = b
  <2>1. F[0] = b
    BY DEF IsRun
  <2> QED
    BY <1>1, <1>2, <2>1
<1>6. IsRun(H, st, b, v)
  BY <1>4, <1>5 DEF IsRun
<1>7. Fits(T, C, st, b, v)
  BY <1>1 DEF Fits
<1> QED
  BY <1>1, <1>3, <1>6, <1>7 DEF H, v

(* A result that no further element changes is the last one.               *)
LEMMA RunStays ==
    ASSUME NEW T, NEW C, NEW st, NEW b, NEW s, Fits(T, C, st, b, s),
           NEW F, IsRun(F, st, b, s), NEW n \in 0..Len(s),
           \A i \in (n + 1)..Len(s) : st[<<F[n], s[i]>>] = F[n]
    PROVE  \A k \in n..Len(s) : F[k] = F[n]
<1> DEFINE S == {k \in Nat : k + n <= Len(s) => F[k + n] = F[n]}
<1>0. Len(s) \in Nat /\ n \in Nat
  BY LenProperties DEF Fits
<1>1. 0 \in S
  BY <1>0
<1>2. \A k \in Nat : k \in S => k + 1 \in S
  <2> SUFFICES ASSUME NEW k \in Nat, k \in S, (k + 1) + n <= Len(s)
               PROVE  F[(k + 1) + n] = F[n]
    OBVIOUS
  <2>1. /\ (k + 1) + n \in 1..Len(s) /\ (k + 1) + n \in (n + 1)..Len(s)
        /\ ((k + 1) + n) - 1 = k + n
    BY <1>0
  <2>2. F[k + n] = F[n]
    BY <1>0
  <2>3. F[(k + 1) + n] = st[<<F[k + n], s[(k + 1) + n]>>]
    BY <2>1 DEF IsRun
  <2> QED
    BY <2>1, <2>2, <2>3
<1>3. \A k \in Nat : k \in S
  <2> HIDE DEF S
  <2> QED
    BY <1>1, <1>2, SetInduction
<1>4. ASSUME NEW k \in n..Len(s) PROVE F[k] = F[n]
  <2>1. k - n \in Nat /\ (k - n) + n = k /\ k <= Len(s)
    BY <1>0
  <2>2. k - n \in S
    BY <1>3, <2>1
  <2> QED
    BY <2>1, <2>2
<1> QED
  BY <1>4

(* A function that recurs as the folds of the library do gives the last.   *)
FoldsLike(T, st, b, s, h) ==
    /\ h[{}] = b
    /\ \A t \in SUBSET (1..Len(s)) : t # {} /\ h[t \ {Max(t)}] \in T =>
           h[t] = st[<<h[t \ {Max(t)}], s[Max(t)]>>]

\* The fold of a sequence is the last of the results.
LEMMA FoldIsSteps ==
    ASSUME NEW T, NEW C, NEW st, NEW b, NEW s, Fits(T, C, st, b, s),
           NEW h, FoldsLike(T, st, b, s, h)
    PROVE  h[1..Len(s)] = Steps(st, b, s)
<1>1. Len(s) \in Nat
  BY LenProperties DEF Fits
<1>2. PICK F \in [0..Len(s) -> T] : IsRun(F, st, b, s)
  BY RunExists
<1> DEFINE S == {k \in Nat : k <= Len(s) => h[1..k] = F[k]}
<1>3. 0 \in S
  <2>1. 1..0 = {}
    OBVIOUS
  <2> QED
    BY <1>2, <2>1 DEF IsRun, FoldsLike
<1>4. \A k \in Nat : k \in S => k + 1 \in S
  <2> SUFFICES ASSUME NEW k \in Nat, k \in S, k + 1 <= Len(s) PROVE h[1..(k + 1)] = F[k + 1]
    OBVIOUS
  <2>1. h[1..k] = F[k] /\ F[k] \in T
    BY <1>1
  <2>2. /\ 1..(k + 1) \in SUBSET (1..Len(s)) /\ k + 1 \in 1..(k + 1) /\ k + 1 \in 1..Len(s)
        /\ (1..(k + 1)) \ {k + 1} = 1..k /\ (k + 1) - 1 = k
    BY <1>1
  <2>3. Max(1..(k + 1)) = k + 1
    <3>1. k + 1 \in Int /\ \A y \in 1..(k + 1) : y \in Int /\ y <= k + 1
      OBVIOUS
    <3> QED
      BY <2>2, <3>1, MaxIs
  <2>4. h[1..(k + 1)] = st[<<h[1..k], s[k + 1]>>]
    BY <2>1, <2>2, <2>3 DEF FoldsLike
  <2>5. F[k + 1] = st[<<F[k], s[k + 1]>>]
    BY <1>2, <2>2 DEF IsRun
  <2> QED
    BY <2>1, <2>4, <2>5
<1>5. Len(s) \in S
  <2> HIDE DEF S
  <2> QED
    BY <1>1, <1>3, <1>4, SetInduction
<1>6. F[Len(s)] = Steps(st, b, s)
  BY <1>2, StepsOfRun
<1> QED
  BY <1>1, <1>5, <1>6

-----------------------------------------------------------------------------
(* Flattening is a run of concatenations.                                  *)
Joins(S) == [x \in Seq(S) \X Seq(S) |-> x[1] \o x[2]]

LEMMA JoinsFits ==
    ASSUME NEW S, NEW ss \in Seq(Seq(S))
    PROVE  Fits(Seq(S), Seq(S), Joins(S), << >>, ss)
<1>1. \A x \in Seq(S) \X Seq(S) : x[1] \o x[2] \in Seq(S)
  BY ConcatProperties
<1>2. Joins(S) \in [Seq(S) \X Seq(S) -> Seq(S)]
  BY <1>1 DEF Joins
<1> QED
  BY <1>2, EmptySeq DEF Fits

LEMMA FlattenRun ==
    ASSUME NEW S, NEW ss \in Seq(Seq(S)), NEW F, IsRun(F, Joins(S), << >>, ss)
    PROVE  FlattenSeq(ss) = F[Len(ss)] /\ FlattenSeq(ss) \in Seq(S)
<1>0. Len(ss) # 0 => \E m \in Nat : m + 1 = Len(ss)
  <2>1. PICK n \in Nat : n = Len(ss)
    BY LenProperties
  <2>2. n # 0 => n - 1 \in Nat /\ (n - 1) + 1 = n
    OBVIOUS
  <2> QED
    BY <2>1, <2>2
<1>1. Fits(Seq(S), Seq(S), Joins(S), << >>, ss)
  BY JoinsFits
<1>2. \A k \in 0..Len(ss) : F[k] \in Seq(S)
  BY <1>1, RunUnique
<1>3. Len(ss) \in Nat /\ \A k \in 1..Len(ss) : ss[k] \in Seq(S)
  BY LenProperties
<1>4. F[0] = << >> /\ \A k \in 1..Len(ss) : F[k] = F[k - 1] \o ss[k]
  <2>1. \A k \in 1..Len(ss) : F[k - 1] \in Seq(S) /\ F[k] = Joins(S)[<<F[k - 1], ss[k]>>]
    BY <1>2, <1>3 DEF IsRun
  <2>2. \A k \in 1..Len(ss) : Joins(S)[<<F[k - 1], ss[k]>>] = F[k - 1] \o ss[k]
    BY <1>3, <2>1 DEF Joins
  <2> QED
    BY <2>1, <2>2 DEF IsRun
<1>5. CASE Len(ss) = 0
  BY <1>2, <1>4, <1>5, EmptySeq DEF FlattenSeq
<1>6. CASE Len(ss) # 0
  <2> DEFINE Def(f) == f = [i \in 1..Len(ss) |-> IF i = 1 THEN ss[i] ELSE f[i - 1] \o ss[i]]
             G == [i \in 1..Len(ss) |-> F[i]]
             H == CHOOSE f : Def(f)
  <2>1. ASSUME NEW i \in 1..Len(ss) PROVE G[i] = IF i = 1 THEN ss[i] ELSE G[i - 1] \o ss[i]
    <3>0. G[i] = F[i] /\ (i # 1 => G[i - 1] = F[i - 1])
      BY <1>3
    <3> HIDE DEF G
    <3>1. CASE i = 1
      <4>0. 1 \in 1..Len(ss) /\ 1 - 1 = 0
        BY <3>1
      <4>1. F[1] = << >> \o ss[1] /\ ss[1] \in Seq(S)
        <5>1. F[1] = F[1 - 1] \o ss[1]
          BY <1>4, <4>0
        <5> QED
          BY <1>3, <1>4, <4>0, <5>1
      <4>2. << >> \o ss[1] = ss[1]
        BY <4>1, ConcatEmptySeq
      <4> QED
        BY <3>0, <3>1, <4>1, <4>2
    <3>2. CASE i # 1
      BY <1>4, <3>0, <3>2
    <3> QED
      BY <3>1, <3>2
  <2>2. Def(G)
    BY <2>1
  <2>3. Def(H)
    <3> HIDE DEF Def
    <3> QED
      BY <2>2
  <2>4. \A i \in 1..Len(ss) : H[i] = IF i = 1 THEN ss[i] ELSE H[i - 1] \o ss[i]
    <3> HIDE DEF H
    <3> QED
      BY <2>3
  <2>5. FlattenSeq(ss) = H[Len(ss)]
    BY <1>6 DEF FlattenSeq
  <2> HIDE DEF H
  <2> DEFINE P == {i \in Nat : i + 1 <= Len(ss) => H[i + 1] = F[i + 1]}
  <2>6. 0 \in P
    <3>1. 1 \in 1..Len(ss)
      BY <1>3, <1>6
    <3>2. H[1] = G[1]
      BY <2>1, <2>4, <3>1
    <3> QED
      BY <3>1, <3>2
  <2>7. \A i \in Nat : i \in P => i + 1 \in P
    <3> SUFFICES ASSUME NEW i \in Nat, i \in P, (i + 1) + 1 <= Len(ss)
                 PROVE  H[(i + 1) + 1] = F[(i + 1) + 1]
      OBVIOUS
    <3>1. H[i + 1] = F[i + 1]
      BY <1>3
    <3>2. /\ (i + 1) + 1 \in 1..Len(ss) /\ (i + 1) + 1 # 1
          /\ ((i + 1) + 1) - 1 = i + 1
      BY <1>3
    <3>3. H[(i + 1) + 1] = H[i + 1] \o ss[(i + 1) + 1]
      BY <2>4, <3>2
    <3>4. F[(i + 1) + 1] = F[i + 1] \o ss[(i + 1) + 1]
      BY <1>4, <3>2
    <3> QED
      BY <3>1, <3>3, <3>4
  <2>8. \A i \in Nat : i \in P
    <3> HIDE DEF P
    <3> QED
      BY <2>6, <2>7, SetInduction
  <2> HIDE DEF P
  <2>9. PICK m \in Nat : m + 1 = Len(ss)
    BY <1>0, <1>6
  <2>10. H[m + 1] = F[m + 1]
    BY <1>3, <2>8, <2>9 DEF P
  <2>11. Len(ss) \in 0..Len(ss)
    BY <1>3
  <2> QED
    BY <1>2, <2>5, <2>9, <2>10, <2>11
<1> QED
  BY <1>5, <1>6

-----------------------------------------------------------------------------
(* The parser and the loop of cursor_position() as step functions.         *)
Byte  == 0..255
Word  == 0..U16 - 1
Event == [code : Byte, mods : Byte] \cup [x : Word, y : Word, mods : Byte]

ParserState == [state : {"first", "control", "sequence", "number", "throws", "asserts"},
                params : [1..4 -> Word], current : 1..4, out : Seq(Event)]
CursorState == [state : {"start", "esc", "bracket", "semicolon", "end", "invalid"},
                row : Word, col : Word]

ParseStep == [x \in ParserState \X Byte |-> ParseByte(x[1], x[2])]
ReplyStep == [x \in CursorState \X Byte |-> ReplyByte(x[1], x[2])]

\* 16 bits and 8 bits.
LEMMA Remainder ==
    ASSUME NEW m \in Nat, m > 0
    PROVE  /\ \A n \in Int : n % m \in 0..m - 1
           /\ \A n \in 0..m - 1 : n % m = n
BY SMT

LEMMA WordMod ==
    /\ \A n \in Int : n % U16 \in Word /\ n % 256 \in Byte
    /\ Word \subseteq Nat /\ Byte \subseteq Word /\ Byte \subseteq Nat
<1>1. U16 \in Nat /\ U16 > 255 /\ 256 \in Nat /\ 256 > 0 /\ 256 - 1 = 255
  BY DEF U16
<1>2. Byte \subseteq Word /\ Byte \subseteq Nat
  <2> HIDE DEF U16
  <2> QED
    BY <1>1 DEF Byte, Word
<1>3. Word \subseteq Nat /\ \A n \in Int : n % U16 \in Word
  <2> HIDE DEF U16
  <2> QED
    BY <1>1, Remainder DEF Word
<1>4. \A n \in Int : n % 256 \in Byte
  BY <1>1, Remainder DEF Byte
<1> QED
  BY <1>2, <1>3, <1>4

LEMMA DigitOnly ==
    ASSUME NEW c \in Digit
    PROVE  c # ESC /\ c # SEMICOLON /\ c \notin {60, 77, 82, 109} /\ c \notin Arrow
BY DEF Digit, SEMICOLON, ESC, Arrow

\* What the parser yields is an event, whatever it has read.
LEMMA CharacterTyped ==
    ASSUME NEW c \in Byte
    PROVE  /\ from_character(c, 0) \in Event /\ from_character(c, Alt) \in Event
           /\ Character(c) \in Event
<1>1. (c + 96) % 256 \in Byte
  BY DEF Byte
<1> QED
  BY <1>1 DEF from_character, Character, Event, Byte, Alt, Ctrl, Key_Marker

LEMMA FunctionKeyTyped ==
    ASSUME NEW c \in Byte, NEW m \in Word
    PROVE  parse_function_key(c, m) \in Event
<1> DEFINE n == m % 256
           k == Special + Key_Marker + (IF n \in 2..8 THEN Shift * (n - 1) ELSE 0)
<1>1. n \in Byte
  BY WordMod
<1>2. k \in Byte
  <2> HIDE DEF n
  <2> QED
    BY <1>1 DEF Byte, Special, Key_Marker, Shift
<1>3. parse_function_key(c, m) = [code |-> c, mods |-> k]
  BY DEF parse_function_key
<1> HIDE DEF k
<1> QED
  BY <1>2, <1>3 DEF Event

LEMMA MouseTyped ==
    ASSUME NEW p \in ParserState, NEW mod \in {0, Release}
    PROVE  parse_mouse(p, mod) \in Event
<1> DEFINE magic == p.params[1] % 256
<1>1. /\ p.params[1] \in Word /\ p.params[2] \in Word /\ p.params[3] \in Word
  BY DEF ParserState
<1>2. magic \in Byte
  <2>1. PICK n \in Nat : n = p.params[1]
    BY <1>1, WordMod
  <2>2. n % 256 \in Byte
    BY WordMod
  <2> QED
    BY <2>1, <2>2
<1>3. (magic \div Release) % 2 # 1 => magic + mod \in Byte
  <2> HIDE DEF magic
  <2>1. CASE magic >= 224
    <3>1. magic \div 32 = 7 /\ 7 % 2 = 1
      BY <1>2, <2>1 DEF Byte
    <3> QED
      BY <3>1 DEF Release
  <2>2. CASE magic < 224
    BY <1>2, <2>2 DEF Byte, Release
  <2> QED
    BY <1>2, <2>1, <2>2 DEF Byte
<1>4. parse_mouse(p, mod) = [x |-> p.params[2], y |-> p.params[3],
         mods |-> IF (magic \div Release) % 2 = 1 THEN magic ELSE magic + mod]
  BY DEF parse_mouse
<1> HIDE DEF magic
<1>5. (IF (magic \div Release) % 2 = 1 THEN magic ELSE magic + mod) \in Byte
  BY <1>2, <1>3
<1> QED
  BY <1>1, <1>4, <1>5 DEF Event

LEMMA YieldTyped ==
    ASSUME NEW p \in ParserState, NEW e \in Event
    PROVE  Yield(p, e) \in ParserState
<1>1. Append(p.out, e) \in Seq(Event)
  BY AppendProperties DEF ParserState
<1>2. NoParams \in [1..4 -> Word]
  BY WordMod DEF NoParams, Byte
<1>3. Yield(p, e) = [state |-> "first", params |-> NoParams, current |-> 1,
                     out |-> Append(p.out, e)]
  <2> DEFINE out == Append(p.out, e)
  <2>1. Yield(p, e) = [FirstState EXCEPT !.out = out]
    BY DEF Yield
  <2> HIDE DEF out
  <2>2. [FirstState EXCEPT !.out = out] =
            [state |-> "first", params |-> NoParams, current |-> 1, out |-> out]
    BY DEF FirstState
  <2> QED
    BY <2>1, <2>2 DEF out
<1> QED
  BY <1>1, <1>2, <1>3 DEF ParserState

LEMMA FirstTyped == FirstState \in ParserState
<1>1. NoParams \in [1..4 -> Word]
  BY WordMod DEF NoParams, Byte
<1> QED
  BY <1>1, EmptySeq DEF FirstState, ParserState

LEMMA CheckedTyped ==
    ASSUME NEW p \in ParserState, NEW holds, NEW e \in Event
    PROVE  Checked(p, holds, e) \in ParserState
<1>1. [p EXCEPT !.state = "asserts"] \in ParserState
  BY DEF ParserState
<1> QED
  BY <1>1, YieldTyped DEF Checked

LEMMA SequenceTyped ==
    ASSUME NEW p \in ParserState, NEW c \in Byte
    PROVE  ParseSequence(p, c) \in ParserState
<1>1. CASE c \in Digit
  <2>1. c - 48 \in Word /\ p.current \in 1..4
    <3>1. c - 48 \in Byte
      BY <1>1 DEF Digit, Byte
    <3> QED
      BY <3>1, WordMod DEF ParserState
  <2>2. [p EXCEPT !.state = "number", !.params[p.current] = c - 48] \in ParserState
    BY <2>1 DEF ParserState
  <2> QED
    BY <1>1, <2>2 DEF ParseSequence, Digit, Arrow
<1>2. CASE c = 60
  BY <1>2 DEF ParseSequence, Digit, Arrow, ParserState
<1>3. CASE c \in Arrow
  <2>1. parse_function_key(c, 0) \in Event
    <3>1. 0 \in Word
      BY WordMod DEF Byte
    <3> QED
      BY <3>1, FunctionKeyTyped
  <2> QED
    BY <1>3, <2>1, YieldTyped DEF ParseSequence, Digit, Arrow
<1>4. CASE c \notin Digit /\ c # 60 /\ c \notin Arrow
  BY <1>4 DEF ParseSequence, ParserState
<1> QED
  BY <1>1, <1>2, <1>3, <1>4

LEMMA NumberTyped ==
    ASSUME NEW p \in ParserState, NEW c \in Byte
    PROVE  ParseNumber(p, c) \in ParserState
<1>0. p.current \in 1..4 /\ \A i \in 1..4 : p.params[i] \in Word
  BY DEF ParserState
<1>1. CASE c \in Digit
  <2>1. ((p.params[p.current] * 10 + c) - 48) % U16 \in Word
    <3>1. (p.params[p.current] * 10 + c) - 48 \in Int
      <4>1. p.params[p.current] \in Nat /\ c \in Nat
        BY <1>0, WordMod
      <4> QED
        BY <4>1
    <3> QED
      BY <3>1, WordMod
  <2>2. [p EXCEPT !.params[p.current] = ((@ * 10 + c) - 48) % U16] \in ParserState
    BY <1>0, <2>1 DEF ParserState
  <2> QED
    BY <1>1, <2>2 DEF ParseNumber, Digit, Arrow, SEMICOLON
<1>2. CASE c = SEMICOLON
  BY <1>0, <1>2 DEF ParseNumber, Digit, Arrow, SEMICOLON, ParserState
<1>3. CASE c = 109
  BY <1>3, MouseTyped, CheckedTyped DEF ParseNumber, Digit, Arrow, SEMICOLON
<1>4. CASE c = 77
  BY <1>4, MouseTyped, CheckedTyped DEF ParseNumber, Digit, Arrow, SEMICOLON
<1>5. CASE c \in Arrow
  <2>1. parse_function_key(c, p.params[2]) \in Event
    BY <1>0, FunctionKeyTyped
  <2> QED
    BY <1>5, <2>1, CheckedTyped DEF ParseNumber, Digit, Arrow, SEMICOLON
<1>6. CASE c \notin Digit /\ c # SEMICOLON /\ c # 109 /\ c # 77 /\ c \notin Arrow
  BY <1>6 DEF ParseNumber, ParserState
<1> QED
  BY <1>1, <1>2, <1>3, <1>4, <1>5, <1>6

\* So ParseStep and ReplyStep are functions on their states.
LEMMA ParseTyped ==
    ASSUME NEW p \in ParserState, NEW c \in Byte
    PROVE  ParseByte(p, c) \in ParserState
<1>1. CASE p.state = "first" /\ c = ESC
  BY <1>1 DEF ParseByte, ParserState
<1>2. CASE p.state = "first" /\ c # ESC
  BY <1>2, YieldTyped, CharacterTyped DEF ParseByte
<1>3. CASE p.state = "control" /\ c = BRACKET
  BY <1>3 DEF ParseByte, ParserState
<1>4. CASE p.state = "control" /\ c # BRACKET
  BY <1>4, YieldTyped, CharacterTyped DEF ParseByte
<1>5. CASE p.state = "sequence"
  BY <1>5, SequenceTyped DEF ParseByte
<1>6. CASE p.state = "number"
  BY <1>6, NumberTyped DEF ParseByte
<1>7. CASE p.state \notin {"first", "control", "sequence", "number"}
  BY <1>7 DEF ParseByte
<1> QED
  BY <1>1, <1>2, <1>3, <1>4, <1>5, <1>6, <1>7

LEMMA ReplyTyped ==
    ASSUME NEW q \in CursorState, NEW c \in Byte
    PROVE  ReplyByte(q, c) \in CursorState
<1>1. ASSUME NEW f \in {"row", "col"}, NEW stop, NEW next \in {"semicolon", "end"}
      PROVE  InReply(q, f, c, stop, next) \in CursorState
  <2>1. CASE c \in Digit
    <3>1. /\ ((q.row * 10 + c) - 48) % U16 \in Word
          /\ ((q.col * 10 + c) - 48) % U16 \in Word
      <4>1. q.row \in Word /\ q.col \in Word
        BY DEF CursorState
      <4> QED
        <5>1. (q.row * 10 + c) - 48 \in Int /\ (q.col * 10 + c) - 48 \in Int
          <6>1. q.row \in Nat /\ q.col \in Nat /\ c \in Nat
            BY <4>1, WordMod
          <6> QED
            BY <6>1
        <5> QED
          BY <5>1, WordMod
    <3>2. CASE f = "row"
      BY <2>1, <3>1, <3>2 DEF InReply, CursorState
    <3>3. CASE f = "col"
      BY <2>1, <3>1, <3>3 DEF InReply, CursorState
    <3> QED
      BY <3>2, <3>3
  <2>2. CASE c \notin Digit
    BY <2>2 DEF InReply, CursorState
  <2> QED
    BY <2>1, <2>2
<1>2. CASE q.state = "start" /\ c = ESC
  BY <1>2 DEF ReplyByte, CursorState
<1>3. CASE q.state = "esc"
  BY <1>3 DEF ReplyByte, CursorState
<1>4. CASE q.state = "bracket"
  BY <1>1, <1>4 DEF ReplyByte
<1>5. CASE q.state = "semicolon"
  BY <1>1, <1>5 DEF ReplyByte
<1>6. CASE ~(q.state = "start" /\ c = ESC) /\ q.state \notin {"esc", "bracket", "semicolon"}
  BY <1>6 DEF ReplyByte
<1> QED
  BY <1>2, <1>3, <1>4, <1>5, <1>6

-----------------------------------------------------------------------------
(* The three folds of the model are the last results of their step         *)
(* functions.  It is one argument, given three times: a lemma cannot be    *)
(* instantiated for an operator.                                           *)
DigitStep == [x \in Int \X Byte |-> WithDigit(x[1], x[2])]

LEMMA DigitTyped ==
    ASSUME NEW n \in Int, NEW c \in Byte
    PROVE  WithDigit(n, c) \in Int
BY DEF WithDigit, Byte

LEMMA DecimalFold ==
    ASSUME NEW p \in Int, NEW s \in Seq(Byte)
    PROVE  /\ Fits(Int, Byte, DigitStep, p, s)
           /\ FoldLeft(WithDigit, p, s) = Steps(DigitStep, p, s)
<1>1. Fits(Int, Byte, DigitStep, p, s)
  BY DigitTyped DEF Fits, DigitStep
<1>2. Len(s) \in Nat /\ DOMAIN s = 1..Len(s) /\ \A k \in 1..Len(s) : s[k] \in Byte
  BY LenProperties
<1> DEFINE Value(f, t) == IF t = {} THEN p ELSE WithDigit(f[t \ {Max(t)}], s[Max(t)])
           Def(f) == f = [t \in SUBSET DOMAIN s |-> Value(f, t)]
           h == CHOOSE f : Def(f)
<1>3. FoldLeft(WithDigit, p, s) = h[DOMAIN s]
  BY DEF FoldLeft, MapThenFoldSet
<1>4. PICK g \in [SUBSET (1..Len(s)) -> Int] : IsFold(g, DigitStep, p, s, Len(s))
  BY <1>1, FoldExists DEF Fits
<1>5. ASSUME NEW t \in SUBSET (1..Len(s)) PROVE g[t] = Value(g, t)
  <2>1. CASE t # {}
    <3>1. Max(t) \in t
      BY <1>2, <2>1, MaxOfSubset
    <3>2. s[Max(t)] \in Byte /\ g[t \ {Max(t)}] \in Int
      BY <1>2, <3>1
    <3>3. g[t] = DigitStep[<<g[t \ {Max(t)}], s[Max(t)]>>]
      BY <1>4, <2>1 DEF IsFold, FoldValue
    <3> QED
      BY <2>1, <3>2, <3>3 DEF DigitStep
  <2>2. CASE t = {}
    BY <1>4, <2>2 DEF IsFold, FoldValue
  <2> QED
    BY <2>1, <2>2
<1>6. Def(h)
  <2>1. Def(g)
    <3> HIDE DEF Value
    <3> QED
      BY <1>2, <1>5
  <2> HIDE DEF Def
  <2> QED
    BY <2>1
<1>7. \A t \in SUBSET (1..Len(s)) : h[t] = Value(h, t)
  <2> HIDE DEF h, Value
  <2> QED
    BY <1>2, <1>6
<1> HIDE DEF h
<1>8. h[{}] = p
  BY <1>7
<1>9. ASSUME NEW t \in SUBSET (1..Len(s)), t # {}, h[t \ {Max(t)}] \in Int
      PROVE  h[t] = DigitStep[<<h[t \ {Max(t)}], s[Max(t)]>>]
  <2>1. s[Max(t)] \in Byte
    BY <1>2, <1>9, MaxOfSubset
  <2> QED
    BY <1>7, <1>9, <2>1 DEF DigitStep
<1>10. h[1..Len(s)] = Steps(DigitStep, p, s)
  <2>1. FoldsLike(Int, DigitStep, p, s, h)
    BY <1>8, <1>9 DEF FoldsLike
  <2> QED
    BY <1>1, <2>1, FoldIsSteps
<1> QED
  BY <1>1, <1>2, <1>3, <1>10

LEMMA ParseFold ==
    ASSUME NEW p \in ParserState, NEW s \in Seq(Byte)
    PROVE  /\ Fits(ParserState, Byte, ParseStep, p, s)
           /\ FoldLeft(ParseByte, p, s) = Steps(ParseStep, p, s)
<1>1. Fits(ParserState, Byte, ParseStep, p, s)
  BY ParseTyped DEF Fits, ParseStep
<1>2. Len(s) \in Nat /\ DOMAIN s = 1..Len(s) /\ \A k \in 1..Len(s) : s[k] \in Byte
  BY LenProperties
<1> DEFINE Value(f, t) == IF t = {} THEN p ELSE ParseByte(f[t \ {Max(t)}], s[Max(t)])
           Def(f) == f = [t \in SUBSET DOMAIN s |-> Value(f, t)]
           h == CHOOSE f : Def(f)
<1>3. FoldLeft(ParseByte, p, s) = h[DOMAIN s]
  BY DEF FoldLeft, MapThenFoldSet
<1>4. PICK g \in [SUBSET (1..Len(s)) -> ParserState] : IsFold(g, ParseStep, p, s, Len(s))
  BY <1>1, FoldExists DEF Fits
<1>5. ASSUME NEW t \in SUBSET (1..Len(s)) PROVE g[t] = Value(g, t)
  <2>1. CASE t # {}
    <3>1. Max(t) \in t
      BY <1>2, <2>1, MaxOfSubset
    <3>2. s[Max(t)] \in Byte /\ g[t \ {Max(t)}] \in ParserState
      BY <1>2, <3>1
    <3>3. g[t] = ParseStep[<<g[t \ {Max(t)}], s[Max(t)]>>]
      BY <1>4, <2>1 DEF IsFold, FoldValue
    <3> QED
      BY <2>1, <3>2, <3>3 DEF ParseStep
  <2>2. CASE t = {}
    BY <1>4, <2>2 DEF IsFold, FoldValue
  <2> QED
    BY <2>1, <2>2
<1>6. Def(h)
  <2>1. Def(g)
    <3> HIDE DEF Value
    <3> QED
      BY <1>2, <1>5
  <2> HIDE DEF Def
  <2> QED
    BY <2>1
<1>7. \A t \in SUBSET (1..Len(s)) : h[t] = Value(h, t)
  <2> HIDE DEF h, Value
  <2> QED
    BY <1>2, <1>6
<1> HIDE DEF h
<1>8. h[{}] = p
  BY <1>7
<1>9. ASSUME NEW t \in SUBSET (1..Len(s)), t # {}, h[t \ {Max(t)}] \in ParserState
      PROVE  h[t] = ParseStep[<<h[t \ {Max(t)}], s[Max(t)]>>]
  <2>1. s[Max(t)] \in Byte
    BY <1>2, <1>9, MaxOfSubset
  <2> QED
    BY <1>7, <1>9, <2>1 DEF ParseStep
<1>10. h[1..Len(s)] = Steps(ParseStep, p, s)
  <2>1. FoldsLike(ParserState, ParseStep, p, s, h)
    BY <1>8, <1>9 DEF FoldsLike
  <2> QED
    BY <1>1, <2>1, FoldIsSteps
<1> QED
  BY <1>1, <1>2, <1>3, <1>10

LEMMA ReplyFold ==
    ASSUME NEW p \in CursorState, NEW s \in Seq(Byte)
    PROVE  /\ Fits(CursorState, Byte, ReplyStep, p, s)
           /\ FoldLeft(ReplyByte, p, s) = Steps(ReplyStep, p, s)
<1>1. Fits(CursorState, Byte, ReplyStep, p, s)
  BY ReplyTyped DEF Fits, ReplyStep
<1>2. Len(s) \in Nat /\ DOMAIN s = 1..Len(s) /\ \A k \in 1..Len(s) : s[k] \in Byte
  BY LenProperties
<1> DEFINE Value(f, t) == IF t = {} THEN p ELSE ReplyByte(f[t \ {Max(t)}], s[Max(t)])
           Def(f) == f = [t \in SUBSET DOMAIN s |-> Value(f, t)]
           h == CHOOSE f : Def(f)
<1>3. FoldLeft(ReplyByte, p, s) = h[DOMAIN s]
  BY DEF FoldLeft, MapThenFoldSet
<1>4. PICK g \in [SUBSET (1..Len(s)) -> CursorState] : IsFold(g, ReplyStep, p, s, Len(s))
  BY <1>1, FoldExists DEF Fits
<1>5. ASSUME NEW t \in SUBSET (1..Len(s)) PROVE g[t] = Value(g, t)
  <2>1. CASE t # {}
    <3>1. Max(t) \in t
      BY <1>2, <2>1, MaxOfSubset
    <3>2. s[Max(t)] \in Byte /\ g[t \ {Max(t)}] \in CursorState
      BY <1>2, <3>1
    <3>3. g[t] = ReplyStep[<<g[t \ {Max(t)}], s[Max(t)]>>]
      BY <1>4, <2>1 DEF IsFold, FoldValue
    <3> QED
      BY <2>1, <3>2, <3>3 DEF ReplyStep
  <2>2. CASE t = {}
    BY <1>4, <2>2 DEF IsFold, FoldValue
  <2> QED
    BY <2>1, <2>2
<1>6. Def(h)
  <2>1. Def(g)
    <3> HIDE DEF Value
    <3> QED
      BY <1>2, <1>5
  <2> HIDE DEF Def
  <2> QED
    BY <2>1
<1>7. \A t \in SUBSET (1..Len(s)) : h[t] = Value(h, t)
  <2> HIDE DEF h, Value
  <2> QED
    BY <1>2, <1>6
<1> HIDE DEF h
<1>8. h[{}] = p
  BY <1>7
<1>9. ASSUME NEW t \in SUBSET (1..Len(s)), t # {}, h[t \ {Max(t)}] \in CursorState
      PROVE  h[t] = ReplyStep[<<h[t \ {Max(t)}], s[Max(t)]>>]
  <2>1. s[Max(t)] \in Byte
    BY <1>2, <1>9, MaxOfSubset
  <2> QED
    BY <1>7, <1>9, <2>1 DEF ReplyStep
<1>10. h[1..Len(s)] = Steps(ReplyStep, p, s)
  <2>1. FoldsLike(CursorState, ReplyStep, p, s, h)
    BY <1>8, <1>9 DEF FoldsLike
  <2> QED
    BY <1>1, <2>1, FoldIsSteps
<1> QED
  BY <1>1, <1>2, <1>3, <1>10

-----------------------------------------------------------------------------
(* What is typed: keys follow each other whole, up to the cut at the start.*)
Sent   == Key \cup {Reply}
Tagged == [c : Byte, key : Sent, at : Nat]

Ends(b) == b.at = Len(b.key.bytes)

Joined(s) == \A i \in 1..Len(s) :
    /\ s[i].at \in 1..Len(s[i].key.bytes) /\ s[i].c = s[i].key.bytes[s[i].at]
    /\ i < Len(s) => IF Ends(s[i]) THEN s[i + 1].at = 1
                     ELSE s[i + 1].key = s[i].key /\ s[i + 1].at = s[i].at + 1
Ended(s)  == Len(s) > 0 => Ends(s[Len(s)])
Starts(s) == Len(s) > 0 => s[1].at = 1

LEMMA SentBytes ==
    ASSUME NEW k \in Sent
    PROVE  /\ k.bytes \in Seq(Byte) /\ Len(k.bytes) \in Nat /\ Len(k.bytes) > 0
           /\ \A i \in 1..Len(k.bytes) : k.bytes[i] \in Byte
<1>1. k.bytes \in Seq(Byte) /\ k.bytes # << >>
  BY KeyAssumption DEF Sent, Byte
<1> QED
  BY <1>1, EmptySeq, LenProperties

LEMMA BytesWhole ==
    ASSUME NEW k \in Sent
    PROVE  /\ Bytes(k) \in Seq(Tagged) /\ Len(Bytes(k)) = Len(k.bytes)
           /\ \A i \in 1..Len(k.bytes) : Bytes(k)[i] = [c |-> k.bytes[i], key |-> k, at |-> i]
           /\ Joined(Bytes(k)) /\ Ended(Bytes(k)) /\ Starts(Bytes(k))
<1> DEFINE n == Len(k.bytes)
           s == Bytes(k)
<1>1. n \in Nat /\ n > 0 /\ \A i \in 1..n : k.bytes[i] \in Byte
  BY SentBytes
<1>2. \A i \in 1..n : s[i] = [c |-> k.bytes[i], key |-> k, at |-> i]
  BY DEF Bytes
<1>3. s \in Seq(Tagged) /\ Len(s) = n
  <2>1. \A i \in 1..n : [c |-> k.bytes[i], key |-> k, at |-> i] \in Tagged
    BY <1>1 DEF Tagged
  <2> HIDE DEF n
  <2>2. s = [i \in 1..n |-> [c |-> k.bytes[i], key |-> k, at |-> i]]
    BY DEF Bytes, n
  <2> QED
    BY <1>1, <2>1, <2>2
<1>0. n = Len(k.bytes) /\ \A i \in 1..n : s[i].c = k.bytes[i] /\ s[i].key = k /\ s[i].at = i
  BY DEF Bytes
<1> HIDE DEF n, s
<1>4. ASSUME NEW i \in 1..n
      PROVE  s[i].c = k.bytes[i] /\ s[i].key = k /\ s[i].at = i /\ (Ends(s[i]) <=> i = n)
  BY <1>0 DEF Ends
<1>5. Joined(s)
  <2> SUFFICES ASSUME NEW i \in 1..n
      PROVE  /\ s[i].at \in 1..Len(s[i].key.bytes) /\ s[i].c = s[i].key.bytes[s[i].at]
             /\ i < n => IF Ends(s[i]) THEN s[i + 1].at = 1
                     ELSE s[i + 1].key = s[i].key /\ s[i + 1].at = s[i].at + 1
    BY <1>3 DEF Joined
  <2>1. i < n => i + 1 \in 1..n /\ i # n
    BY <1>1
  <2> QED
    BY <1>0, <1>4, <2>1
<1>6. Ended(s) /\ Starts(s)
  <2>1. 1 \in 1..n /\ n \in 1..n
    BY <1>1
  <2> QED
    BY <1>3, <1>4, <2>1 DEF Ended, Starts
<1> QED
  BY <1>2, <1>3, <1>5, <1>6 DEF n, s

\* Whole keys after whole keys, and parts of them.
LEMMA JoinedConcat ==
    ASSUME NEW s \in Seq(Tagged), NEW t \in Seq(Tagged),
           Joined(s), Ended(s), Joined(t), Starts(t)
    PROVE  /\ s \o t \in Seq(Tagged) /\ Len(s \o t) = Len(s) + Len(t)
           /\ Joined(s \o t)
           /\ Ended(t) => Ended(s \o t)
           /\ Starts(s) => Starts(s \o t)
<1> DEFINE v == s \o t
           m == Len(s)
           n == Len(t)
<1>1. m \in Nat /\ n \in Nat
  BY LenProperties
<1>2. /\ v \in Seq(Tagged) /\ Len(v) = m + n
      /\ \A i \in 1..(m + n) : v[i] = IF i <= m THEN s[i] ELSE t[i - m]
  BY ConcatProperties
<1>3. \A i \in 1..m : v[i] = s[i]
  <2> HIDE DEF v, m, n
  <2> QED
    BY <1>1, <1>2
<1>4. ASSUME NEW i \in (m + 1)..(m + n) PROVE v[i] = t[i - m] /\ i - m \in 1..n
  <2> HIDE DEF v, m, n
  <2> QED
    BY <1>1, <1>2
<1>0. m = Len(s) /\ n = Len(t)
  OBVIOUS
<1> HIDE DEF v, m, n
<1>5. ASSUME NEW i \in 1..Len(v)
      PROVE  /\ v[i].at \in 1..Len(v[i].key.bytes) /\ v[i].c = v[i].key.bytes[v[i].at]
             /\ i < Len(v) => IF Ends(v[i]) THEN v[i + 1].at = 1
                     ELSE v[i + 1].key = v[i].key /\ v[i + 1].at = v[i].at + 1
  <2>0. i \in 1..(m + n)
    BY <1>2
  <2>1. CASE i < m
    <3>1. i \in 1..m /\ i + 1 \in 1..m
      BY <1>1, <2>0, <2>1
    <3> QED
      BY <1>0, <1>3, <2>1, <3>1 DEF Joined
  <2>2. CASE i = m
    <3>1. i \in 1..m /\ m > 0
      BY <1>1, <1>2, <2>2
    <3>2. Ends(v[i])
      BY <1>0, <1>3, <2>2, <3>1 DEF Ended
    <3>3. i < Len(v) => v[i + 1].at = 1
      <4>1. i < Len(v) => v[i + 1] = t[1] /\ n > 0
        <5>1. i < Len(v) => i + 1 \in (m + 1)..(m + n) /\ (i + 1) - m = 1 /\ n > 0
          BY <1>1, <1>2, <2>2
        <5> QED
          BY <1>4, <5>1
      <4> QED
        BY <1>0, <4>1 DEF Starts
    <3> QED
      BY <1>0, <1>3, <3>1, <3>2, <3>3 DEF Joined
  <2>3. CASE i > m
    <3>1. PICK j \in 1..n : i = j + m
      <4>1. i - m \in 1..n /\ i = (i - m) + m
        BY <1>1, <1>2, <2>3
      <4> QED
        BY <4>1
    <3>2. v[i] = t[j]
      <4>1. i \in (m + 1)..(m + n) /\ i - m = j
        BY <1>1, <3>1
      <4> QED
        BY <1>4, <4>1
    <3>3. i < Len(v) => j < n /\ v[i + 1] = t[j + 1]
      <4>1. i < Len(v) => j < n /\ i + 1 \in (m + 1)..(m + n) /\ (i + 1) - m = j + 1
        BY <1>1, <1>2, <3>1
      <4> QED
        BY <1>4, <4>1
    <3> QED
      BY <1>0, <3>1, <3>2, <3>3 DEF Joined
  <2> QED
    BY <1>1, <1>2, <2>1, <2>2, <2>3
<1>6. Ended(t) => Ended(v)
  <2> SUFFICES ASSUME Ended(t), Len(v) > 0 PROVE Ends(v[Len(v)])
    BY DEF Ended
  <2>1. CASE n > 0
    <3>1. Len(v) \in (m + 1)..(m + n) /\ Len(v) - m = n
      BY <1>1, <1>2, <2>1
    <3>2. v[Len(v)] = t[n]
      BY <1>4, <3>1
    <3> QED
      BY <1>0, <2>1, <3>2 DEF Ended
  <2>2. CASE n = 0
    <3>1. Len(v) = m /\ m \in 1..m
      BY <1>1, <1>2, <2>2
    <3> QED
      BY <1>0, <1>1, <1>3, <3>1 DEF Ended
  <2> QED
    BY <1>1, <2>1, <2>2
<1>7. Starts(s) => Starts(v)
  <2> SUFFICES ASSUME Starts(s), Len(v) > 0 PROVE v[1].at = 1
    BY DEF Starts
  <2>1. CASE m > 0
    <3>1. 1 \in 1..m
      BY <1>1, <2>1
    <3> QED
      BY <1>0, <1>3, <2>1, <3>1 DEF Starts
  <2>2. CASE m = 0
    <3>1. 1 \in (m + 1)..(m + n) /\ 1 - m = 1 /\ n > 0
      BY <1>1, <1>2, <2>2
    <3>2. v[1] = t[1]
      BY <1>4, <3>1
    <3> QED
      BY <1>0, <3>1, <3>2 DEF Starts
  <2> QED
    BY <1>1, <2>1, <2>2
<1>8. Joined(v)
  BY <1>5 DEF Joined
<1> QED
  BY <1>0, <1>2, <1>6, <1>7, <1>8 DEF v

LEMMA JoinedPart ==
    ASSUME NEW s \in Seq(Tagged), NEW m \in 1..(Len(s) + 1), NEW n \in (m - 1)..Len(s)
    PROVE  /\ SubSeq(s, m, n) \in Seq(Tagged) /\ Len(SubSeq(s, m, n)) = n + 1 - m
           /\ \A i \in 1..(n + 1 - m) : SubSeq(s, m, n)[i] = s[i + m - 1]
           /\ Joined(s) => Joined(SubSeq(s, m, n))
           /\ Ended(s) /\ n = Len(s) => Ended(SubSeq(s, m, n))
<1> DEFINE u == SubSeq(s, m, n)
<1>1. Len(s) \in Nat /\ m \in Nat /\ n \in Nat /\ m > 0 /\ n <= Len(s) /\ m <= n + 1
      /\ \A i \in 1..Len(s) : s[i] \in Tagged
  BY LenProperties
<1>2. /\ u \in Seq(Tagged) /\ Len(u) = n + 1 - m
      /\ \A i \in 1..(n + 1 - m) : u[i] = s[i + m - 1]
  BY <1>1
<1> HIDE DEF u
<1>3. ASSUME Joined(s) PROVE Joined(u)
  <2> SUFFICES ASSUME NEW i \in 1..Len(u)
      PROVE  /\ u[i].at \in 1..Len(u[i].key.bytes) /\ u[i].c = u[i].key.bytes[u[i].at]
             /\ i < Len(u) => IF Ends(u[i]) THEN u[i + 1].at = 1
                     ELSE u[i + 1].key = u[i].key /\ u[i + 1].at = u[i].at + 1
    BY DEF Joined
  <2> DEFINE j == i + m - 1
  <2>1. j \in 1..Len(s) /\ u[i] = s[j]
    BY <1>1, <1>2
  <2>2. i < Len(u) => j < Len(s) /\ u[i + 1] = s[j + 1]
    <3>1. i < Len(u) => j < Len(s) /\ i + 1 \in 1..(n + 1 - m) /\ (i + 1) + m - 1 = j + 1
      BY <1>1, <1>2
    <3> HIDE DEF j
    <3> QED
      BY <1>2, <3>1
  <2> HIDE DEF j
  <2> QED
    BY <1>3, <2>1, <2>2 DEF Joined
<1>4. ASSUME Ended(s), n = Len(s), Len(u) > 0 PROVE Ends(u[Len(u)])
  <2>1. Len(u) \in 1..(n + 1 - m) /\ Len(u) + m - 1 = n /\ Len(s) > 0
    BY <1>1, <1>2, <1>4
  <2>2. u[Len(u)] = s[Len(s)]
    BY <1>2, <1>4, <2>1
  <2> QED
    BY <1>4, <2>1, <2>2 DEF Ended
<1> QED
  BY <1>2, <1>3, <1>4 DEF Ended, u

\* At the start every key is there as a whole.
LEMMA TypedWhole ==
    ASSUME NEW s \in Typed
    PROVE  /\ s \in Seq(Tagged) /\ Joined(s) /\ Ended(s)
           /\ \A i \in 1..Len(s) : s[i].key \in Key
<1>1. PICK ks \in SeqOf(Key, MaxKeys) : s = FlattenSeq([i \in DOMAIN ks |-> Bytes(ks[i])])
  BY DEF Typed
<1>0. PICK n \in Nat : ks \in [1..n -> Key]
  BY KeyAssumption DEF SeqOf
<1> DEFINE ss == [i \in 1..n |-> Bytes(ks[i])]
           Good(x) == /\ x \in Seq(Tagged) /\ Joined(x) /\ Ended(x) /\ Starts(x)
                      /\ \A i \in 1..Len(x) : x[i].key \in Key
<1>2. n \in Nat /\ \A i \in 1..n : ks[i] \in Key
  BY <1>0
<1>3. ASSUME NEW i \in 1..n PROVE Good(Bytes(ks[i]))
  <2>1. ks[i] \in Key /\ ks[i] \in Sent
    BY <1>2 DEF Sent
  <2>2. PICK k \in Key : k = ks[i] /\ k \in Sent
    BY <2>1
  <2>3. \A j \in 1..Len(k.bytes) : Bytes(k)[j].key = k
    BY DEF Bytes
  <2>4. /\ Bytes(k) \in Seq(Tagged) /\ Len(Bytes(k)) = Len(k.bytes)
        /\ Joined(Bytes(k)) /\ Ended(Bytes(k)) /\ Starts(Bytes(k))
    BY <2>2, BytesWhole
  <2>5. Good(Bytes(k))
    BY <2>3, <2>4
  <2> QED
    BY <2>2, <2>5
<1>4. ss \in Seq(Seq(Tagged)) /\ Len(ss) = n /\ \A i \in 1..n : Good(ss[i])
  <2>1. \A i \in 1..n : Bytes(ks[i]) \in Seq(Tagged)
    BY <1>3
  <2>2. \A i \in 1..n : ss[i] = Bytes(ks[i])
    OBVIOUS
  <2> HIDE DEF Good
  <2> QED
    BY <1>2, <1>3, <2>1, <2>2
<1> HIDE DEF ss
<1>5. Fits(Seq(Tagged), Seq(Tagged), Joins(Tagged), << >>, ss)
  BY <1>4, JoinsFits
<1>6. PICK F \in [0..Len(ss) -> Seq(Tagged)] : IsRun(F, Joins(Tagged), << >>, ss)
  BY <1>5, RunExists
<1> DEFINE S == {k \in Nat : k <= n => Good(F[k])}
<1>7. 0 \in S
  <2>1. Good(<< >>)
    BY EmptySeq DEF Joined, Ended, Starts
  <2>2. F[0] = << >>
    BY <1>6 DEF IsRun
  <2> HIDE DEF Good
  <2> QED
    BY <2>1, <2>2
<1>8. ASSUME NEW k \in Nat, Good(F[k]), k + 1 <= n PROVE Good(F[k + 1])
  <2>1. k + 1 \in 1..n /\ (k + 1) - 1 = k /\ k <= n
    <3> HIDE DEF Good
    <3> QED
      BY <1>0, <1>8
  <2>2. PICK x : x = F[k] /\ Good(x)
    <3> HIDE DEF Good
    <3> QED
      BY <1>8
  <2>3. PICK y : y = ss[k + 1] /\ Good(y)
    <3> HIDE DEF Good
    <3> QED
      BY <1>4, <2>1
  <2>4. F[k + 1] = x \o y
    <3>1. F[k + 1] = Joins(Tagged)[<<x, y>>]
      BY <1>4, <1>6, <2>1, <2>2, <2>3 DEF IsRun
    <3> QED
      BY <2>2, <2>3, <3>1 DEF Joins
  <2>5. /\ x \o y \in Seq(Tagged) /\ Len(x \o y) = Len(x) + Len(y)
        /\ Joined(x \o y) /\ Ended(x \o y) /\ Starts(x \o y)
    BY <2>2, <2>3, JoinedConcat
  <2>6. ASSUME NEW i \in 1..Len(x \o y) PROVE (x \o y)[i].key \in Key
    <3>1. Len(x) \in Nat /\ Len(y) \in Nat
      BY <2>2, <2>3, LenProperties
    <3>2. i \in 1..Len(x) + Len(y)
      BY <2>5
    <3>3. (x \o y)[i] = IF i <= Len(x) THEN x[i] ELSE y[i - Len(x)]
      BY <2>2, <2>3, <3>2, ConcatProperties
    <3>4. CASE i <= Len(x)
      BY <2>2, <3>1, <3>2, <3>3, <3>4
    <3>5. CASE ~(i <= Len(x))
      <4>1. i - Len(x) \in 1..Len(y)
        BY <3>1, <3>2, <3>5
      <4> QED
        BY <2>3, <3>3, <3>5, <4>1
    <3> QED
      BY <3>4, <3>5
  <2>7. Good(x \o y)
    BY <2>5, <2>6
  <2> HIDE DEF Good
  <2> QED
    BY <2>4, <2>7
<1>9. n \in S
  <2>1. \A k \in Nat : k \in S => k + 1 \in S
    <3> HIDE DEF Good
    <3> QED
      BY <1>0, <1>8
  <2> HIDE DEF S
  <2> QED
    BY <1>0, <1>7, <2>1, SetInduction
<1>10. s = F[n]
  <2>1. s = FlattenSeq(ss)
    BY <1>0, <1>1 DEF ss
  <2>2. FlattenSeq(ss) = F[Len(ss)]
    BY <1>4, <1>6, FlattenRun
  <2> QED
    BY <1>4, <2>1, <2>2
<1>11. Good(s)
  <2> HIDE DEF Good
  <2> QED
    BY <1>2, <1>9, <1>10
<1> QED
  BY <1>11

-----------------------------------------------------------------------------
(* cursor_position() reads the reply, alone, as the position that it says. *)
Found == [state |-> "end", row |-> Reply.position.row, col |-> Reply.position.col]

LEMMA DigitMod ==
    ASSUME NEW a \in Int, NEW c \in Byte
    PROVE  (((a % U16) * 10 + c) - 48) % U16 = WithDigit(a, c) % U16
<1>1. \A n \in Int : ((((n % 65536) * 10 + c) - 48) % 65536) = ((n * 10 + (c - 48)) % 65536)
  BY SMT DEF Byte
<1> QED
  BY SMT, <1>1 DEF U16, WithDigit

\* The value of the digits read so far, of which it keeps 16 bits.
LEMMA DecimalRun ==
    ASSUME NEW ds \in Seq(Byte)
    PROVE  \E D \in [0..Len(ds) -> Int] :
               /\ D[0] = 0 /\ D[Len(ds)] = Decimal(ds)
               /\ \A k \in 1..Len(ds) : D[k] = WithDigit(D[k - 1], ds[k])
<1>1. Fits(Int, Byte, DigitStep, 0, ds) /\ Decimal(ds) = Steps(DigitStep, 0, ds)
  BY DecimalFold DEF Decimal
<1>2. PICK D \in [0..Len(ds) -> Int] : IsRun(D, DigitStep, 0, ds)
  BY <1>1, RunExists
<1>3. D[Len(ds)] = Decimal(ds)
  BY <1>1, <1>2, StepsOfRun
<1>4. ASSUME NEW k \in 1..Len(ds) PROVE D[k] = WithDigit(D[k - 1], ds[k])
  <2>1. Len(ds) \in Nat /\ ds[k] \in Byte
    BY LenProperties
  <2>2. k - 1 \in 0..Len(ds)
    BY <2>1
  <2>3. D[k - 1] \in Int /\ D[k] = DigitStep[<<D[k - 1], ds[k]>>]
    BY <1>2, <2>2 DEF IsRun
  <2> QED
    BY <2>1, <2>3 DEF DigitStep
<1> QED
  BY <1>2, <1>3, <1>4 DEF IsRun

\* Along digits, the loop adds to the field that it is in.
LEMMA RowRun ==
    ASSUME NEW s \in Seq(Byte), NEW m \in 0..Len(s), NEW n \in m..Len(s),
           NEW F, Fits(CursorState, Byte, ReplyStep, NoReply, s), IsRun(F, ReplyStep, NoReply, s),
           NEW r \in Int, NEW f \in {"row", "col"},
           F[m] = IF f = "row" THEN [state |-> "bracket", row |-> 0, col |-> 0]
                               ELSE [state |-> "semicolon", row |-> r, col |-> 0],
           \A j \in (m + 1)..n : s[j] \in Digit
    PROVE  F[n] = IF f = "row"
                  THEN [state |-> "bracket", row |-> Decimal(SubSeq(s, m + 1, n)) % U16, col |-> 0]
                  ELSE [state |-> "semicolon", row |-> r,
                        col |-> Decimal(SubSeq(s, m + 1, n)) % U16]
<1> DEFINE ds == SubSeq(s, m + 1, n)
           At(v) == IF f = "row" THEN [state |-> "bracket", row |-> v, col |-> 0]
                                 ELSE [state |-> "semicolon", row |-> r, col |-> v]
<1>1. Len(s) \in Nat /\ m \in Nat /\ n \in Nat /\ m <= n /\ n <= Len(s)
      /\ \A j \in 1..Len(s) : s[j] \in Byte
  BY LenProperties
<1>2. ds \in Seq(Byte) /\ Len(ds) = n - m /\ \A j \in 1..(n - m) : ds[j] = s[j + m]
  BY <1>1
<1> HIDE DEF ds
<1>3. PICK D \in [0..(n - m) -> Int] :
               /\ D[0] = 0 /\ D[n - m] = Decimal(ds)
               /\ \A k \in 1..(n - m) : D[k] = WithDigit(D[k - 1], ds[k])
  <2>1. PICK p \in Nat : p = Len(ds) /\ p = n - m
    BY <1>1, <1>2
  <2>2. \E D \in [0..p -> Int] :
               /\ D[0] = 0 /\ D[p] = Decimal(ds)
               /\ \A k \in 1..p : D[k] = WithDigit(D[k - 1], ds[k])
    <3>1. \E D \in [0..Len(ds) -> Int] :
               /\ D[0] = 0 /\ D[Len(ds)] = Decimal(ds)
               /\ \A k \in 1..Len(ds) : D[k] = WithDigit(D[k - 1], ds[k])
      BY <1>2, DecimalRun
    <3> QED
      BY <2>1, <3>1
  <2> QED
    BY <2>1, <2>2
<1> DEFINE Holds(k) == F[k + m] = At(D[k] % U16)
           S == {k \in Nat : k <= n - m => Holds(k)}
<1>4. 0 \in S
  <2>1. D[0] % U16 = 0
    <3>1. 0 % U16 = 0
      BY SMT DEF U16
    <3> QED
      BY <1>3, <3>1
  <2>2. F[0 + m] = F[m] /\ F[m] = At(0)
    BY <1>1
  <2>3. Holds(0)
    <3> HIDE DEF At
    <3> QED
      BY <2>1, <2>2
  <2> HIDE DEF Holds
  <2> QED
    BY <2>3
<1>5. ASSUME NEW k \in Nat, Holds(k), k + 1 <= n - m
      PROVE  Holds(k + 1)
  <2> DEFINE v == D[k] % U16
             c == s[(k + 1) + m]
  <2>1. /\ k + 1 \in 1..(n - m) /\ (k + 1) - 1 = k /\ k \in 0..(n - m)
        /\ (k + 1) + m \in 1..Len(s) /\ ((k + 1) + m) - 1 = k + m
        /\ (k + 1) + m \in (m + 1)..n
    BY <1>1, <1>5
  <2>2. D[k] \in Int /\ c \in Byte /\ c \in Digit
    BY <1>1, <1>3, <2>1
  <2>3. v \in Word
    BY <2>2, WordMod
  <2>4. ((v * 10 + c) - 48) % U16 = D[k + 1] % U16
    <3>1. D[k + 1] = WithDigit(D[k], c)
      BY <1>2, <1>3, <2>1
    <3> QED
      BY <2>2, <3>1, DigitMod
  <2>5. F[k + m] = At(v) /\ F[k + m] \in CursorState
    BY <1>1, <1>5, <2>1, RunUnique
  <2>6. F[(k + 1) + m] = ReplyByte(At(v), c)
    <3>1. F[(k + 1) + m] = ReplyStep[<<F[k + m], c>>]
      BY <2>1 DEF IsRun
    <3> HIDE DEF At, v, c
    <3> QED
      BY <2>2, <2>5, <3>1 DEF ReplyStep
  <2> HIDE DEF v, c
  <2>7. ReplyByte(At(v), c) = At(((v * 10 + c) - 48) % U16)
    <3> DEFINE q == At(v)
               w == ((v * 10 + c) - 48) % U16
    <3>1. c \in Digit /\ c # SEMICOLON /\ c # 82
      BY <2>2, DigitOnly
    <3>2. CASE f = "row"
      <4>1. q = [state |-> "bracket", row |-> v, col |-> 0]
        BY <3>2
      <4>2. InReply(q, "row", c, SEMICOLON, "semicolon") = [q EXCEPT !["row"] = w]
        <5>1. q["row"] = v
          BY <4>1
        <5> HIDE DEF q
        <5> QED
          BY <3>1, <5>1 DEF InReply
      <4> HIDE DEF w
      <4>3. [q EXCEPT !["row"] = w] = At(w)
        BY <3>2, <4>1
      <4>4. q.state = "bracket"
        BY <4>1
      <4> HIDE DEF q, At
      <4> QED
        BY <4>2, <4>3, <4>4 DEF ReplyByte, q, w
    <3>3. CASE f = "col"
      <4>1. q = [state |-> "semicolon", row |-> r, col |-> v]
        BY <3>3
      <4>2. InReply(q, "col", c, 82, "end") = [q EXCEPT !["col"] = w]
        <5>1. q["col"] = v
          BY <4>1
        <5> HIDE DEF q
        <5> QED
          BY <3>1, <5>1 DEF InReply
      <4> HIDE DEF w
      <4>3. [q EXCEPT !["col"] = w] = At(w)
        BY <3>3, <4>1
      <4>4. q.state = "semicolon"
        BY <4>1
      <4> HIDE DEF q, At
      <4> QED
        BY <4>2, <4>3, <4>4 DEF ReplyByte, q, w
    <3> QED
      BY <3>2, <3>3
  <2> HIDE DEF At
  <2> QED
    BY <2>4, <2>6, <2>7
<1>6. n - m \in S
  <2>1. \A k \in Nat : k \in S => k + 1 \in S
    <3> HIDE DEF Holds
    <3> QED
      BY <1>1, <1>5
  <2>2. \A k \in Nat : k \in S
    <3> HIDE DEF S
    <3> QED
      BY <1>4, <2>1, SetInduction
  <2>3. n - m \in Nat
    BY <1>1
  <2> HIDE DEF S
  <2> QED
    BY <2>2, <2>3
<1>7. F[n] = At(Decimal(ds) % U16)
  <2>1. (n - m) + m = n /\ n - m <= n - m /\ n - m \in Nat
    BY <1>1
  <2>2. F[(n - m) + m] = At(D[n - m] % U16)
    <3>1. Holds(n - m)
      <4> HIDE DEF Holds
      <4> QED
        BY <1>6, <2>1
    <3> QED
      BY <3>1
  <2> HIDE DEF At
  <2> QED
    BY <1>3, <2>1, <2>2
<1> QED
  BY <1>7 DEF ds

\* The loop ends with the last byte of the reply, at its position.
LEMMA ReplyRun ==
    \E F : IsRun(F, ReplyStep, NoReply, Reply.bytes) /\ F[Len(Reply.bytes)] = Found
<1> DEFINE b == Reply.bytes
           n == Len(b)
           row == Reply.position.row
           col == Reply.position.col
<1>1. PICK i \in 3..n - 1 :
            /\ b[1] = ESC /\ b[2] = BRACKET /\ b[i] = SEMICOLON /\ b[n] = 82
            /\ \A j \in 3..n - 1 : j = i \/ b[j] \in Digit
            /\ Reply.position = [row |-> Decimal(SubSeq(b, 3, i - 1)),
                                 col |-> Decimal(SubSeq(b, i + 1, n - 1))]
            /\ Reply.position \in [row : 0..U16 - 1, col : 0..U16 - 1]
  BY ReplyAssumption
<1>2. b \in Seq(Byte) /\ n \in Nat /\ \A j \in 1..n : b[j] \in Byte
  BY SentBytes DEF Sent
<1>3. /\ row \in Word /\ row % U16 = row /\ row = Decimal(SubSeq(b, 3, i - 1))
      /\ col \in Word /\ col % U16 = col /\ col = Decimal(SubSeq(b, i + 1, n - 1))
  <2>1. row \in Word /\ col \in Word
    BY <1>1 DEF Word
  <2>2. ASSUME NEW v \in Word PROVE v % U16 = v
    <3>1. U16 \in Nat /\ U16 > 0
      BY DEF U16
    <3> QED
      BY <3>1, Remainder DEF Word
  <2>3. row = Decimal(SubSeq(b, 3, i - 1)) /\ col = Decimal(SubSeq(b, i + 1, n - 1))
    BY <1>1
  <2> HIDE DEF row, col
  <2> QED
    BY <2>1, <2>2, <2>3
<1> HIDE DEF b, n, row, col
<1>4. NoReply \in CursorState /\ NoReply = [state |-> "start", row |-> 0, col |-> 0]
  BY WordMod DEF NoReply, CursorState, Byte
<1>5. Fits(CursorState, Byte, ReplyStep, NoReply, b)
  BY <1>2, <1>4, ReplyFold
<1>6. PICK F \in [0..Len(b) -> CursorState] : IsRun(F, ReplyStep, NoReply, b)
  BY <1>5, RunExists
<1>7. n = Len(b)
  BY DEF n
<1>8. ASSUME NEW k \in 1..n PROVE F[k] = ReplyByte(F[k - 1], b[k])
  <2>1. k - 1 \in 0..Len(b) /\ k \in 1..Len(b)
    BY <1>2, <1>7
  <2>2. F[k - 1] \in CursorState /\ F[k] = ReplyStep[<<F[k - 1], b[k]>>]
    BY <1>6, <2>1 DEF IsRun
  <2> QED
    BY <1>2, <2>2 DEF ReplyStep
<1>9. F[2] = [state |-> "bracket", row |-> 0, col |-> 0]
  <2>1. 1 \in 1..n /\ 2 \in 1..n /\ 1 - 1 = 0 /\ 2 - 1 = 1
    BY <1>1, <1>2
  <2>2. F[0] = NoReply
    BY <1>6 DEF IsRun
  <2>3. F[1] = ReplyByte(NoReply, ESC)
    BY <1>1, <1>8, <2>1, <2>2
  <2>4. F[1] = [state |-> "esc", row |-> 0, col |-> 0]
    BY <1>4, <2>3 DEF ReplyByte
  <2>5. F[2] = ReplyByte(F[1], BRACKET)
    BY <1>1, <1>8, <2>1
  <2> QED
    BY <2>4, <2>5 DEF ReplyByte, ESC
<1>10. F[i - 1] = [state |-> "bracket", row |-> row, col |-> 0]
  <2>1. /\ 2 \in 0..Len(b) /\ i - 1 \in 2..Len(b) /\ 2 + 1 = 3
        /\ \A j \in (2 + 1)..(i - 1) : b[j] \in Digit
    BY <1>1, <1>2, <1>7
  <2>2. "row" \in {"row", "col"} /\ 0 \in Int
    OBVIOUS
  <2>3. F[i - 1] = [state |-> "bracket", row |-> Decimal(SubSeq(b, 2 + 1, i - 1)) % U16, col |-> 0]
    BY <1>2, <1>5, <1>6, <1>9, <2>1, <2>2, RowRun
  <2> QED
    BY <1>3, <2>1, <2>3
<1>11. F[i] = [state |-> "semicolon", row |-> row, col |-> 0]
  <2>1. F[i] = ReplyByte(F[i - 1], SEMICOLON)
    <3>1. i \in 1..n
      BY <1>1, <1>2
    <3> QED
      BY <1>1, <1>8, <3>1
  <2> QED
    BY <1>10, <2>1 DEF ReplyByte, InReply, Digit, SEMICOLON
<1>12. F[n - 1] = [state |-> "semicolon", row |-> row, col |-> col]
  <2>1. /\ i \in 0..Len(b) /\ n - 1 \in i..Len(b)
        /\ \A j \in (i + 1)..(n - 1) : b[j] \in Digit
    BY <1>1, <1>2, <1>7
  <2>2. "col" \in {"row", "col"} /\ row \in Int
    BY <1>3, WordMod
  <2>3. F[n - 1] = [state |-> "semicolon", row |-> row,
                    col |-> Decimal(SubSeq(b, i + 1, n - 1)) % U16]
    BY <1>2, <1>5, <1>6, <1>11, <2>1, <2>2, RowRun
  <2> QED
    BY <1>3, <2>3
<1>13. F[n] = [state |-> "end", row |-> row, col |-> col]
  <2>1. n \in 1..n
    BY <1>1, <1>2
  <2>2. F[n] = ReplyByte(F[n - 1], 82)
    BY <1>1, <1>8, <2>1
  <2> QED
    BY <1>12, <2>2 DEF ReplyByte, InReply, Digit, SEMICOLON
<1> QED
  BY <1>6, <1>7, <1>13 DEF b, row, col, Found

-----------------------------------------------------------------------------
(* The codes of the bytes.                                                 *)
LEMMA CodesTyped ==
    ASSUME NEW s \in Seq(Tagged)
    PROVE  /\ Codes(s) \in Seq(Byte) /\ Len(Codes(s)) = Len(s)
           /\ \A i \in 1..Len(s) : Codes(s)[i] = s[i].c /\ s[i].c \in Byte /\ s[i].key \in Sent
<1>1. Len(s) \in Nat /\ DOMAIN s = 1..Len(s) /\ \A i \in 1..Len(s) : s[i] \in Tagged
  BY LenProperties
<1>2. \A i \in 1..Len(s) : s[i].c \in Byte /\ s[i].key \in Sent
  BY <1>1 DEF Tagged
<1>3. Codes(s) = [i \in 1..Len(s) |-> s[i].c]
  BY <1>1 DEF Codes
<1> QED
  BY <1>1, <1>2, <1>3

LEMMA CodesPart ==
    ASSUME NEW s \in Seq(Tagged), NEW n \in 0..Len(s)
    PROVE  /\ Codes(SubSeq(s, 1, n)) = SubSeq(Codes(s), 1, n)
           /\ Codes(SubSeq(s, n + 1, Len(s))) = SubSeq(Codes(s), n + 1, Len(Codes(s)))
<1> DEFINE c == Codes(s)
           u == SubSeq(s, 1, n)
           v == SubSeq(s, n + 1, Len(s))
<1>1. /\ c \in Seq(Byte) /\ Len(c) = Len(s) /\ Len(s) \in Nat
      /\ \A i \in 1..Len(s) : c[i] = s[i].c /\ c[i] \in Byte
  BY CodesTyped, LenProperties
<1>2. /\ u \in Seq(Tagged) /\ Len(u) = n /\ \A i \in 1..n : u[i] = s[i]
      /\ v \in Seq(Tagged) /\ Len(v) = Len(s) - n
      /\ \A i \in 1..(Len(s) - n) : v[i] = s[i + n]
  <2>1. \A i \in 1..Len(s) : s[i] \in Tagged
    BY LenProperties
  <2> QED
    BY <1>1, <2>1
<1> HIDE DEF c, u, v
<1>3. /\ Codes(u) \in Seq(Byte) /\ Len(Codes(u)) = n /\ \A i \in 1..n : Codes(u)[i] = s[i].c
      /\ Codes(v) \in Seq(Byte) /\ Len(Codes(v)) = Len(s) - n
      /\ \A i \in 1..(Len(s) - n) : Codes(v)[i] = s[i + n].c
  BY <1>2, CodesTyped
<1>4. /\ SubSeq(c, 1, n) \in Seq(Byte) /\ Len(SubSeq(c, 1, n)) = n
      /\ \A i \in 1..n : SubSeq(c, 1, n)[i] = s[i].c
      /\ SubSeq(c, n + 1, Len(c)) \in Seq(Byte) /\ Len(SubSeq(c, n + 1, Len(c))) = Len(s) - n
      /\ \A i \in 1..(Len(s) - n) : SubSeq(c, n + 1, Len(c))[i] = s[i + n].c
  BY <1>1
<1>5. Codes(u) = SubSeq(c, 1, n)
  BY <1>3, <1>4, SeqEqual
<1>6. Codes(v) = SubSeq(c, n + 1, Len(c))
  BY <1>3, <1>4, SeqEqual
<1> QED
  BY <1>5, <1>6 DEF c, u, v

LEMMA CodesConcat ==
    ASSUME NEW s \in Seq(Tagged), NEW t \in Seq(Tagged)
    PROVE  Codes(s \o t) = Codes(s) \o Codes(t)
<1> DEFINE v == s \o t
           w == Codes(s) \o Codes(t)
<1>1. Len(s) \in Nat /\ Len(t) \in Nat
  BY LenProperties
<1>2. /\ v \in Seq(Tagged) /\ Len(v) = Len(s) + Len(t)
      /\ \A i \in 1..(Len(s) + Len(t)) : v[i] = IF i <= Len(s) THEN s[i] ELSE t[i - Len(s)]
  BY ConcatProperties
<1>3. /\ Codes(s) \in Seq(Byte) /\ Len(Codes(s)) = Len(s) /\ \A i \in 1..Len(s) : Codes(s)[i] = s[i].c
      /\ Codes(t) \in Seq(Byte) /\ Len(Codes(t)) = Len(t) /\ \A i \in 1..Len(t) : Codes(t)[i] = t[i].c
  BY CodesTyped
<1>4. /\ w \in Seq(Byte) /\ Len(w) = Len(s) + Len(t)
      /\ \A i \in 1..(Len(s) + Len(t)) :
             w[i] = IF i <= Len(s) THEN Codes(s)[i] ELSE Codes(t)[i - Len(s)]
  <2>1. /\ w \in Seq(Byte) /\ Len(w) = Len(Codes(s)) + Len(Codes(t))
        /\ \A i \in 1..(Len(Codes(s)) + Len(Codes(t))) :
             w[i] = IF i <= Len(Codes(s)) THEN Codes(s)[i] ELSE Codes(t)[i - Len(Codes(s))]
    <3>1. Codes(s) \in Seq(Byte) /\ Codes(t) \in Seq(Byte)
      BY <1>3
    <3> QED
      BY <3>1, ConcatProperties
  <2>2. Len(Codes(s)) = Len(s) /\ Len(Codes(t)) = Len(t)
    BY <1>3
  <2> HIDE DEF w
  <2> QED
    BY <2>1, <2>2
<1> HIDE DEF v, w
<1>5. Codes(v) \in Seq(Byte) /\ Len(Codes(v)) = Len(v) /\ \A i \in 1..Len(v) : Codes(v)[i] = v[i].c
  BY <1>2, CodesTyped
<1>6. \A i \in 1..Len(w) : Codes(v)[i] = w[i]
  <2> SUFFICES ASSUME NEW i \in 1..(Len(s) + Len(t)) PROVE v[i].c = w[i]
    BY <1>2, <1>4, <1>5
  <2>1. CASE i <= Len(s)
    BY <1>1, <1>2, <1>3, <1>4, <2>1
  <2>2. CASE ~(i <= Len(s))
    <3>1. i - Len(s) \in 1..Len(t)
      BY <1>1, <2>2
    <3> QED
      BY <1>2, <1>3, <1>4, <2>2, <3>1
  <2> QED
    BY <2>1, <2>2
<1>7. Codes(v) = w
  BY <1>2, <1>4, <1>5, <1>6, SeqEqual
<1> QED
  BY <1>7 DEF v, w

LEMMA CodesBytes ==
    ASSUME NEW k \in Sent
    PROVE  Codes(Bytes(k)) = k.bytes
<1>1. Bytes(k) \in Seq(Tagged) /\ Len(Bytes(k)) = Len(k.bytes)
  BY BytesWhole
<1>2. \A i \in 1..Len(k.bytes) : Bytes(k)[i].c = k.bytes[i]
  BY DEF Bytes
<1>3. /\ Codes(Bytes(k)) \in Seq(Byte) /\ Len(Codes(Bytes(k))) = Len(Bytes(k))
      /\ \A i \in 1..Len(Bytes(k)) : Codes(Bytes(k))[i] = Bytes(k)[i].c
  BY <1>1, CodesTyped
<1>4. k.bytes \in Seq(Byte)
  BY SentBytes
<1> QED
  BY <1>1, <1>2, <1>3, <1>4, SeqEqual

-----------------------------------------------------------------------------
(* The invariant of the input.                                             *)
InputOK == input \in Seq(Tagged) /\ Joined(input) /\ Ended(input)

StreamTyped ==
    /\ program \in {"idle", "resumed", "asking"}
    /\ stream \in {"event_stream", "input_stream"}
    /\ gen \in {"live", "throws", "asserts", "done"}
    /\ gen = "done" => events = << >>
    /\ events \in Seq(Event) /\ value \in Event /\ reply \in CursorState
    /\ toAsk \in 0..MaxAsks /\ clean \in BOOLEAN /\ warned \in BOOLEAN

\* cursor_position() goes on while it has neither found the reply nor given up.
Asking == program = "asking" => reply.state \notin {"end", "invalid"}

\* Unless something breaks into the call, the reply is in what it will read.
ReplyAhead == program = "asking" /\ clean =>
    \E F : IsRun(F, ReplyStep, reply, Codes(input)) /\ \E k \in 0..Len(input) : F[k] = Found

StreamInv == InputOK /\ StreamTyped /\ Asking /\ ReplyAhead

LEMMA NoEventTyped == NoEvent \in Event
BY DEF NoEvent, Event, Byte

LEMMA NoReplyTyped == NoReply \in CursorState
BY WordMod DEF NoReply, CursorState, Byte

LEMMA ReadBufferTyped ==
    ASSUME NEW buf \in Seq(Tagged)
    PROVE  /\ ReadBuffer(buf).events \in Seq(Event)
           /\ ReadBuffer(buf).gen \in {"live", "throws", "asserts"}
<1>1. /\ Codes(buf) \in Seq(Byte) /\ DOMAIN buf = 1..Len(buf) /\ Len(buf) \in Nat
      /\ \A i \in 1..Len(buf) : buf[i].c \in Byte
  BY CodesTyped, LenProperties
<1>2. CASE stream = "event_stream"
  <2> DEFINE p == FoldLeft(ParseByte, FirstState, Codes(buf))
  <2>1. p \in ParserState
    <3>1. /\ Fits(ParserState, Byte, ParseStep, FirstState, Codes(buf))
          /\ p = Steps(ParseStep, FirstState, Codes(buf))
      BY <1>1, FirstTyped, ParseFold
    <3> HIDE DEF p
    <3> QED
      BY <3>1, StepsTyped
  <2>2. ReadBuffer(buf) =
          [events |-> IF p.state = "sequence" THEN Append(p.out, from_character(BRACKET, Alt))
                                              ELSE p.out,
           gen |-> IF p.state \in {"throws", "asserts"} THEN p.state ELSE "live"]
    BY <1>2 DEF ReadBuffer, ParseBuffer
  <2> HIDE DEF p
  <2>3. p.out \in Seq(Event)
    BY <2>1 DEF ParserState
  <2>4. Append(p.out, from_character(BRACKET, Alt)) \in Seq(Event)
    <3>1. from_character(BRACKET, Alt) \in Event
      BY CharacterTyped DEF Byte, BRACKET
    <3> QED
      BY <2>3, <3>1, AppendProperties
  <2> QED
    BY <2>2, <2>3, <2>4
<1>3. CASE stream # "event_stream"
  <2>1. ReadBuffer(buf) = [events |-> [i \in 1..Len(buf) |-> Character(buf[i].c)], gen |-> "live"]
    BY <1>1, <1>3 DEF ReadBuffer
  <2>2. \A i \in 1..Len(buf) : Character(buf[i].c) \in Event
    BY <1>1, CharacterTyped
  <2>3. [i \in 1..Len(buf) |-> Character(buf[i].c)] \in Seq(Event)
    BY <1>1, <2>2
  <2> QED
    BY <2>1, <2>3
<1> QED
  BY <1>2, <1>3

\* What a read leaves, and what it takes.
LEMMA RestOfInput ==
    ASSUME InputOK, NEW n \in 0..Len(input)
    PROVE  /\ After(input, n) \in Seq(Tagged) /\ Joined(After(input, n)) /\ Ended(After(input, n))
           /\ Len(After(input, n)) = Len(input) - n
           /\ \A i \in 1..(Len(input) - n) : After(input, n)[i] = input[i + n]
<1>1. input \in Seq(Tagged) /\ Joined(input) /\ Ended(input) /\ Len(input) \in Nat
  BY LenProperties DEF InputOK
<1>2. n + 1 \in 1..(Len(input) + 1) /\ Len(input) \in ((n + 1) - 1)..Len(input)
  BY <1>1
<1>3. After(input, n) = SubSeq(input, n + 1, Len(input))
  BY DEF After
<1>4. /\ Len(After(input, n)) = Len(input) + 1 - (n + 1)
      /\ \A i \in 1..(Len(input) + 1 - (n + 1)) : After(input, n)[i] = input[i + (n + 1) - 1]
      /\ After(input, n) \in Seq(Tagged) /\ Joined(After(input, n)) /\ Ended(After(input, n))
  BY <1>1, <1>2, <1>3, JoinedPart
<1>5. Len(input) + 1 - (n + 1) = Len(input) - n /\ \A i \in Int : i + (n + 1) - 1 = i + n
  BY <1>1
<1> QED
  BY <1>4, <1>5

LEMMA StartOfInput ==
    ASSUME InputOK, NEW n \in 0..Len(input)
    PROVE  /\ SubSeq(input, 1, n) \in Seq(Tagged) /\ Joined(SubSeq(input, 1, n))
           /\ Len(SubSeq(input, 1, n)) = n
           /\ \A i \in 1..n : SubSeq(input, 1, n)[i] = input[i]
<1>1. input \in Seq(Tagged) /\ Joined(input) /\ Len(input) \in Nat
  BY LenProperties DEF InputOK
<1>2. 1 \in 1..(Len(input) + 1) /\ n \in (1 - 1)..Len(input)
  BY <1>1
<1>3. /\ SubSeq(input, 1, n) \in Seq(Tagged) /\ Joined(SubSeq(input, 1, n))
      /\ Len(SubSeq(input, 1, n)) = n + 1 - 1
      /\ \A i \in 1..(n + 1 - 1) : SubSeq(input, 1, n)[i] = input[i + 1 - 1]
  BY <1>1, <1>2, JoinedPart
<1>4. n + 1 - 1 = n /\ \A i \in Int : i + 1 - 1 = i
  BY <1>1
<1> QED
  BY <1>3, <1>4

-----------------------------------------------------------------------------
(* Each step keeps the invariant.                                          *)
LEMMA StreamInitOK == StreamInit => StreamInv
<1> SUFFICES ASSUME StreamInit PROVE StreamInv
  OBVIOUS
<1>1. InputOK
  BY TypedWhole DEF StreamInit, InputOK
<1>2. StreamTyped
  BY NoEventTyped, NoReplyTyped, EmptySeq DEF StreamInit, StreamTyped
<1>3. program # "asking"
  BY DEF StreamInit
<1> QED
  BY <1>1, <1>2, <1>3 DEF StreamInv, Asking, ReplyAhead

LEMMA ReadEventsOK ==
    ASSUME StreamInv, ReadEvents
    PROVE  StreamInv'
<1>1. PICK n \in Readable :
          /\ input' = After(input, n)
          /\ events' = ReadBuffer(SubSeq(input, 1, n)).events
          /\ gen' = ReadBuffer(SubSeq(input, 1, n)).gen
          /\ warned' = (warned \/ ~Known(SubSeq(input, 1, n), Key))
  BY DEF ReadEvents
<1>2. /\ program = "resumed" /\ gen = "live"
      /\ UNCHANGED <<program, stream, value, reply, toAsk, clean>>
  BY DEF ReadEvents
<1>3. InputOK /\ StreamTyped
  BY DEF StreamInv
<1>4. n \in 0..Len(input)
  BY <1>3, LenProperties DEF Readable, InputOK
<1>5. InputOK'
  BY <1>1, <1>3, <1>4, RestOfInput DEF InputOK
<1>6. events' \in Seq(Event) /\ gen' \in {"live", "throws", "asserts"}
  BY <1>1, <1>3, <1>4, StartOfInput, ReadBufferTyped
<1>7. warned' \in BOOLEAN
  BY <1>1, <1>3 DEF StreamTyped
<1>8. StreamTyped'
  BY <1>2, <1>3, <1>6, <1>7 DEF StreamTyped
<1> QED
  BY <1>2, <1>5, <1>8 DEF StreamInv, Asking, ReplyAhead

LEMMA FlushOK ==
    ASSUME StreamInv, Flush
    PROVE  StreamInv'
<1>1. PICK n \in 0..Len(input) : input' = After(input, n)
  BY DEF Flush
<1>2. clean' = FALSE /\ UNCHANGED <<program, genVars, reply, toAsk>>
  BY DEF Flush
<1>3. InputOK'
  BY <1>1, RestOfInput DEF StreamInv, InputOK
<1>4. warned' \in BOOLEAN
  BY DEF Flush, StreamInv, StreamTyped
<1>5. StreamTyped'
  BY <1>2, <1>4 DEF StreamInv, StreamTyped, genVars
<1> QED
  BY <1>2, <1>3, <1>5 DEF StreamInv, Asking, ReplyAhead

LEMMA SmallStepOK ==
    ASSUME StreamInv, Resume \/ YieldValue \/ Throws \/ InterruptedRead
    PROVE  StreamInv'
<1>1. InputOK /\ input' = input
  BY DEF StreamInv, Resume, YieldValue, Throws, InterruptedRead
<1>2. InputOK'
  BY <1>1 DEF InputOK
<1>3. StreamTyped /\ program' # "asking"
  BY DEF StreamInv, Resume, YieldValue, Throws, InterruptedRead
<1>4. CASE Resume
  <2>1. StreamTyped'
    BY <1>3, <1>4 DEF StreamTyped, Resume, genVars, cursorVars
  <2> QED
    BY <1>2, <1>3, <2>1 DEF StreamInv, Asking, ReplyAhead
<1>5. CASE YieldValue
  <2>1. Head(events) \in Event /\ Tail(events) \in Seq(Event) /\ gen # "done"
    BY <1>3, <1>5, HeadTailProperties DEF StreamTyped, YieldValue
  <2>2. StreamTyped'
    BY <1>3, <1>5, <2>1 DEF StreamTyped, YieldValue, cursorVars
  <2> QED
    BY <1>2, <1>3, <2>2 DEF StreamInv, Asking, ReplyAhead
<1>6. CASE Throws
  <2>1. StreamTyped'
    BY <1>3, <1>6 DEF StreamTyped, Throws, cursorVars
  <2> QED
    BY <1>2, <1>3, <2>1 DEF StreamInv, Asking, ReplyAhead
<1>7. CASE InterruptedRead
  <2>1. [reply EXCEPT !.state = "invalid"] \in CursorState
    BY <1>3 DEF StreamTyped, CursorState
  <2>2. StreamTyped'
    BY <1>3, <1>7, <2>1 DEF StreamTyped, InterruptedRead, genVars
  <2> QED
    BY <1>2, <1>3, <2>2 DEF StreamInv, Asking, ReplyAhead
<1> QED
  BY <1>4, <1>5, <1>6, <1>7

\* The loop stops at once.
LEMMA Stopped ==
    ASSUME NEW q \in CursorState, q.state \in {"end", "invalid"}, NEW c \in Byte
    PROVE  ReplyStep[<<q, c>>] = q
BY DEF ReplyStep, ReplyByte

LEMMA CursorRun ==
    ASSUME NEW q \in CursorState, NEW s \in Seq(Tagged)
    PROVE  /\ Fits(CursorState, Byte, ReplyStep, q, Codes(s)) /\ Len(Codes(s)) = Len(s)
           /\ \E F \in [0..Len(s) -> CursorState] : IsRun(F, ReplyStep, q, Codes(s))
<1>1. Codes(s) \in Seq(Byte) /\ Len(Codes(s)) = Len(s)
  BY CodesTyped
<1>2. Fits(CursorState, Byte, ReplyStep, q, Codes(s))
  BY <1>1, ReplyFold
<1>3. PICK F \in [0..Len(Codes(s)) -> CursorState] : IsRun(F, ReplyStep, q, Codes(s))
  BY <1>2, RunExists
<1> QED
  BY <1>1, <1>2, <1>3

\* What the loop makes of the bytes of a buffer.
AfterReading(q, s) == FoldLeft(ReplyByte, q, Codes(s))
Later(F, n, m) == [k \in 0..m |-> F[k + n]]

\* Reading n bytes: the state, and the results along the rest.
LEMMA ReadRun ==
    ASSUME NEW q \in CursorState, NEW s \in Seq(Tagged), NEW n \in 0..Len(s),
           NEW F, IsRun(F, ReplyStep, q, Codes(s))
    PROVE  /\ AfterReading(q, SubSeq(s, 1, n)) = F[n] /\ F[n] \in CursorState
           /\ IsRun(Later(F, n, Len(s) - n), ReplyStep, F[n],
                    Codes(SubSeq(s, n + 1, Len(s))))
<1>1. Fits(CursorState, Byte, ReplyStep, q, Codes(s)) /\ Len(Codes(s)) = Len(s)
  BY CursorRun
<1>2. /\ Codes(SubSeq(s, 1, n)) = SubSeq(Codes(s), 1, n)
      /\ Codes(SubSeq(s, n + 1, Len(s))) = SubSeq(Codes(s), n + 1, Len(Codes(s)))
  BY CodesPart
<1>3. n \in 0..Len(Codes(s))
  BY <1>1
<1>4. /\ SubSeq(Codes(s), 1, n) \in Seq(Byte) /\ F[n] \in CursorState
      /\ F[n] = Steps(ReplyStep, q, SubSeq(Codes(s), 1, n))
  BY <1>1, <1>3, RunPrefix
<1>5. AfterReading(q, SubSeq(s, 1, n)) = Steps(ReplyStep, q, SubSeq(Codes(s), 1, n))
  BY <1>2, <1>4, ReplyFold DEF AfterReading
<1>6. IsRun(Later(F, n, Len(Codes(s)) - n), ReplyStep, F[n],
            SubSeq(Codes(s), n + 1, Len(Codes(s))))
  BY <1>1, <1>3, RunRest DEF Later
<1> QED
  BY <1>1, <1>2, <1>4, <1>5, <1>6

\* Once it has stopped it stays as it is.
LEMMA StoppedRun ==
    ASSUME NEW q \in CursorState, NEW s \in Seq(Tagged), NEW n \in 0..Len(s), NEW k \in n..Len(s),
           NEW F, IsRun(F, ReplyStep, q, Codes(s)), F[n].state \in {"end", "invalid"}
    PROVE  F[k] = F[n]
<1>1. Fits(CursorState, Byte, ReplyStep, q, Codes(s)) /\ Len(Codes(s)) = Len(s)
  BY CursorRun
<1>2. \A i \in 1..Len(s) : Codes(s)[i] \in Byte
  BY CodesTyped
<1>3. F[n] \in CursorState
  BY ReadRun
<1>4. \A i \in (n + 1)..Len(Codes(s)) : ReplyStep[<<F[n], Codes(s)[i]>>] = F[n]
  <2>1. \A i \in (n + 1)..Len(Codes(s)) : i \in 1..Len(s)
    BY <1>1, LenProperties
  <2> QED
    BY <1>2, <1>3, <2>1, Stopped
<1>5. n \in 0..Len(Codes(s)) /\ k \in n..Len(Codes(s))
  BY <1>1
<1> QED
  BY <1>1, <1>4, <1>5, RunStays

\* ReadReply keeps the reply ahead, or has found it.
LEMMA ReadReplyOK ==
    ASSUME StreamInv, ReadReply
    PROVE  /\ StreamInv'
           /\ clean' /\ program' = "idle" => reply' = Found
<1>1. PICK n \in Readable :
          /\ reply' = AfterReading(reply, SubSeq(input, 1, n))
          /\ input' = After(input, n)
  BY DEF ReadReply, AfterReading
<1>2. /\ program = "asking"
      /\ program' = IF reply'.state \in {"end", "invalid"} THEN "idle" ELSE program
      /\ warned' = (warned \/ reply'.state = "invalid")
      /\ UNCHANGED <<genVars, toAsk, clean>>
  BY DEF ReadReply
<1>3. InputOK /\ StreamTyped /\ reply \in CursorState /\ input \in Seq(Tagged) /\ Len(input) \in Nat
  BY LenProperties DEF StreamInv, StreamTyped, InputOK
<1>4. n \in 0..Len(input)
  BY <1>3 DEF Readable
<1>5. InputOK'
  BY <1>1, <1>3, <1>4, RestOfInput DEF InputOK
<1>6. reply' \in CursorState
  <2>1. PICK F \in [0..Len(input) -> CursorState] : IsRun(F, ReplyStep, reply, Codes(input))
    BY <1>3, CursorRun
  <2> QED
    BY <1>1, <1>3, <1>4, <2>1, ReadRun
<1>7. StreamTyped'
  BY <1>2, <1>3, <1>6 DEF StreamTyped, genVars
<1>8. Asking'
  BY <1>2 DEF Asking
<1>9. ASSUME clean'
      PROVE  /\ program' = "idle" => reply' = Found
             /\ ReplyAhead'
  <2>1. clean
    BY <1>2, <1>9
  <2>2. PICK F : IsRun(F, ReplyStep, reply, Codes(input)) /\ \E k \in 0..Len(input) : F[k] = Found
    BY <1>2, <2>1 DEF StreamInv, ReplyAhead
  <2>3. PICK k \in 0..Len(input) : F[k] = Found
    BY <2>2
  <2> DEFINE G == [j \in 0..(Len(input) - n) |-> F[j + n]]
  <2>4. F[n] = reply' /\ IsRun(G, ReplyStep, reply', Codes(input'))
    <3> HIDE DEF G
    <3>1. AfterReading(reply, SubSeq(input, 1, n)) = F[n]
      BY <1>3, <1>4, <2>2, ReadRun
    <3>2. IsRun(Later(F, n, Len(input) - n), ReplyStep, F[n],
                Codes(SubSeq(input, n + 1, Len(input))))
      BY <1>3, <1>4, <2>2, ReadRun
    <3>3. F[n] = reply'
      BY <1>1, <3>1
    <3>4. input' = SubSeq(input, n + 1, Len(input))
      BY <1>1 DEF After
    <3>5. IsRun(G, ReplyStep, F[n], Codes(SubSeq(input, n + 1, Len(input))))
      BY <3>2 DEF G, Later
    <3> QED
      BY <3>3, <3>4, <3>5
  <2>5. Found.state = "end"
    BY DEF Found
  <2>6. CASE k <= n
    <3>1. n \in k..Len(input)
      BY <1>4, <2>6
    <3>2. F[n] = F[k]
      BY <1>3, <2>2, <2>3, <2>5, <3>1, StoppedRun
    <3>3. reply' = Found /\ program' = "idle"
      BY <1>2, <2>3, <2>4, <2>5, <3>2
    <3> QED
      BY <3>3 DEF ReplyAhead
  <2>7. CASE ~(k <= n)
    <3>1. k \in n..Len(input) /\ k - n \in 0..(Len(input) - n) /\ (k - n) + n = k
      BY <1>3, <1>4, <2>7
    <3>2. reply'.state \in {"end", "invalid"} => reply' = Found
      BY <1>3, <1>4, <2>2, <2>3, <2>4, <3>1, StoppedRun
    <3>3. G[k - n] = Found
      BY <2>3, <3>1
    <3>4. Len(input') = Len(input) - n
      BY <1>1, <1>3, <1>4, RestOfInput
    <3> HIDE DEF G
    <3>5. \E j \in 0..Len(input') : G[j] = Found
      BY <3>1, <3>3, <3>4
    <3>6. ReplyAhead'
      BY <2>4, <3>5 DEF ReplyAhead
    <3> QED
      BY <1>2, <3>2, <3>6
  <2> QED
    BY <1>3, <1>4, <2>6, <2>7
<1>10. ReplyAhead'
  BY <1>9 DEF ReplyAhead
<1> QED
  BY <1>5, <1>7, <1>8, <1>9, <1>10 DEF StreamInv

\* Plain characters before the reply leave the loop where it starts.
LEMMA AskOK ==
    ASSUME StreamInv, Ask
    PROVE  StreamInv'
<1>1. PICK n \in Between(input) :
          /\ input' = SubSeq(input, 1, n) \o Bytes(Reply) \o After(input, n)
          /\ clean' = \A i \in 1..n : input[i].c # ESC
  BY DEF Ask
<1>2. /\ program' = "asking" /\ reply' = NoReply /\ toAsk > 0 /\ toAsk' = toAsk - 1
      /\ UNCHANGED <<genVars, warned>>
  BY DEF Ask
<1>3. InputOK /\ StreamTyped /\ input \in Seq(Tagged) /\ Len(input) \in Nat /\ Joined(input)
  BY LenProperties DEF StreamInv, InputOK
<1>4. n \in 0..Len(input) /\ (n = Len(input) \/ input[n + 1].at = 1)
  BY DEF Between
<1> DEFINE pre  == SubSeq(input, 1, n)
           mid  == Bytes(Reply)
           post == After(input, n)
<1>5. /\ pre \in Seq(Tagged) /\ Joined(pre) /\ Len(pre) = n
      /\ \A i \in 1..n : pre[i] = input[i]
  BY <1>3, <1>4, StartOfInput
<1>6. /\ post \in Seq(Tagged) /\ Joined(post) /\ Ended(post) /\ Len(post) = Len(input) - n
      /\ \A i \in 1..(Len(input) - n) : post[i] = input[i + n]
  BY <1>3, <1>4, RestOfInput
<1>7. Ended(pre)
  <2>1. CASE n = Len(input)
    BY <1>3, <1>5, <2>1 DEF InputOK, Ended
  <2>2. CASE n # Len(input) /\ n # 0
    <3>1. n \in 1..Len(input) /\ n < Len(input) /\ input[n + 1].at = 1
      BY <1>3, <1>4, <2>2
    <3>2. /\ input[n].at \in 1..Len(input[n].key.bytes)
          /\ IF Ends(input[n]) THEN input[n + 1].at = 1
                               ELSE input[n + 1].at = input[n].at + 1
      BY <1>3, <3>1 DEF Joined
    <3>3. Ends(input[n])
      BY <3>1, <3>2
    <3>4. pre[Len(pre)] = input[n]
      BY <1>5, <3>1
    <3> QED
      BY <3>3, <3>4 DEF Ended
  <2>3. CASE n = 0
    BY <1>5, <2>3 DEF Ended
  <2> QED
    BY <2>1, <2>2, <2>3
<1>8. Starts(post)
  <2>1. CASE n = Len(input)
    BY <1>3, <1>6, <2>1 DEF Starts
  <2>2. CASE n # Len(input)
    <3>1. 1 \in 1..(Len(input) - n) /\ 1 + n = n + 1
      BY <1>3, <1>4, <2>2
    <3>2. post[1] = input[n + 1] /\ input[n + 1].at = 1
      BY <1>4, <1>6, <2>2, <3>1
    <3> QED
      BY <3>2 DEF Starts
  <2> QED
    BY <2>1, <2>2
<1>9. Reply \in Sent
  BY DEF Sent
<1>10. mid \in Seq(Tagged) /\ Joined(mid) /\ Ended(mid) /\ Starts(mid) /\ Len(mid) = Len(Reply.bytes)
  BY <1>9, BytesWhole
<1> HIDE DEF pre, mid, post
<1>11. /\ pre \o mid \in Seq(Tagged) /\ Joined(pre \o mid) /\ Ended(pre \o mid)
       /\ Len(pre \o mid) = n + Len(mid)
  BY <1>5, <1>7, <1>10, JoinedConcat
<1>12. /\ pre \o mid \o post \in Seq(Tagged) /\ Joined(pre \o mid \o post)
       /\ Ended(pre \o mid \o post) /\ Len(pre \o mid \o post) = n + Len(mid) + Len(post)
  BY <1>6, <1>8, <1>11, JoinedConcat
<1>13. input' = pre \o mid \o post
  BY <1>1 DEF pre, mid, post
<1>14. InputOK'
  BY <1>12, <1>13 DEF InputOK
<1>15. toAsk' \in 0..MaxAsks
  BY <1>2, <1>3, KeyAssumption DEF StreamTyped
<1>16. StreamTyped'
  BY <1>1, <1>2, <1>3, <1>15, NoReplyTyped DEF StreamTyped, genVars
<1>17. Asking'
  BY <1>2 DEF Asking, NoReply
<1>18. ASSUME clean' PROVE ReplyAhead'
  <2>1. /\ Fits(CursorState, Byte, ReplyStep, NoReply, Codes(pre)) /\ Len(Codes(pre)) = n
        /\ Len(Codes(mid)) = Len(mid) /\ Codes(mid) = Reply.bytes
        /\ Codes(mid) \in Seq(Byte) /\ Codes(post) \in Seq(Byte)
    <3>1. Codes(mid) = Reply.bytes
      BY <1>9, CodesBytes DEF mid
    <3> QED
      BY <1>5, <1>6, <1>10, <3>1, CodesTyped, CursorRun, NoReplyTyped
  <2>2. PICK F \in [0..n -> CursorState] : IsRun(F, ReplyStep, NoReply, Codes(pre))
    BY <1>5, CursorRun, NoReplyTyped
  <2>3. F[0] = NoReply
    BY <2>2 DEF IsRun
  <2>4. \A i \in (0 + 1)..Len(Codes(pre)) : ReplyStep[<<F[0], Codes(pre)[i]>>] = F[0]
    <3>1. \A i \in (0 + 1)..Len(Codes(pre)) : i \in 1..n
      BY <2>1
    <3> SUFFICES ASSUME NEW i \in 1..n PROVE ReplyStep[<<NoReply, Codes(pre)[i]>>] = NoReply
      BY <2>3, <3>1
    <3>2. Codes(pre)[i] = input[i].c /\ Codes(pre)[i] \in Byte
      BY <1>5, CodesTyped
    <3>3. Codes(pre)[i] # ESC
      BY <1>1, <1>18, <3>2
    <3> QED
      BY <3>2, <3>3, NoReplyTyped DEF ReplyStep, ReplyByte, NoReply
  <2>5. F[Len(Codes(pre))] = NoReply
    <3>1. 0 \in 0..Len(Codes(pre)) /\ Len(Codes(pre)) \in 0..Len(Codes(pre))
      BY <1>4, <2>1
    <3>2. \A k \in 0..Len(Codes(pre)) : F[k] = F[0]
      BY <2>1, <2>2, <2>4, <3>1, RunStays
    <3> QED
      BY <2>3, <3>1, <3>2
  <2>6. PICK G : IsRun(G, ReplyStep, NoReply, Codes(mid)) /\ G[Len(mid)] = Found
    BY <1>10, <2>1, ReplyRun
  <2> DEFINE H == Then(F, Len(Codes(pre)), G)
             s == Codes(pre) \o Codes(mid)
  <2>7. /\ Fits(CursorState, Byte, ReplyStep, NoReply, s) /\ Len(s) = n + Len(mid)
        /\ IsRun(H, ReplyStep, NoReply, s)
        /\ \A k \in 0..Len(Codes(mid)) : H[k + Len(Codes(pre))] = G[k]
    <3>1. IsRun(G, ReplyStep, F[Len(Codes(pre))], Codes(mid))
      BY <2>5, <2>6
    <3>2. /\ Fits(CursorState, Byte, ReplyStep, NoReply, s)
          /\ Len(s) = Len(Codes(pre)) + Len(Codes(mid))
          /\ IsRun(H, ReplyStep, NoReply, s)
          /\ \A k \in 0..Len(Codes(mid)) : H[k + Len(Codes(pre))] = G[k]
      BY <2>1, <2>2, <3>1, RunThen
    <3> HIDE DEF H, s
    <3> QED
      BY <2>1, <3>2
  <2> HIDE DEF H, s
  <2>8. H[n + Len(mid)] = Found
    <3>1. Len(mid) \in 0..Len(Codes(mid)) /\ Len(mid) + Len(Codes(pre)) = n + Len(mid)
      BY <1>4, <1>10, <2>1, LenProperties
    <3> QED
      BY <2>6, <2>7, <3>1
  <2>9. H[Len(s)] = Found
    BY <2>7, <2>8
  <2>10. Found \in CursorState
    <3>1. Len(s) \in Nat
      BY <2>7, LenProperties DEF Fits
    <3>2. Len(s) \in 0..Len(s)
      BY <3>1
    <3> QED
      BY <2>7, <2>9, <3>2, RunPrefix
  <2>11. PICK J \in [0..Len(post) -> CursorState] : IsRun(J, ReplyStep, Found, Codes(post))
    BY <1>6, <2>10, CursorRun
  <2> DEFINE K == Then(H, Len(s), J)
  <2>12. /\ IsRun(K, ReplyStep, NoReply, s \o Codes(post))
         /\ \A k \in 0..Len(Codes(post)) : K[k + Len(s)] = J[k]
    <3>1. IsRun(J, ReplyStep, H[Len(s)], Codes(post))
      BY <2>9, <2>11
    <3>2. Codes(post) \in Seq(Byte)
      BY <2>1
    <3>3. Fits(CursorState, Byte, ReplyStep, NoReply, s) /\ IsRun(H, ReplyStep, NoReply, s)
      BY <2>7
    <3> QED
      BY <3>1, <3>2, <3>3, RunThen
  <2> HIDE DEF K
  <2>13. Codes(input') = s \o Codes(post)
    BY <1>5, <1>6, <1>10, <1>11, <1>13, CodesConcat DEF s
  <2>14. K[Len(s)] = Found
    <3>1. 0 \in 0..Len(Codes(post)) /\ 0 + Len(s) = Len(s)
      <4>1. Len(Codes(post)) \in Nat
        BY <2>1, LenProperties
      <4>2. Len(s) \in Nat
        BY <2>7, LenProperties DEF Fits
      <4> QED
        BY <4>1, <4>2
    <3>2. J[0] = Found
      BY <2>11 DEF IsRun
    <3> QED
      BY <2>12, <3>1, <3>2
  <2>15. Len(s) \in 0..Len(input')
    <3>1. Len(mid) \in Nat /\ Len(post) \in Nat
      BY <1>6, <1>10, LenProperties
    <3> QED
      BY <1>4, <1>12, <1>13, <2>7, <3>1
  <2> QED
    BY <1>2, <2>12, <2>13, <2>14, <2>15 DEF ReplyAhead
<1> QED
  BY <1>14, <1>16, <1>17, <1>18 DEF StreamInv, ReplyAhead

LEMMA StreamStepOK == StreamInv /\ [Next]_vars => StreamInv'
<1> SUFFICES ASSUME StreamInv, [Next]_vars PROVE StreamInv'
  OBVIOUS
<1>1. CASE StreamNext
  BY <1>1, AskOK, ReadEventsOK, SmallStepOK, ReadReplyOK DEF StreamNext
<1>2. CASE InterruptedRead
  BY <1>2, SmallStepOK
<1>3. CASE Flush
  BY <1>3, FlushOK
<1>4. CASE UNCHANGED streamVars
  BY <1>4 DEF StreamInv, InputOK, StreamTyped, Asking, ReplyAhead, streamVars, genVars, cursorVars
<1>5. StreamNext \/ InterruptedRead \/ Flush \/ UNCHANGED streamVars
  BY DEF Next, vars, Interrupt, SetAttr, Abort
<1> QED
  BY <1>1, <1>2, <1>3, <1>4, <1>5

(***************************************************************************)
(* In every reachable state of the terminal's input, the unread bytes are  *)
(* whole keys and replies after a cut one at most, what the parser and the *)
(* loop of cursor_position() keep has its type, and while nothing has      *)
(* broken into cursor_position() the reply is in what it will read.        *)
(***************************************************************************)
THEOREM InputInvariantHolds == Spec => []StreamInv
<1>1. Init => StreamInv
  BY StreamInitOK DEF Init
<1> QED
  BY <1>1, StreamStepOK, PTL DEF Spec

-----------------------------------------------------------------------------
LEMMA FoundIsPosition ==
    ASSUME StreamInv, ReadReply, clean', program' = "idle"
    PROVE  reply'.state = "end" /\ position' = Reply.position
<1>1. reply' = Found
  BY ReadReplyOK
<1>2. Reply.position \in [row : 0..U16 - 1, col : 0..U16 - 1]
  BY ReplyAssumption
<1>3. Reply.position = [row |-> Reply.position.row, col |-> Reply.position.col]
  BY <1>2
<1> QED
  BY <1>1, <1>3 DEF position, Found

(***************************************************************************)
(* cursor_position() returns the position that the terminal has sent, for  *)
(* every reply of two 16-bit numbers, however many plain characters are    *)
(* typed ahead of it and however the reads cut it, unless a flush or an    *)
(* interrupted read breaks into it.                                        *)
(***************************************************************************)
THEOREM AlwaysFindsReply == Spec => FindsReply
<1>1. StreamInv /\ [Next]_vars
        => [program = "asking" /\ program' = "idle" /\ clean' =>
               reply'.state = "end" /\ position' = Reply.position]_streamVars
  <2> SUFFICES ASSUME StreamInv, [Next]_vars,
                      program = "asking" /\ program' = "idle" /\ clean'
               PROVE  reply'.state = "end" /\ position' = Reply.position
    OBVIOUS
  <2>1. ReadReply \/ InterruptedRead \/ UNCHANGED program
    BY DEF Next, vars, streamVars, Interrupt, SetAttr, Flush, Abort, StreamNext,
           Resume, ReadEvents, YieldValue, Throws, Ask
  <2>2. ~InterruptedRead
    BY DEF InterruptedRead
  <2> QED
    BY <2>1, <2>2, FoundIsPosition
<1> QED
  BY <1>1, InputInvariantHolds, PTL DEF Spec, FindsReply

-----------------------------------------------------------------------------
LEMMA StreamTypeOKHolds == StreamInv => StreamTypeOK
<1> SUFFICES ASSUME StreamInv PROVE StreamTypeOK
  OBVIOUS
<1>1. input \in Seq(Tagged) /\ StreamTyped
  BY DEF StreamInv, InputOK
<1>2. \A i \in DOMAIN input : input[i].key \in Key \cup {Reply}
  <2> SUFFICES ASSUME NEW i \in DOMAIN input PROVE input[i].key \in Key \cup {Reply}
    OBVIOUS
  <2>1. input[i] \in Tagged
    BY <1>1
  <2> QED
    BY <2>1 DEF Tagged, Sent
<1>3. ASSUME NEW e \in Event PROVE e.mods \in 0..255
  <2>1. CASE e \in [code : Byte, mods : Byte]
    BY <2>1 DEF Byte
  <2>2. CASE e \in [x : Word, y : Word, mods : Byte]
    BY <2>2 DEF Byte
  <2> QED
    BY <2>1, <2>2 DEF Event
<1>4. value.mods \in 0..255 /\ \A i \in DOMAIN events : events[i].mods \in 0..255
  <2>1. events \in Seq(Event) /\ value \in Event
    BY <1>1 DEF StreamTyped
  <2>2. \A i \in DOMAIN events : events[i] \in Event
    BY <2>1
  <2> QED
    BY <1>3, <2>1, <2>2
<1>5. /\ reply.state \in {"start", "esc", "bracket", "semicolon", "end", "invalid"}
      /\ reply.row \in 0..U16 - 1 /\ reply.col \in 0..U16 - 1
  BY <1>1 DEF StreamTyped, CursorState, Word
<1> QED
  BY <1>1, <1>2, <1>4, <1>5 DEF StreamTypeOK, StreamTyped

(***************************************************************************)
(* Every variable of the terminal keeps its type: its modes and handlers,  *)
(* the generator and its promise, the numbers of the reply.                *)
(***************************************************************************)
THEOREM TypeCorrect == Spec => []TypeOK
<1>1. RawTypeOK /\ StreamInv => TypeOK
  BY StreamTypeOKHolds DEF TypeOK
<1> QED
  BY <1>1, ModesTypeCorrect, InputInvariantHolds, PTL

-----------------------------------------------------------------------------
(* What the parser makes of a byte does not depend on the events that it   *)
(* has yielded.                                                            *)
Moved(o, x) == [state |-> x.state, params |-> x.params, current |-> x.current, out |-> o \o x.out]

Rec(s, p, c, o) == [state |-> s, params |-> p, current |-> c, out |-> o]

\* Assignments to the members.
SetState(x, v)   == [x EXCEPT !.state = v]
SetCurrent(x, v) == [x EXCEPT !.current = v]
SetParam(x, n, v)    == [x EXCEPT !.params[n] = v]
SetNumber(x, n, v)   == [x EXCEPT !.state = "number", !.params[n] = v]

LEMMA Assigned ==
    ASSUME NEW s, NEW p, NEW c, NEW o, NEW v
    PROVE  /\ SetState(Rec(s, p, c, o), v) = Rec(v, p, c, o)
           /\ SetCurrent(Rec(s, p, c, o), v) = Rec(s, p, v, o)
<1>1. SetState(Rec(s, p, c, o), v) = Rec(v, p, c, o)
  BY DEF Rec, SetState
<1>2. SetCurrent(Rec(s, p, c, o), v) = Rec(s, p, v, o)
  BY DEF Rec, SetCurrent
<1> QED
  BY <1>1, <1>2

LEMMA AssignedParam ==
    ASSUME NEW s, NEW p, NEW c, NEW o, NEW v, NEW n
    PROVE  /\ SetParam(Rec(s, p, c, o), n, v) = Rec(s, [p EXCEPT ![n] = v], c, o)
           /\ SetNumber(Rec(s, p, c, o), n, v) = Rec("number", [p EXCEPT ![n] = v], c, o)
<1>1. SetState(Rec(s, p, c, o), "number") = Rec("number", p, c, o)
  BY DEF Rec, SetState
<1>2. SetParam(Rec(s, p, c, o), n, v) = Rec(s, [p EXCEPT ![n] = v], c, o)
  BY DEF Rec, SetParam
<1>3. SetParam(Rec("number", p, c, o), n, v) = Rec("number", [p EXCEPT ![n] = v], c, o)
  BY DEF Rec, SetParam
<1>4. SetNumber(Rec(s, p, c, o), n, v) = SetParam(SetState(Rec(s, p, c, o), "number"), n, v)
  BY DEF Rec, SetParam, SetState, SetNumber
<1> QED
  BY <1>1, <1>2, <1>3, <1>4

LEMMA AssignedMoved ==
    ASSUME NEW o, NEW x \in ParserState, NEW v, NEW n
    PROVE  /\ SetState(Moved(o, x), v) = Moved(o, SetState(x, v))
           /\ SetCurrent(Moved(o, x), v) = Moved(o, SetCurrent(x, v))
           /\ SetParam(Moved(o, x), n, v) = Moved(o, SetParam(x, n, v))
           /\ SetNumber(Moved(o, x), n, v) = Moved(o, SetNumber(x, n, v))
<1>1. \A s, p, c, u : Moved(o, Rec(s, p, c, u)) = Rec(s, p, c, o \o u)
  BY DEF Moved, Rec
<1>2. x = Rec(x.state, x.params, x.current, x.out)
  BY DEF ParserState, Rec
<1>3. PICK s, p, c, u : x = Rec(s, p, c, u)
  BY <1>2
<1>4. Moved(o, x) = Rec(s, p, c, o \o u)
  BY <1>1, <1>3
<1>5. SetState(Moved(o, x), v) = Moved(o, SetState(x, v))
  <2>1. SetState(Rec(s, p, c, o \o u), v) = Rec(v, p, c, o \o u)
    BY Assigned
  <2>2. SetState(Rec(s, p, c, u), v) = Rec(v, p, c, u)
    BY Assigned
  <2> QED
    BY <1>1, <1>3, <1>4, <2>1, <2>2
<1>6. SetCurrent(Moved(o, x), v) = Moved(o, SetCurrent(x, v))
  <2>1. SetCurrent(Rec(s, p, c, o \o u), v) = Rec(s, p, v, o \o u)
    BY Assigned
  <2>2. SetCurrent(Rec(s, p, c, u), v) = Rec(s, p, v, u)
    BY Assigned
  <2> QED
    BY <1>1, <1>3, <1>4, <2>1, <2>2
<1>7. SetParam(Moved(o, x), n, v) = Moved(o, SetParam(x, n, v))
  <2>1. SetParam(Rec(s, p, c, o \o u), n, v) = Rec(s, [p EXCEPT ![n] = v], c, o \o u)
    BY AssignedParam
  <2>2. SetParam(Rec(s, p, c, u), n, v) = Rec(s, [p EXCEPT ![n] = v], c, u)
    BY AssignedParam
  <2> QED
    BY <1>1, <1>3, <1>4, <2>1, <2>2
<1>8. SetNumber(Moved(o, x), n, v) = Moved(o, SetNumber(x, n, v))
  <2>1. SetNumber(Rec(s, p, c, o \o u), n, v) = Rec("number", [p EXCEPT ![n] = v], c, o \o u)
    BY AssignedParam
  <2>2. SetNumber(Rec(s, p, c, u), n, v) = Rec("number", [p EXCEPT ![n] = v], c, u)
    BY AssignedParam
  <2> QED
    BY <1>1, <1>3, <1>4, <2>1, <2>2
<1> QED
  BY <1>5, <1>6, <1>7, <1>8

LEMMA AppendMoved ==
    ASSUME NEW o \in Seq(Event), NEW u \in Seq(Event), NEW e \in Event
    PROVE  Append(o \o u, e) = o \o Append(u, e) /\ o \o Append(u, e) \in Seq(Event)
<1> DEFINE v == Append(o \o u, e)
           w == o \o Append(u, e)
<1>1. Len(o) \in Nat /\ Len(u) \in Nat /\ o \o u \in Seq(Event) /\ Len(o \o u) = Len(o) + Len(u)
  BY ConcatProperties, LenProperties
<1>2. Append(u, e) \in Seq(Event) /\ Len(Append(u, e)) = Len(u) + 1
  BY AppendProperties
<1>3. /\ v \in Seq(Event) /\ Len(v) = Len(o) + Len(u) + 1 /\ v[Len(o) + Len(u) + 1] = e
      /\ \A i \in 1..(Len(o) + Len(u)) : v[i] = (o \o u)[i]
  BY <1>1, AppendProperties
<1>4. w \in Seq(Event) /\ Len(w) = Len(o) + (Len(u) + 1)
  BY <1>2, ConcatProperties
<1>5. ASSUME NEW i \in 1..(Len(o) + Len(u) + 1) PROVE v[i] = w[i]
  <2>1. w[i] = IF i <= Len(o) THEN o[i] ELSE Append(u, e)[i - Len(o)]
    <3>1. i \in 1..(Len(o) + Len(Append(u, e)))
      BY <1>1, <1>2
    <3> QED
      BY <1>2, <3>1, ConcatProperties
  <2>2. CASE i = Len(o) + Len(u) + 1
    <3>1. ~(i <= Len(o)) /\ i - Len(o) = Len(u) + 1
      BY <1>1, <2>2
    <3>2. Append(u, e)[Len(u) + 1] = e
      BY AppendProperties
    <3> QED
      BY <1>3, <2>1, <2>2, <3>1, <3>2
  <2>3. CASE i # Len(o) + Len(u) + 1
    <3>1. i \in 1..(Len(o) + Len(u)) /\ (~(i <= Len(o)) => i - Len(o) \in 1..Len(u))
      BY <1>1, <2>3
    <3>2. v[i] = IF i <= Len(o) THEN o[i] ELSE u[i - Len(o)]
      BY <1>3, <3>1, ConcatProperties
    <3>3. ~(i <= Len(o)) => Append(u, e)[i - Len(o)] = u[i - Len(o)]
      BY <3>1, AppendProperties
    <3> QED
      BY <2>1, <3>2, <3>3
  <2> QED
    BY <2>2, <2>3
<1> HIDE DEF v, w
<1>6. v = w
  <2>1. Len(v) = Len(w) /\ Len(v) = Len(o) + Len(u) + 1
    BY <1>1, <1>3, <1>4
  <2> QED
    BY <1>3, <1>4, <1>5, <2>1, SeqEqual
<1> QED
  BY <1>4, <1>6 DEF v, w

LEMMA YieldMoved ==
    ASSUME NEW o \in Seq(Event), NEW x \in ParserState, NEW e \in Event
    PROVE  Yield(Moved(o, x), e) = Moved(o, Yield(x, e))
<1>1. x.out \in Seq(Event)
  BY DEF ParserState
<1>2. Append(o \o x.out, e) = o \o Append(x.out, e)
  BY <1>1, AppendMoved
<1>3. ASSUME NEW r PROVE Yield(r, e) = Rec("first", NoParams, 1, Append(r.out, e))
  <2>1. ASSUME NEW p, NEW u
        PROVE  [[state |-> "first", params |-> p, current |-> 1, out |-> << >>] EXCEPT !.out = u]
                 = Rec("first", p, 1, u)
    BY DEF Rec
  <2> QED
    BY <2>1 DEF Yield, FirstState
<1>4. Moved(o, x).out = o \o x.out
  BY DEF Moved
<1>5. Moved(o, Rec("first", NoParams, 1, Append(x.out, e)))
        = Rec("first", NoParams, 1, o \o Append(x.out, e))
  BY DEF Moved, Rec
<1> QED
  BY <1>2, <1>3, <1>4, <1>5

LEMMA CheckedMoved ==
    ASSUME NEW o \in Seq(Event), NEW x \in ParserState, NEW holds, NEW e \in Event
    PROVE  Checked(Moved(o, x), holds, e) = Moved(o, Checked(x, holds, e))
<1>1. SetState(Moved(o, x), "asserts") = Moved(o, SetState(x, "asserts"))
  BY AssignedMoved
<1>2. Yield(Moved(o, x), e) = Moved(o, Yield(x, e))
  BY YieldMoved
<1>3. \A r : Checked(r, holds, e) = IF holds THEN Yield(r, e) ELSE SetState(r, "asserts")
  BY DEF Checked, SetState
<1> QED
  BY <1>1, <1>2, <1>3

LEMMA SequenceMoved ==
    ASSUME NEW o \in Seq(Event), NEW x \in ParserState, NEW c \in Byte
    PROVE  ParseSequence(Moved(o, x), c) = Moved(o, ParseSequence(x, c))
<1>0. Moved(o, x).current = x.current
  BY DEF Moved
<1>1. CASE c \in Digit
  <2>1. \A r : ParseSequence(r, c) = SetNumber(r, r.current, c - 48)
    BY <1>1 DEF ParseSequence, Digit, Arrow, SetNumber
  <2> QED
    BY <1>0, <2>1, AssignedMoved
<1>2. CASE c = 60
  <2>1. \A r : ParseSequence(r, c) = SetState(r, "number")
    BY <1>2 DEF ParseSequence, Digit, Arrow, SetState
  <2> QED
    BY <2>1, AssignedMoved
<1>3. CASE c \in Arrow
  <2>1. parse_function_key(c, 0) \in Event
    <3>1. 0 \in Word
      BY WordMod DEF Byte
    <3> QED
      BY <3>1, FunctionKeyTyped
  <2>2. \A r : ParseSequence(r, c) = Yield(r, parse_function_key(c, 0))
    BY <1>3 DEF ParseSequence, Digit, Arrow
  <2> QED
    BY <2>1, <2>2, YieldMoved
<1>4. CASE c \notin Digit /\ c # 60 /\ c \notin Arrow
  <2>1. \A r : ParseSequence(r, c) = SetState(r, "throws")
    BY <1>4 DEF ParseSequence, SetState
  <2> QED
    BY <2>1, AssignedMoved
<1> QED
  BY <1>1, <1>2, <1>3, <1>4

LEMMA NumberMoved ==
    ASSUME NEW o \in Seq(Event), NEW x \in ParserState, NEW c \in Byte
    PROVE  ParseNumber(Moved(o, x), c) = Moved(o, ParseNumber(x, c))
<1>0. /\ Moved(o, x).params = x.params /\ Moved(o, x).current = x.current
      /\ x.params \in [1..4 -> Word] /\ x.current \in 1..4
  BY DEF Moved, ParserState
<1>1. CASE c \in Digit
  <2>1. \A r : ParseNumber(r, c) =
                  SetParam(r, r.current, ((r.params[r.current] * 10 + c) - 48) % U16)
    BY <1>1, DigitOnly DEF ParseNumber, SetParam
  <2> DEFINE v == ((x.params[x.current] * 10 + c) - 48) % U16
  <2>2. ParseNumber(x, c) = SetParam(x, x.current, v)
    BY <2>1
  <2>3. ParseNumber(Moved(o, x), c) = SetParam(Moved(o, x), x.current, v)
    BY <1>0, <2>1
  <2> HIDE DEF v
  <2>4. SetParam(Moved(o, x), x.current, v) = Moved(o, SetParam(x, x.current, v))
    BY AssignedMoved
  <2> QED
    BY <2>2, <2>3, <2>4
<1>2. CASE c = SEMICOLON
  <2>1. \A r : ParseNumber(r, c) = IF r.current = 4 THEN SetState(r, "asserts")
                                                    ELSE SetCurrent(r, r.current + 1)
    BY <1>2 DEF ParseNumber, Digit, Arrow, SEMICOLON, SetState, SetCurrent
  <2>2. SetState(Moved(o, x), "asserts") = Moved(o, SetState(x, "asserts"))
    BY AssignedMoved
  <2>3. SetCurrent(Moved(o, x), x.current + 1) = Moved(o, SetCurrent(x, x.current + 1))
    BY AssignedMoved
  <2> QED
    BY <1>0, <2>1, <2>2, <2>3
<1>3. \A m \in {0, Release} : /\ parse_mouse(Moved(o, x), m) = parse_mouse(x, m)
                              /\ parse_mouse(x, m) \in Event
  <2>1. \A m \in {0, Release} : parse_mouse(Moved(o, x), m) = parse_mouse(x, m)
    BY <1>0 DEF parse_mouse
  <2> QED
    BY <2>1, MouseTyped
<1>4. ASSUME NEW m \in {0, Release}, c = IF m = 0 THEN 77 ELSE 109
      PROVE  ParseNumber(Moved(o, x), c) = Moved(o, ParseNumber(x, c))
  <2>1. \A r : ParseNumber(r, c) = Checked(r, r.current = 3, parse_mouse(r, m))
    BY <1>4 DEF ParseNumber, Digit, Arrow, SEMICOLON, Release
  <2>2. Checked(Moved(o, x), x.current = 3, parse_mouse(x, m))
          = Moved(o, Checked(x, x.current = 3, parse_mouse(x, m)))
    BY <1>3, CheckedMoved
  <2> QED
    BY <1>0, <1>3, <2>1, <2>2
<1>5. CASE c = 109 \/ c = 77
  <2>1. 0 \in {0, Release} /\ Release \in {0, Release} /\ Release # 0
    BY DEF Release
  <2> QED
    BY <1>4, <1>5, <2>1
<1>6. CASE c \in Arrow
  <2>1. parse_function_key(c, x.params[2]) \in Event
    BY <1>0, FunctionKeyTyped
  <2>2. \A r : ParseNumber(r, c) = Checked(r, r.params[1] = 1 /\ r.current = 2,
                                          parse_function_key(c, r.params[2]))
    BY <1>6 DEF ParseNumber, Digit, Arrow, SEMICOLON
  <2>3. Checked(Moved(o, x), x.params[1] = 1 /\ x.current = 2, parse_function_key(c, x.params[2]))
          = Moved(o, Checked(x, x.params[1] = 1 /\ x.current = 2,
                             parse_function_key(c, x.params[2])))
    BY <2>1, CheckedMoved
  <2> QED
    BY <1>0, <2>2, <2>3
<1>7. CASE c \notin Digit /\ c # SEMICOLON /\ c # 109 /\ c # 77 /\ c \notin Arrow
  <2>1. \A r : ParseNumber(r, c) = SetState(r, "throws")
    BY <1>7 DEF ParseNumber, SetState
  <2> QED
    BY <2>1, AssignedMoved
<1> QED
  BY <1>1, <1>2, <1>5, <1>6, <1>7

\* One byte, with events yielded before.
LEMMA ParseMoved ==
    ASSUME NEW o \in Seq(Event), NEW x \in ParserState, NEW c \in Byte
    PROVE  ParseByte(Moved(o, x), c) = Moved(o, ParseByte(x, c))
<1>0. Moved(o, x).state = x.state
  BY DEF Moved
<1>1. CASE x.state = "first" /\ c = ESC
  <2>1. \A r : r.state = "first" => ParseByte(r, c) = SetState(r, "control")
    BY <1>1 DEF ParseByte, SetState
  <2> QED
    BY <1>0, <1>1, <2>1, AssignedMoved
<1>2. CASE x.state = "first" /\ c # ESC
  BY <1>0, <1>2, YieldMoved, CharacterTyped DEF ParseByte
<1>3. CASE x.state = "control" /\ c = BRACKET
  <2>1. \A r : r.state = "control" => ParseByte(r, c) = SetState(r, "sequence")
    BY <1>3 DEF ParseByte, SetState
  <2> QED
    BY <1>0, <1>3, <2>1, AssignedMoved
<1>4. CASE x.state = "control" /\ c # BRACKET
  BY <1>0, <1>4, YieldMoved, CharacterTyped DEF ParseByte
<1>5. CASE x.state = "sequence"
  BY <1>0, <1>5, SequenceMoved DEF ParseByte
<1>6. CASE x.state = "number"
  BY <1>0, <1>6, NumberMoved DEF ParseByte
<1>7. CASE x.state \notin {"first", "control", "sequence", "number"}
  BY <1>0, <1>7 DEF ParseByte
<1> QED
  BY <1>1, <1>2, <1>3, <1>4, <1>5, <1>6, <1>7

-----------------------------------------------------------------------------
(* A byte either completes an event or leaves the events as they are.      *)
Yields(x, y) == \E e \in Event : y = Yield(x, e)

LEMMA SequenceGoes ==
    ASSUME NEW x \in ParserState, NEW c \in Byte
    PROVE  LET y == ParseSequence(x, c)
           IN  Yields(x, y) \/ (y.out = x.out /\ y.state \in {"number", "throws"})
<1>1. CASE c \in Arrow
  <2>1. parse_function_key(c, 0) \in Event
    <3>1. 0 \in Word
      BY WordMod DEF Byte
    <3> QED
      BY <3>1, FunctionKeyTyped
  <2> QED
    BY <1>1, <2>1 DEF ParseSequence, Digit, Arrow, Yields
<1>2. CASE c \notin Arrow
  BY <1>2 DEF ParseSequence, ParserState
<1> QED
  BY <1>1, <1>2

LEMMA NumberGoes ==
    ASSUME NEW x \in ParserState, NEW c \in Byte, x.state = "number"
    PROVE  LET y == ParseNumber(x, c)
           IN  Yields(x, y) \/ (y.out = x.out /\ y.state \in {"number", "throws", "asserts"})
<1>1. ASSUME NEW holds, NEW e \in Event
      PROVE  LET y == Checked(x, holds, e)
             IN  Yields(x, y) \/ (y.out = x.out /\ y.state = "asserts")
  BY DEF Checked, Yields, ParserState
<1>2. CASE c = 109 \/ c = 77
  <2>1. parse_mouse(x, Release) \in Event /\ parse_mouse(x, 0) \in Event
    BY MouseTyped
  <2> QED
    BY <1>1, <1>2, <2>1 DEF ParseNumber, Digit, Arrow, SEMICOLON
<1>3. CASE c \in Arrow
  <2>1. parse_function_key(c, x.params[2]) \in Event
    BY FunctionKeyTyped DEF ParserState
  <2> QED
    BY <1>1, <1>3, <2>1 DEF ParseNumber, Digit, Arrow, SEMICOLON
<1>4. CASE ~(c = 109 \/ c = 77) /\ c \notin Arrow
  BY <1>4 DEF ParseNumber, ParserState
<1> QED
  BY <1>2, <1>3, <1>4

\* How the state tells which.
Goes(x, c, y) ==
    /\ Yields(x, y) \/ (y.out = x.out /\ y.state # "first")
    /\ x.state = "first" /\ c # ESC => y = Yield(x, from_character(c, 0))
    /\ y.state = "sequence" => x.state = "control" /\ c = BRACKET
    /\ x.state = "control" /\ c = BRACKET => y.state = "sequence"
    /\ y.state = "control" => x.state = "first" /\ c = ESC
    /\ x.state \in {"throws", "asserts"} => y = x

LEMMA ByteGoes ==
    ASSUME NEW x \in ParserState, NEW c \in Byte
    PROVE  Goes(x, c, ParseByte(x, c))
<1> DEFINE y == ParseByte(x, c)
<1> SUFFICES Goes(x, c, y)
  OBVIOUS
<1>0. ASSUME Yields(x, y) PROVE y.state = "first"
  BY <1>0 DEF Yields, Yield, FirstState
<1>1. CASE x.state = "first" /\ c = ESC
  BY <1>1 DEF ParseByte, ParserState, Goes
<1>2. CASE x.state = "first" /\ c # ESC
  <2>1. y = Yield(x, from_character(c, 0))
    BY <1>2 DEF ParseByte
  <2>2. Yields(x, y)
    BY <2>1, CharacterTyped DEF Yields
  <2> HIDE DEF y
  <2> QED
    BY <1>0, <1>2, <2>1, <2>2 DEF Goes
<1>3. CASE x.state = "control" /\ c = BRACKET
  BY <1>3 DEF ParseByte, ParserState, Goes
<1>4. CASE x.state = "control" /\ c # BRACKET
  <2>1. y = Yield(x, from_character(c, Alt))
    BY <1>4 DEF ParseByte
  <2>2. Yields(x, y)
    BY <2>1, CharacterTyped DEF Yields
  <2> HIDE DEF y
  <2> QED
    BY <1>0, <1>4, <2>1, <2>2 DEF Goes
<1>5. CASE x.state = "sequence"
  <2>1. Yields(x, y) \/ (y.out = x.out /\ y.state \in {"number", "throws"})
    BY <1>5, SequenceGoes DEF ParseByte
  <2> HIDE DEF y
  <2> QED
    BY <1>0, <1>5, <2>1 DEF Goes
<1>6. CASE x.state = "number"
  <2>1. Yields(x, y) \/ (y.out = x.out /\ y.state \in {"number", "throws", "asserts"})
    BY <1>6, NumberGoes DEF ParseByte
  <2> HIDE DEF y
  <2> QED
    BY <1>0, <1>6, <2>1 DEF Goes
<1>7. CASE x.state \notin {"first", "control", "sequence", "number"}
  <2>1. y = x /\ x.state \in {"throws", "asserts"}
    BY <1>7 DEF ParseByte, ParserState
  <2> HIDE DEF y
  <2> QED
    BY <2>1 DEF Goes
<1> QED
  BY <1>1, <1>2, <1>3, <1>4, <1>5, <1>6, <1>7

-----------------------------------------------------------------------------
(* The parser on the bytes of one key.                                     *)
KeyRun(k) == CHOOSE F : IsRun(F, ParseStep, FirstState, k.bytes)

LEMMA KeyRunIs ==
    ASSUME NEW k \in Sent
    PROVE  /\ Fits(ParserState, Byte, ParseStep, FirstState, k.bytes)
           /\ IsRun(KeyRun(k), ParseStep, FirstState, k.bytes)
           /\ KeyRun(k)[0] = FirstState
           /\ \A j \in 0..Len(k.bytes) : KeyRun(k)[j] \in ParserState
           /\ \A j \in 1..Len(k.bytes) : KeyRun(k)[j] = ParseByte(KeyRun(k)[j - 1], k.bytes[j])
           /\ KeyRun(k)[Len(k.bytes)] = FoldLeft(ParseByte, FirstState, k.bytes)
<1>1. k.bytes \in Seq(Byte) /\ Len(k.bytes) \in Nat /\ \A i \in 1..Len(k.bytes) : k.bytes[i] \in Byte
  BY SentBytes
<1>2. /\ Fits(ParserState, Byte, ParseStep, FirstState, k.bytes)
      /\ FoldLeft(ParseByte, FirstState, k.bytes) = Steps(ParseStep, FirstState, k.bytes)
  BY <1>1, FirstTyped, ParseFold
<1>3. \E F : IsRun(F, ParseStep, FirstState, k.bytes)
  BY <1>2, RunExists
<1>4. IsRun(KeyRun(k), ParseStep, FirstState, k.bytes)
  BY <1>3 DEF KeyRun
<1>5. \A j \in 0..Len(k.bytes) : KeyRun(k)[j] \in ParserState
  BY <1>2, <1>4, RunUnique
<1>6. ASSUME NEW j \in 1..Len(k.bytes)
      PROVE  KeyRun(k)[j] = ParseByte(KeyRun(k)[j - 1], k.bytes[j])
  <2>1. KeyRun(k)[j] = ParseStep[<<KeyRun(k)[j - 1], k.bytes[j]>>]
    BY <1>4 DEF IsRun
  <2>2. j - 1 \in 0..Len(k.bytes)
    BY <1>1
  <2>3. KeyRun(k)[j - 1] \in ParserState /\ k.bytes[j] \in Byte
    BY <1>1, <1>5, <2>2
  <2> QED
    BY <2>1, <2>3 DEF ParseStep
<1>7. KeyRun(k)[Len(k.bytes)] = Steps(ParseStep, FirstState, k.bytes)
  BY <1>2, <1>4, StepsOfRun
<1>8. KeyRun(k)[0] = FirstState
  BY <1>4 DEF IsRun
<1> QED
  BY <1>2, <1>4, <1>5, <1>6, <1>7, <1>8

LEMMA GoesLength ==
    ASSUME NEW x \in ParserState, NEW c \in Byte
    PROVE  LET y == ParseByte(x, c)
           IN  /\ y \in ParserState /\ Len(x.out) \in Nat /\ Len(y.out) \in Nat
               /\ y.state = "first" => Len(y.out) = Len(x.out) + 1
               /\ y.state # "first" => y.out = x.out
<1> DEFINE y == ParseByte(x, c)
<1>1. y \in ParserState
  BY ParseTyped
<1>2. Yields(x, y) \/ (y.out = x.out /\ y.state # "first")
  BY ByteGoes DEF Goes
<1> HIDE DEF y
<1>3. x.out \in Seq(Event) /\ y.out \in Seq(Event)
  BY <1>1 DEF ParserState
<1>4. Len(x.out) \in Nat /\ Len(y.out) \in Nat
  BY <1>3, LenProperties
<1>5. ASSUME NEW e \in Event, y = Yield(x, e)
      PROVE  y.state = "first" /\ Len(y.out) = Len(x.out) + 1
  <2>1. y.state = "first" /\ y.out = Append(x.out, e)
    BY <1>5 DEF Yield, FirstState
  <2> QED
    BY <1>3, <2>1, AppendProperties
<1>6. /\ y.state = "first" => Len(y.out) = Len(x.out) + 1
      /\ y.state # "first" => y.out = x.out
  BY <1>2, <1>5 DEF Yields
<1> QED
  BY <1>1, <1>4, <1>6 DEF y

\* A key that ends in its only event: before that it has none.
LEMMA OneEvent ==
    ASSUME NEW k \in Key, NEW e \in Event, KeyRun(k)[Len(k.bytes)] = Yield(FirstState, e)
    PROVE  \A j \in 1..(Len(k.bytes) - 1) :
               KeyRun(k)[j].out = << >> /\ KeyRun(k)[j].state \in {"control", "sequence", "number"}
<1> DEFINE m == Len(k.bytes)
           R(j) == KeyRun(k)[j]
<1>1. /\ k \in Sent /\ m \in Nat /\ m > 0 /\ \A i \in 1..m : k.bytes[i] \in Byte
      /\ \A i \in 2..m : k.bytes[i] # ESC
  BY SentBytes, KnownAssumption DEF Sent
<1>2. /\ R(0) = FirstState /\ \A j \in 0..m : R(j) \in ParserState
      /\ \A j \in 1..m : R(j) = ParseByte(R(j - 1), k.bytes[j])
      /\ IsRun(KeyRun(k), ParseStep, FirstState, k.bytes)
      /\ Fits(ParserState, Byte, ParseStep, FirstState, k.bytes)
  BY <1>1, KeyRunIs
<1>3. R(m).state = "first" /\ R(m).out = Append(<< >>, e) /\ R(m) = Yield(FirstState, e)
  BY DEF Yield, FirstState
<1>4. Len(R(m).out) = 1
  <2>1. Append(<< >>, e) = <<e>>
    OBVIOUS
  <2> QED
    BY <1>3, <2>1
<1> HIDE DEF m, R
<1>5. ASSUME NEW j \in 1..m
      PROVE  /\ j - 1 \in 0..m /\ Len(R(j).out) \in Nat /\ Len(R(j - 1).out) \in Nat
             /\ R(j).state = "first" => Len(R(j).out) = Len(R(j - 1).out) + 1
             /\ R(j).state # "first" => R(j).out = R(j - 1).out
  <2>1. j - 1 \in 0..m
    BY <1>1
  <2>2. R(j - 1) \in ParserState /\ k.bytes[j] \in Byte /\ R(j) = ParseByte(R(j - 1), k.bytes[j])
    BY <1>1, <1>2, <2>1
  <2> QED
    BY <2>1, <2>2, GoesLength
<1>6. \A j \in 0..m : Len(R(j).out) <= 1
  <2> DEFINE S == {i \in Nat : \A j \in 0..m : j + i = m => Len(R(j).out) <= 1}
  <2>1. 0 \in S
    <3> SUFFICES ASSUME NEW j \in 0..m, j + 0 = m PROVE Len(R(j).out) <= 1
      OBVIOUS
    <3>1. j = m
      BY <1>1
    <3>2. R(j) = R(m)
      BY <3>1
    <3>3. Len(R(j).out) = 1
      BY <1>4, <3>2
    <3> QED
      BY <3>3
  <2>2. ASSUME NEW i \in Nat, i \in S PROVE i + 1 \in S
    <3> SUFFICES ASSUME NEW j \in 0..m, j + (i + 1) = m PROVE Len(R(j).out) <= 1
      OBVIOUS
    <3>1. j + 1 \in 1..m /\ j + 1 \in 0..m /\ (j + 1) - 1 = j /\ (j + 1) + i = m
      BY <1>1
    <3>2. Len(R(j + 1).out) <= 1
      BY <2>2, <3>1
    <3>3. /\ Len(R(j + 1).out) \in Nat /\ Len(R(j).out) \in Nat
          /\ Len(R(j + 1).out) = Len(R(j).out) + 1 \/ R(j + 1).out = R(j).out
      BY <1>5, <3>1
    <3> QED
      BY <3>2, <3>3
  <2> HIDE DEF S
  <2>3. \A i \in Nat : i \in S
    BY <2>1, <2>2, SetInduction
  <2> SUFFICES ASSUME NEW j \in 0..m PROVE Len(R(j).out) <= 1
    OBVIOUS
  <2>4. m - j \in Nat /\ j + (m - j) = m
    BY <1>1
  <2>5. m - j \in S
    BY <2>3, <2>4
  <2> QED
    BY <2>4, <2>5 DEF S
<1>7. ASSUME NEW j \in 1..(m - 1), R(j).state = "first" PROVE FALSE
  <2>1. j \in 1..m /\ j + 1 \in 2..m /\ j + 1 \in 1..m /\ (j + 1) - 1 = j
    BY <1>1
  <2>2. Len(R(j).out) >= 1
    BY <1>5, <1>7, <2>1
  <2>3. /\ R(j) \in ParserState /\ k.bytes[j + 1] \in Byte /\ k.bytes[j + 1] # ESC
        /\ R(j + 1) = ParseByte(R(j), k.bytes[j + 1])
    BY <1>1, <1>2, <2>1
  <2>4. R(j + 1) = Yield(R(j), from_character(k.bytes[j + 1], 0))
    BY <1>7, <2>3, ByteGoes DEF Goes
  <2>5. R(j + 1).state = "first"
    BY <2>4 DEF Yield, FirstState
  <2>6. Len(R(j + 1).out) = Len(R(j).out) + 1 /\ Len(R(j).out) \in Nat
    BY <1>5, <2>1, <2>5
  <2>7. Len(R(j + 1).out) <= 1
    BY <1>6, <2>1
  <2> QED
    BY <2>2, <2>6, <2>7
<1>8. ASSUME NEW j \in 1..(m - 1), R(j).state \in {"throws", "asserts"} PROVE FALSE
  <2>1. j \in 0..Len(k.bytes) /\ m \in j..Len(k.bytes)
    BY <1>1 DEF m
  <2>2. \A i \in (j + 1)..Len(k.bytes) : ParseStep[<<KeyRun(k)[j], k.bytes[i]>>] = KeyRun(k)[j]
    <3> SUFFICES ASSUME NEW i \in (j + 1)..Len(k.bytes)
                 PROVE  ParseStep[<<R(j), k.bytes[i]>>] = R(j)
      BY DEF R
    <3>1. i \in 1..m /\ j \in 0..m
      BY <1>1, <2>1 DEF m
    <3>2. k.bytes[i] \in Byte /\ R(j) \in ParserState
      BY <1>1, <1>2, <3>1
    <3>3. ParseByte(R(j), k.bytes[i]) = R(j)
      BY <1>8, <3>2, ByteGoes DEF Goes
    <3> QED
      BY <3>2, <3>3 DEF ParseStep
  <2>3. \A i \in j..Len(k.bytes) : KeyRun(k)[i] = KeyRun(k)[j]
    <3>1. /\ IsRun(KeyRun(k), ParseStep, FirstState, k.bytes)
          /\ Fits(ParserState, Byte, ParseStep, FirstState, k.bytes)
      BY <1>2
    <3>2. j \in 0..Len(k.bytes)
      BY <2>1
    <3> QED
      BY <2>2, <3>1, <3>2, RunStays
  <2>4. R(m) = R(j)
    BY <2>1, <2>3 DEF R
  <2> QED
    BY <1>3, <1>8, <2>4
<1>9. \A j \in 0..m : j <= m - 1 => R(j).out = << >>
  <2> DEFINE S == {i \in Nat : i <= m - 1 => R(i).out = << >>}
  <2>1. 0 \in S
    BY <1>2 DEF FirstState
  <2>2. ASSUME NEW i \in Nat, i \in S PROVE i + 1 \in S
    <3> SUFFICES ASSUME i + 1 <= m - 1 PROVE R(i + 1).out = << >>
      OBVIOUS
    <3>1. i + 1 \in 1..(m - 1) /\ i + 1 \in 1..m /\ i <= m - 1 /\ (i + 1) - 1 = i
      BY <1>1
    <3>2. R(i + 1).state # "first"
      BY <1>7, <3>1
    <3>3. R(i + 1).out = R(i).out
      BY <1>5, <3>1, <3>2
    <3> QED
      BY <2>2, <3>1, <3>3
  <2> HIDE DEF S
  <2>3. \A i \in Nat : i \in S
    BY <2>1, <2>2, SetInduction
  <2> SUFFICES ASSUME NEW j \in 0..m, j <= m - 1 PROVE R(j).out = << >>
    OBVIOUS
  <2>4. j \in Nat
    BY <1>1
  <2>5. j \in S
    BY <2>3, <2>4
  <2> QED
    BY <2>5 DEF S
<1>10. ASSUME NEW j \in 1..(m - 1)
       PROVE  R(j).out = << >> /\ R(j).state \in {"control", "sequence", "number"}
  <2>1. j \in 0..m /\ j <= m - 1
    BY <1>1
  <2>2. R(j).state \in {"first", "control", "sequence", "number", "throws", "asserts"}
    BY <1>2, <2>1 DEF ParserState
  <2> QED
    BY <1>7, <1>8, <1>9, <2>1, <2>2
<1> QED
  BY <1>10 DEF R, m

\* The key Alt+[, whose bytes also start a sequence.
AltBracket == <<ESC, BRACKET>>

\* Every other known key ends in its event.
LEMMA YieldsKnown ==
    ASSUME NEW k \in Key, k.event # NoEvent, k.bytes # AltBracket
    PROVE  k.event \in Event /\ KeyRun(k)[Len(k.bytes)] = Yield(FirstState, k.event)
<1>1. k \in Sent /\ Len(k.bytes) \in 0..Len(k.bytes)
  BY SentBytes DEF Sent
<1> DEFINE m == Len(k.bytes)
           x == KeyRun(k)[m - 1]
           y == KeyRun(k)[m]
<1>2. y.state = "first" /\ y.out = <<k.event>>
  <2>1. y = FoldLeft(ParseByte, FirstState, k.bytes)
    BY <1>1, KeyRunIs
  <2> QED
    BY <2>1, KnownAssumption DEF AltBracket
<1>3. /\ m \in 1..m /\ m - 1 \in 0..m /\ k.bytes[m] \in Byte
      /\ x \in ParserState /\ y \in ParserState /\ y = ParseByte(x, k.bytes[m])
  <2>1. m \in Nat /\ m > 0 /\ \A i \in 1..m : k.bytes[i] \in Byte
    BY <1>1, SentBytes DEF Sent
  <2>2. m \in 1..m /\ m - 1 \in 0..m
    BY <2>1
  <2> QED
    BY <1>1, <2>1, <2>2, KeyRunIs
<1> HIDE DEF x, y
<1>4. PICK e \in Event : y = Yield(x, e)
  BY <1>2, <1>3, ByteGoes DEF Goes, Yields
<1>5. x.out = << >> /\ e = k.event
  <2>1. y.out = Append(x.out, e)
    BY <1>4 DEF Yield, FirstState
  <2>2. x.out \in Seq(Event)
    BY <1>3 DEF ParserState
  <2>3. Append(x.out, e) = <<k.event>>
    BY <1>2, <2>1
  <2>4. /\ Len(x.out) \in Nat
        /\ Len(Append(x.out, e)) = Len(x.out) + 1
        /\ Append(x.out, e)[Len(x.out) + 1] = e
    BY <2>2, LenProperties, AppendProperties
  <2>5. Len(<<k.event>>) = 1 /\ <<k.event>>[1] = k.event
    OBVIOUS
  <2>6. Len(x.out) = 0
    BY <2>3, <2>4, <2>5
  <2> QED
    BY <2>2, <2>3, <2>4, <2>5, <2>6, EmptySeq
<1>6. y = Yield(FirstState, k.event)
  BY <1>4, <1>5 DEF Yield, FirstState
<1> QED
  BY <1>4, <1>5, <1>6 DEF y

LEMMA AltBracketRun ==
    ASSUME NEW k \in Key, k.event # NoEvent, k.bytes = AltBracket
    PROVE  /\ Len(k.bytes) = 2 /\ k.event = from_character(BRACKET, Alt) /\ k.event \in Event
           /\ KeyRun(k)[1].state = "control" /\ KeyRun(k)[1].out = << >>
           /\ KeyRun(k)[2].state = "sequence" /\ KeyRun(k)[2].out = << >>
<1>1. /\ k \in Sent /\ Len(k.bytes) = 2 /\ k.bytes[1] = ESC /\ k.bytes[2] = BRACKET
  BY DEF Sent, AltBracket
<1>2. k.event = from_character(BRACKET, Alt) /\ k.event \in Event
  <2>1. BRACKET \in Byte
    BY DEF Byte, BRACKET
  <2> QED
    BY <2>1, KnownAssumption, CharacterTyped DEF AltBracket
<1>3. /\ KeyRun(k)[0] = FirstState
      /\ KeyRun(k)[1] = ParseByte(FirstState, ESC)
      /\ KeyRun(k)[2] = ParseByte(KeyRun(k)[1], BRACKET)
  <2>1. 1 \in 1..Len(k.bytes) /\ 2 \in 1..Len(k.bytes) /\ 1 - 1 = 0 /\ 2 - 1 = 1
    BY <1>1
  <2> QED
    BY <1>1, <2>1, KeyRunIs
<1>4. KeyRun(k)[1] = SetState(FirstState, "control")
  BY <1>3 DEF ParseByte, SetState, FirstState
<1>5. KeyRun(k)[1].state = "control" /\ KeyRun(k)[1].out = << >>
  BY <1>4 DEF SetState, FirstState
<1>6. KeyRun(k)[1] \in ParserState
  <2>1. 1 \in 0..Len(k.bytes)
    BY <1>1
  <2> QED
    BY <1>1, <2>1, KeyRunIs
<1>7. KeyRun(k)[2] = SetState(KeyRun(k)[1], "sequence")
  BY <1>3, <1>5 DEF ParseByte, SetState
<1>8. KeyRun(k)[2].state = "sequence" /\ KeyRun(k)[2].out = << >>
  BY <1>5, <1>6, <1>7 DEF SetState, ParserState
<1> QED
  BY <1>1, <1>2, <1>5, <1>8

\* Inside a known key the parser has yielded nothing, and it takes the key for
\* a sequence that has just started after ESC [ and nowhere else.
LEMMA InsideKnown ==
    ASSUME NEW k \in Key, k.event # NoEvent, NEW j \in 1..(Len(k.bytes) - 1)
    PROVE  /\ KeyRun(k)[j].out = << >>
           /\ KeyRun(k)[j].state \in {"control", "sequence", "number"}
           /\ KeyRun(k)[j].state = "sequence" <=> j = 2 /\ k.bytes[2] = BRACKET
<1>1. /\ k \in Sent /\ Len(k.bytes) \in Nat /\ \A i \in 1..Len(k.bytes) : k.bytes[i] \in Byte
  BY SentBytes DEF Sent
<1>2. ASSUME NEW i \in 1..(Len(k.bytes) - 1)
      PROVE  KeyRun(k)[i].out = << >> /\ KeyRun(k)[i].state \in {"control", "sequence", "number"}
  <2>1. CASE k.bytes # AltBracket
    BY <2>1, YieldsKnown, OneEvent
  <2>2. CASE k.bytes = AltBracket
    <3>1. Len(k.bytes) = 2
      BY <2>2, AltBracketRun
    <3>2. i = 1
      BY <3>1
    <3> QED
      BY <2>2, <3>2, AltBracketRun
  <2> QED
    BY <2>1, <2>2
<1>3. ASSUME NEW i \in 1..(Len(k.bytes) - 1)
      PROVE  /\ i - 1 \in 0..Len(k.bytes) /\ KeyRun(k)[i - 1] \in ParserState
             /\ k.bytes[i] \in Byte /\ KeyRun(k)[i] = ParseByte(KeyRun(k)[i - 1], k.bytes[i])
  <2>1. i \in 1..Len(k.bytes) /\ i - 1 \in 0..Len(k.bytes)
    BY <1>1
  <2> QED
    BY <1>1, <2>1, KeyRunIs
<1>4. ASSUME NEW i \in 1..(Len(k.bytes) - 1), KeyRun(k)[i].state = "control" PROVE i = 1
  <2>1. KeyRun(k)[i - 1].state = "first"
    BY <1>3, <1>4, ByteGoes DEF Goes
  <2>2. CASE i # 1
    <3>1. i - 1 \in 1..(Len(k.bytes) - 1)
      BY <1>1, <2>2
    <3> QED
      BY <1>2, <2>1, <3>1
  <2> QED
    BY <2>2
<1>5. 1 \in 1..(Len(k.bytes) - 1)
  BY <1>1
<1>6. KeyRun(k)[1].state = "control"
  <2>1. KeyRun(k)[1] = ParseByte(FirstState, k.bytes[1]) /\ k.bytes[1] \in Byte
    <3>1. 1 - 1 = 0
      OBVIOUS
    <3>2. KeyRun(k)[0] = FirstState
      BY <1>1, KeyRunIs
    <3> QED
      BY <1>3, <1>5, <3>1, <3>2
  <2>2. KeyRun(k)[1].state # "sequence"
    <3>1. FirstState.state # "control"
      BY DEF FirstState
    <3> QED
      BY <2>1, <3>1, FirstTyped, ByteGoes DEF Goes
  <2>3. CASE k.bytes[1] = ESC
    <3>1. KeyRun(k)[1] = SetState(FirstState, "control")
      BY <2>1, <2>3 DEF ParseByte, SetState, FirstState
    <3> QED
      BY <3>1 DEF SetState, FirstState
  <2>4. CASE k.bytes[1] # ESC
    <3>1. KeyRun(k)[1] = Yield(FirstState, from_character(k.bytes[1], 0))
      BY <2>1, <2>4, FirstTyped, ByteGoes DEF Goes, FirstState
    <3>2. KeyRun(k)[1].state = "first"
      BY <3>1 DEF Yield, FirstState
    <3> QED
      BY <1>2, <1>5, <3>2
  <2> QED
    BY <2>3, <2>4
<1>7. ASSUME KeyRun(k)[j].state = "sequence" PROVE j = 2 /\ k.bytes[2] = BRACKET
  <2>1. KeyRun(k)[j - 1].state = "control" /\ k.bytes[j] = BRACKET
    BY <1>3, <1>7, ByteGoes DEF Goes
  <2>2. j # 1
    BY <1>6, <1>7
  <2>3. j - 1 \in 1..(Len(k.bytes) - 1)
    BY <1>1, <2>2
  <2>4. j - 1 = 1
    BY <1>4, <2>1, <2>3
  <2>5. j = 2
    BY <2>4
  <2> QED
    BY <2>1, <2>5
<1>8. ASSUME j = 2, k.bytes[2] = BRACKET PROVE KeyRun(k)[j].state = "sequence"
  <2>1. 2 - 1 = 1
    OBVIOUS
  <2> QED
    BY <1>3, <1>6, <1>8, <2>1, ByteGoes DEF Goes
<1> QED
  BY <1>2, <1>7, <1>8

-----------------------------------------------------------------------------
(* The parser at a place of the buffer.                                    *)
Place(buf, p) == IF p = 0 \/ p < buf[p].at \/ Ends(buf[p]) THEN FirstState
                 ELSE KeyRun(buf[p].key)[buf[p].at]

\* What Meaning() says of one byte.
MeaningOf(buf, p) ==
    LET b == buf[p]
    IN  CASE p < b.at -> <<from_character(b.c, 0)>>
          [] p >= b.at /\ b.at = Len(b.key.bytes) -> <<b.key.event>>
          [] OTHER -> IF p = Len(buf) /\ b.at = 2 /\ b.c = BRACKET
                      THEN <<from_character(BRACKET, Alt)>> ELSE << >>

LEMMA NoEscape ==
    ASSUME NEW k \in Sent, NEW i \in 2..Len(k.bytes)
    PROVE  k.bytes[i] # ESC
<1>1. CASE k \in Key
  BY <1>1, KnownAssumption
<1>2. CASE k = Reply
  <2> DEFINE b == Reply.bytes
             n == Len(b)
  <2>1. PICK h \in 3..n - 1 :
            /\ b[1] = ESC /\ b[2] = BRACKET /\ b[h] = SEMICOLON /\ b[n] = 82
            /\ \A j \in 3..n - 1 : j = h \/ b[j] \in Digit
    BY ReplyAssumption
  <2>2. n \in Nat
    BY <1>2, SentBytes
  <2> HIDE DEF b
  <2>3. i = 2 \/ i \in 3..n - 1 \/ i = n
    BY <1>2, <2>2 DEF b
  <2>4. BRACKET # ESC /\ SEMICOLON # ESC /\ 82 # ESC /\ ESC \notin Digit
    BY DEF ESC, BRACKET, SEMICOLON, Digit
  <2>5. b[i] # ESC
    <3>1. CASE i = 2
      BY <2>1, <2>4, <3>1
    <3>2. CASE i = n
      BY <2>1, <2>4, <3>2
    <3>3. CASE i \in 3..n - 1
      BY <2>1, <2>4, <3>3
    <3> QED
      BY <2>3, <3>1, <3>2, <3>3
  <2> QED
    BY <1>2, <2>5 DEF b
<1> QED
  BY <1>1, <1>2 DEF Sent

LEMMA ByteOf ==
    ASSUME NEW buf \in Seq(Tagged), Joined(buf), Known(buf, Key \cup {Reply}),
           NEW p \in 1..Len(buf)
    PROVE  LET b == buf[p]
           IN  /\ b.key \in Sent /\ b.at \in 1..Len(b.key.bytes) /\ Len(b.key.bytes) \in Nat
               /\ b.c = b.key.bytes[b.at] /\ b.c \in Byte
               /\ p < b.at => b.c # ESC
               /\ p >= b.at => /\ b.key \in Key /\ b.key.event # NoEvent
                               /\ b.key.bytes = AltBracket /\ b.at = 2 => p = Len(buf)
<1> DEFINE b == buf[p]
<1>1. b \in Tagged
  OBVIOUS
<1>2. b.at \in 1..Len(b.key.bytes) /\ b.c = b.key.bytes[b.at]
  BY DEF Joined
<1> HIDE DEF b
<1>3. b.key \in Sent
  BY <1>1 DEF Tagged
<1>4. Len(b.key.bytes) \in Nat /\ b.c \in Byte
  BY <1>2, <1>3, SentBytes
<1>5. ASSUME p < b.at PROVE b.c # ESC
  <2>1. b.at \in 2..Len(b.key.bytes)
    BY <1>2, <1>4, <1>5
  <2> QED
    BY <1>2, <1>3, <2>1, NoEscape
<1>6. ASSUME p >= b.at
      PROVE  /\ b.key \in Key /\ b.key.event # NoEvent
             /\ b.key.bytes = AltBracket /\ b.at = 2 => p = Len(buf)
  <2>1. /\ b.key.event # NoEvent
        /\ b.key.bytes = <<ESC, BRACKET>> /\ b.at = 2 => p = Len(buf)
    BY <1>3, <1>6 DEF Known, Sent, b
  <2>2. b.key # Reply
    BY <2>1, KeyAssumption
  <2> QED
    BY <1>3, <2>1, <2>2 DEF Sent, AltBracket
<1> QED
  BY <1>2, <1>3, <1>4, <1>5, <1>6 DEF b

LEMMA PlaceBefore ==
    ASSUME NEW buf \in Seq(Tagged), Joined(buf), Known(buf, Key \cup {Reply}),
           NEW p \in 0..(Len(buf) - 1)
    PROVE  Place(buf, p) = IF p + 1 < buf[p + 1].at THEN FirstState
                           ELSE KeyRun(buf[p + 1].key)[buf[p + 1].at - 1]
<1>0. Len(buf) \in Nat /\ p \in Nat
  BY LenProperties
<1>1. p + 1 \in 1..Len(buf)
  BY <1>0
<1> DEFINE d == buf[p + 1]
<1>2. d.key \in Sent /\ d.at \in Nat /\ d.at >= 1
  <2>1. d.key \in Sent /\ d.at \in 1..Len(d.key.bytes) /\ Len(d.key.bytes) \in Nat
    BY <1>1, ByteOf
  <2> HIDE DEF d
  <2> QED
    BY <2>1
<1>3. KeyRun(d.key)[0] = FirstState
  BY <1>2, KeyRunIs
<1>4. CASE p = 0
  <2>1. p + 1 >= d.at => d.at - 1 = 0
    BY <1>2, <1>4
  <2>2. p + 1 < d.at \/ p + 1 >= d.at
    BY <1>0, <1>2
  <2> HIDE DEF d
  <2>3. Place(buf, p) = FirstState
    BY <1>4 DEF Place
  <2>4. Place(buf, p) = IF p + 1 < d.at THEN FirstState ELSE KeyRun(d.key)[d.at - 1]
    BY <1>3, <2>1, <2>2, <2>3
  <2> QED
    BY <2>4 DEF d
<1>5. CASE p # 0
  <2> DEFINE b == buf[p]
  <2>1. p \in 1..Len(buf) /\ p < Len(buf)
    BY <1>0, <1>1, <1>5
  <2>2. b.at \in Nat /\ b.at >= 1
    <3>1. b.at \in 1..Len(b.key.bytes) /\ Len(b.key.bytes) \in Nat
      BY <2>1, ByteOf
    <3> HIDE DEF b
    <3> QED
      BY <3>1
  <2>3. IF Ends(b) THEN d.at = 1 ELSE d.key = b.key /\ d.at = b.at + 1
    BY <2>1 DEF Joined
  <2> HIDE DEF b, d
  <2>4. Place(buf, p) = IF p < b.at \/ Ends(b) THEN FirstState ELSE KeyRun(b.key)[b.at]
    BY <1>5 DEF Place, b
  <2>5. CASE Ends(b)
    <3>1. d.at = 1 /\ ~(p + 1 < d.at) /\ d.at - 1 = 0
      BY <1>0, <2>3, <2>5
    <3>2. KeyRun(d.key)[d.at - 1] = FirstState
      BY <1>3, <3>1
    <3> QED
      BY <2>4, <2>5, <3>1, <3>2 DEF d
  <2>6. CASE ~Ends(b)
    <3>1. d.key = b.key /\ d.at - 1 = b.at /\ (p + 1 < d.at <=> p < b.at)
      BY <1>0, <2>2, <2>3, <2>6
    <3> QED
      BY <2>4, <2>6, <3>1 DEF d
  <2> QED
    BY <2>5, <2>6
<1> QED
  BY <1>4, <1>5

LEMMA YieldIsMoved ==
    ASSUME NEW e \in Event
    PROVE  /\ Yield(FirstState, e) = Moved(<<e>>, FirstState)
           /\ Yield(FirstState, e).out = <<e>> /\ Yield(FirstState, e).state = "first"
<1>1. Yield(FirstState, e) = Rec("first", NoParams, 1, Append(<< >>, e))
  <2>1. ASSUME NEW p, NEW u
        PROVE  [[state |-> "first", params |-> p, current |-> 1, out |-> << >>] EXCEPT !.out = u]
                 = Rec("first", p, 1, u)
    BY DEF Rec
  <2>2. FirstState.out = << >>
    BY DEF FirstState
  <2> QED
    BY <2>1, <2>2 DEF Yield, FirstState
<1>2. Moved(<<e>>, FirstState) = Rec("first", NoParams, 1, <<e>> \o << >>)
  BY DEF Moved, FirstState, Rec
<1>3. Append(<< >>, e) = <<e>> /\ <<e>> \o << >> = <<e>>
  OBVIOUS
<1>4. Yield(FirstState, e) = Rec("first", NoParams, 1, <<e>>)
  BY <1>1, <1>3
<1>5. Yield(FirstState, e) = Moved(<<e>>, FirstState)
  BY <1>2, <1>3, <1>4
<1> QED
  BY <1>4, <1>5 DEF Rec

LEMMA MovedNone ==
    ASSUME NEW x \in ParserState, x.out = << >>
    PROVE  Moved(<< >>, x) = x
<1>1. Moved(<< >>, x) = Rec(x.state, x.params, x.current, << >> \o x.out)
  BY DEF Moved, Rec
<1>2. << >> \o x.out = << >>
  OBVIOUS
<1>3. x = Rec(x.state, x.params, x.current, x.out)
  BY DEF ParserState, Rec
<1> QED
  BY <1>1, <1>2, <1>3

\* What ParseBuffer() adds at the end of the buffer.
Final(y) == IF y.state = "sequence" THEN Append(y.out, from_character(BRACKET, Alt)) ELSE y.out
EndsWell(y, u) == y.state \notin {"throws", "asserts"} /\ Final(y) = u

LEMMA PlaceTyped ==
    ASSUME NEW buf \in Seq(Tagged), Joined(buf), Known(buf, Key \cup {Reply}),
           NEW p \in 0..Len(buf)
    PROVE  Place(buf, p) \in ParserState
<1>1. CASE p = 0 \/ p < buf[p].at \/ Ends(buf[p])
  BY <1>1, FirstTyped DEF Place
<1>2. CASE ~(p = 0 \/ p < buf[p].at \/ Ends(buf[p]))
  <2>1. p \in 1..Len(buf)
    BY <1>2
  <2>2. buf[p].key \in Sent /\ buf[p].at \in 0..Len(buf[p].key.bytes)
    <3>1. /\ buf[p].key \in Sent /\ buf[p].at \in 1..Len(buf[p].key.bytes)
          /\ Len(buf[p].key.bytes) \in Nat
      BY <2>1, ByteOf
    <3> QED
      BY <3>1
  <2> QED
    BY <1>2, <2>2, KeyRunIs DEF Place
<1> QED
  BY <1>1, <1>2

LEMMA YieldEnds ==
    ASSUME NEW e \in Event
    PROVE  EndsWell(Yield(FirstState, e), <<e>>)
BY YieldIsMoved DEF EndsWell, Final

\* One byte further: the parser is at the next place, or, with the last byte,
\* the buffer has been read.
LEMMA NextByte ==
    ASSUME NEW buf \in Seq(Tagged), Joined(buf), Known(buf, Key \cup {Reply}),
           NEW p \in 0..(Len(buf) - 1)
    PROVE  LET y == ParseByte(Place(buf, p), buf[p + 1].c)
           IN  /\ MeaningOf(buf, p + 1) \in Seq(Event)
               /\ p + 1 < Len(buf) =>
                      y = Moved(MeaningOf(buf, p + 1), Place(buf, p + 1))
               /\ p + 1 = Len(buf) => EndsWell(y, MeaningOf(buf, p + 1))
<1> DEFINE n == Len(buf)
           b == buf[p + 1]
           x == Place(buf, p)
           y == ParseByte(x, b.c)
           mean == MeaningOf(buf, p + 1)
           next == Place(buf, p + 1)
           Goal == /\ mean \in Seq(Event)
                   /\ p + 1 < n => y = Moved(mean, next)
                   /\ p + 1 = n => EndsWell(y, mean)
<1> SUFFICES Goal
  OBVIOUS
<1>1. n \in Nat /\ p \in Nat /\ p + 1 \in 1..n /\ p + 1 # 0 /\ p + 1 <= n
  BY LenProperties
<1>2. /\ b.key \in Sent /\ b.at \in 1..Len(b.key.bytes) /\ Len(b.key.bytes) \in Nat
      /\ b.c = b.key.bytes[b.at] /\ b.c \in Byte
      /\ p + 1 < b.at => b.c # ESC
      /\ p + 1 >= b.at => /\ b.key \in Key /\ b.key.event # NoEvent
                          /\ b.key.bytes = AltBracket /\ b.at = 2 => p + 1 = n
  BY <1>1, ByteOf
<1>3. x = IF p + 1 < b.at THEN FirstState ELSE KeyRun(b.key)[b.at - 1]
  BY PlaceBefore
<1>4. mean = CASE p + 1 < b.at -> <<from_character(b.c, 0)>>
               [] p + 1 >= b.at /\ b.at = Len(b.key.bytes) -> <<b.key.event>>
               [] OTHER -> IF p + 1 = n /\ b.at = 2 /\ b.c = BRACKET
                           THEN <<from_character(BRACKET, Alt)>> ELSE << >>
  BY DEF MeaningOf
<1>5. next = IF p + 1 < b.at \/ Ends(b) THEN FirstState ELSE KeyRun(b.key)[b.at]
  BY <1>1 DEF Place
<1> HIDE DEF n, b, x, mean, next
<1>6. b.at \in Nat /\ b.at >= 1
  BY <1>2
<1>7. CASE p + 1 < b.at
  <2>1. from_character(b.c, 0) \in Event
    BY <1>2, CharacterTyped
  <2>2. x = FirstState /\ next = FirstState
    BY <1>3, <1>5, <1>7
  <2>3. y = Yield(FirstState, from_character(b.c, 0))
    BY <1>2, <1>7, <2>2, FirstTyped, ByteGoes DEF Goes, FirstState
  <2>4. mean = <<from_character(b.c, 0)>>
    BY <1>4, <1>7
  <2>5. mean \in Seq(Event)
    BY <2>1, <2>4
  <2>6. y = Moved(mean, next) /\ EndsWell(y, mean)
    BY <2>1, <2>2, <2>3, <2>4, YieldIsMoved, YieldEnds
  <2> QED
    BY <2>5, <2>6
<1>8. CASE p + 1 >= b.at
  <2> DEFINE k == b.key
             m == Len(k.bytes)
             R(j) == KeyRun(k)[j]
  <2>1. /\ k \in Key /\ k.event # NoEvent /\ ~(p + 1 < b.at)
        /\ k.bytes = AltBracket /\ b.at = 2 => p + 1 = n
    BY <1>1, <1>2, <1>6, <1>8
  <2>2. x = R(b.at - 1)
    BY <1>3, <2>1
  <2>3. y = R(b.at)
    <3>1. R(b.at) = ParseByte(R(b.at - 1), k.bytes[b.at])
      BY <1>2, KeyRunIs
    <3> QED
      BY <1>2, <2>2, <3>1
  <2>4. R(b.at) \in ParserState
    <3>1. b.at \in 0..m
      BY <1>2
    <3> QED
      BY <1>2, <3>1, KeyRunIs
  <2>5. mean = IF b.at = m THEN <<k.event>>
               ELSE IF p + 1 = n /\ b.at = 2 /\ b.c = BRACKET
                    THEN <<from_character(BRACKET, Alt)>> ELSE << >>
    BY <1>4, <1>8, <2>1
  <2>6. next = IF b.at = m THEN FirstState ELSE R(b.at)
    BY <1>5, <2>1 DEF Ends
  <2>7. m \in Nat /\ b.at \in 1..m /\ b.c = k.bytes[b.at]
    BY <1>2
  <2> HIDE DEF y, k, m, R
  <2>8. CASE b.at = m /\ k.bytes # AltBracket
    <3>1. k.event \in Event /\ R(m) = Yield(FirstState, k.event)
      BY <2>1, <2>8, YieldsKnown DEF R, m
    <3>2. y = Yield(FirstState, k.event) /\ next = FirstState /\ mean = <<k.event>>
      BY <2>3, <2>5, <2>6, <2>8, <3>1
    <3>3. mean \in Seq(Event)
      BY <3>1, <3>2
    <3>4. y = Moved(mean, next) /\ EndsWell(y, mean)
      BY <3>1, <3>2, YieldIsMoved, YieldEnds
    <3> QED
      BY <3>3, <3>4
  <2>9. CASE b.at = m /\ k.bytes = AltBracket
    <3>1. /\ m = 2 /\ k.event = from_character(BRACKET, Alt) /\ k.event \in Event
          /\ R(2).state = "sequence" /\ R(2).out = << >>
      BY <2>1, <2>9, AltBracketRun DEF R, m
    <3>2. p + 1 = n /\ y.state = "sequence" /\ y.out = << >> /\ mean = <<k.event>>
      BY <2>1, <2>3, <2>5, <2>9, <3>1
    <3>3. mean \in Seq(Event)
      BY <3>1, <3>2
    <3>4. Append(<< >>, k.event) = <<k.event>>
      OBVIOUS
    <3>5. EndsWell(y, mean)
      BY <3>1, <3>2, <3>4 DEF EndsWell, Final
    <3>6. ~(p + 1 < n)
      BY <1>1, <3>2
    <3> QED
      BY <3>3, <3>5, <3>6
  <2>10. CASE b.at # m
    <3>1. b.at \in 1..(m - 1)
      BY <2>7, <2>10
    <3>2. /\ R(b.at).out = << >> /\ R(b.at).state \in {"control", "sequence", "number"}
          /\ R(b.at).state = "sequence" <=> b.at = 2 /\ k.bytes[2] = BRACKET
      BY <2>1, <3>1, InsideKnown DEF R, m
    <3>3. y = R(b.at) /\ next = R(b.at)
      BY <2>3, <2>6, <2>10
    <3>4. CASE p + 1 = n /\ b.at = 2 /\ b.c = BRACKET
      <4>1. mean = <<from_character(BRACKET, Alt)>> /\ y.state = "sequence" /\ y.out = << >>
        BY <2>5, <2>7, <2>10, <3>2, <3>3, <3>4
      <4>2. from_character(BRACKET, Alt) \in Event
        BY CharacterTyped DEF Byte, BRACKET
      <4>3. mean \in Seq(Event)
        BY <4>1, <4>2
      <4>4. Append(<< >>, from_character(BRACKET, Alt)) = <<from_character(BRACKET, Alt)>>
        OBVIOUS
      <4>5. EndsWell(y, mean)
        BY <4>1, <4>4 DEF EndsWell, Final
      <4>6. ~(p + 1 < n)
        BY <1>1, <3>4
      <4> QED
        BY <4>3, <4>5, <4>6
    <3>5. CASE ~(p + 1 = n /\ b.at = 2 /\ b.c = BRACKET)
      <4>1. mean = << >>
        BY <2>5, <2>10, <3>5
      <4>2. mean \in Seq(Event)
        BY <4>1, EmptySeq
      <4>3. y = Moved(mean, next)
        BY <2>4, <3>2, <3>3, <4>1, MovedNone
      <4>4. p + 1 = n => y.state # "sequence"
        BY <2>7, <3>2, <3>3, <3>5
      <4>5. p + 1 = n => EndsWell(y, mean)
        BY <3>2, <3>3, <4>1, <4>4 DEF EndsWell, Final
      <4> QED
        BY <4>2, <4>3, <4>5
    <3> QED
      BY <3>4, <3>5
  <2> QED
    BY <2>8, <2>9, <2>10
<1> QED
  BY <1>1, <1>6, <1>7, <1>8

LEMMA MovedTwice ==
    ASSUME NEW o \in Seq(Event), NEW u \in Seq(Event), NEW x \in ParserState
    PROVE  Moved(o, Moved(u, x)) = Moved(o \o u, x)
<1>1. x.out \in Seq(Event)
  BY DEF ParserState
<1>2. ASSUME NEW w \in Seq(Event) PROVE (o \o u) \o w = o \o (u \o w)
  BY ConcatAssociative
<1>3. /\ Moved(o, Moved(u, x)) = Rec(x.state, x.params, x.current, o \o (u \o x.out))
      /\ Moved(o \o u, x) = Rec(x.state, x.params, x.current, (o \o u) \o x.out)
  BY DEF Moved, Rec
<1> QED
  BY <1>1, <1>2, <1>3

LEMMA EndsMoved ==
    ASSUME NEW o \in Seq(Event), NEW u, NEW y \in ParserState, EndsWell(y, u)
    PROVE  EndsWell(Moved(o, y), o \o u)
<1>1. y.out \in Seq(Event) /\ from_character(BRACKET, Alt) \in Event
  BY CharacterTyped DEF ParserState, Byte, BRACKET
<1>2. Append(o \o y.out, from_character(BRACKET, Alt))
        = o \o Append(y.out, from_character(BRACKET, Alt))
  BY <1>1, AppendMoved
<1>3. Moved(o, y).state = y.state /\ Moved(o, y).out = o \o y.out
  BY DEF Moved
<1> QED
  BY <1>2, <1>3 DEF EndsWell, Final

\* Byte by byte, the parser has yielded the meaning of what it has read.
LEMMA BufferMeans ==
    ASSUME NEW buf \in Seq(Tagged), Len(buf) > 0, Joined(buf), Known(buf, Key \cup {Reply}),
           NEW F, IsRun(F, ParseStep, FirstState, Codes(buf))
    PROVE  F[Len(buf)] \in ParserState /\ EndsWell(F[Len(buf)], Meaning(buf))
<1> DEFINE n == Len(buf)
           E == [p \in 1..Len(buf) |-> MeaningOf(buf, p)]
           At(p) == Place(buf, p)
<1>1. n \in Nat /\ n > 0
  BY LenProperties
<1>2. /\ Codes(buf) \in Seq(Byte) /\ Len(Codes(buf)) = n
      /\ \A i \in 1..n : Codes(buf)[i] = buf[i].c /\ buf[i].c \in Byte
  BY CodesTyped
<1>3. Fits(ParserState, Byte, ParseStep, FirstState, Codes(buf))
  BY <1>2, FirstTyped, ParseFold
<1>4. \A p \in 0..n : F[p] \in ParserState
  BY <1>2, <1>3, RunUnique
<1>5. ASSUME NEW p \in 0..(n - 1)
      PROVE  /\ p + 1 \in 1..n /\ F[p + 1] = ParseByte(F[p], buf[p + 1].c)
             /\ E[p + 1] = MeaningOf(buf, p + 1) /\ E[p + 1] \in Seq(Event)
             /\ p + 1 < n => ParseByte(At(p), buf[p + 1].c) = Moved(E[p + 1], At(p + 1))
             /\ p + 1 = n => EndsWell(ParseByte(At(p), buf[p + 1].c), E[p + 1])
  <2>1. p + 1 \in 1..n /\ (p + 1) - 1 = p /\ p \in 0..n
    BY <1>1
  <2>2. E[p + 1] = MeaningOf(buf, p + 1)
    BY <2>1
  <2> HIDE DEF E
  <2>3. F[p + 1] = ParseStep[<<F[p], Codes(buf)[p + 1]>>]
    BY <1>2, <2>1 DEF IsRun
  <2>4. F[p + 1] = ParseByte(F[p], buf[p + 1].c)
    BY <1>2, <1>4, <2>1, <2>3 DEF ParseStep
  <2>5. p \in 0..(Len(buf) - 1)
    OBVIOUS
  <2> QED
    BY <2>1, <2>2, <2>4, <2>5, NextByte
<1>6. ASSUME NEW p \in 1..n PROVE E[p] \in Seq(Event)
  <2>1. p - 1 \in 0..(n - 1) /\ (p - 1) + 1 = p
    BY <1>1
  <2> HIDE DEF E, n
  <2> QED
    BY <1>5, <2>1
<1>7. E \in Seq(Seq(Event)) /\ Len(E) = n
  <2>1. E = [p \in 1..n |-> E[p]]
    OBVIOUS
  <2>2. DOMAIN E = 1..n
    OBVIOUS
  <2> HIDE DEF E
  <2>3. E \in [1..n -> Seq(Event)]
    BY <1>6, <2>1
  <2> HIDE DEF n
  <2> QED
    BY <1>1, <2>2, <2>3
<1>8. Meaning(buf) = FlattenSeq(E)
  BY DEF Meaning, MeaningOf
<1> HIDE DEF n, E, At
<1>9. PICK M : IsRun(M, Joins(Event), << >>, E)
  BY <1>7, JoinsFits, RunExists
<1>10. M[0] = << >> /\ \A p \in 0..n : M[p] \in Seq(Event)
  <2>1. M[0] = << >>
    BY <1>9 DEF IsRun
  <2>2. Fits(Seq(Event), Seq(Event), Joins(Event), << >>, E)
    BY <1>7, JoinsFits
  <2> QED
    BY <1>7, <1>9, <2>1, <2>2, RunUnique
<1>11. ASSUME NEW p \in 0..(n - 1) PROVE M[p + 1] = M[p] \o E[p + 1]
  <2>1. p + 1 \in 1..n /\ (p + 1) - 1 = p /\ p \in 0..n
    BY <1>1
  <2>2. M[p + 1] = Joins(Event)[<<M[p], E[p + 1]>>]
    BY <1>7, <1>9, <2>1 DEF IsRun
  <2>3. M[p] \in Seq(Event) /\ E[p + 1] \in Seq(Event)
    BY <1>6, <1>10, <2>1
  <2> QED
    BY <2>2, <2>3 DEF Joins
<1>12. Meaning(buf) = M[n]
  BY <1>7, <1>8, <1>9, FlattenRun
<1>13. \A p \in 0..n : At(p) \in ParserState
  BY PlaceTyped DEF At, n
<1>14. ASSUME NEW p \in 0..(n - 1), F[p] = Moved(M[p], At(p))
       PROVE  F[p + 1] = Moved(M[p], ParseByte(At(p), buf[p + 1].c))
  <2>1. p \in 0..n /\ p + 1 \in 1..n
    BY <1>1
  <2>2. M[p] \in Seq(Event) /\ At(p) \in ParserState /\ buf[p + 1].c \in Byte
    BY <1>2, <1>10, <1>13, <2>1
  <2>3. F[p + 1] = ParseByte(Moved(M[p], At(p)), buf[p + 1].c)
    BY <1>5, <1>14
  <2> QED
    BY <2>2, <2>3, ParseMoved
<1>15. \A p \in 0..(n - 1) : F[p] = Moved(M[p], At(p))
  <2> DEFINE S == {p \in Nat : p <= n - 1 => F[p] = Moved(M[p], At(p))}
  <2>1. 0 \in S
    <3>1. F[0] = FirstState
      BY DEF IsRun
    <3>2. At(0) = FirstState
      BY DEF At, Place
    <3>3. FirstState.out = << >>
      BY DEF FirstState
    <3>4. Moved(<< >>, FirstState) = FirstState
      BY <3>3, FirstTyped, MovedNone
    <3>5. F[0] = Moved(M[0], At(0))
      BY <1>10, <3>1, <3>2, <3>4
    <3> QED
      BY <3>5
  <2>2. ASSUME NEW p \in Nat, p \in S PROVE p + 1 \in S
    <3> SUFFICES ASSUME p + 1 <= n - 1 PROVE F[p + 1] = Moved(M[p + 1], At(p + 1))
      OBVIOUS
    <3>1. p \in 0..(n - 1) /\ p + 1 < n /\ p <= n - 1 /\ p \in 0..n /\ p + 1 \in 0..n /\ p + 1 \in 1..n
      BY <1>1
    <3>2. F[p] = Moved(M[p], At(p))
      BY <2>2, <3>1
    <3>3. F[p + 1] = Moved(M[p], ParseByte(At(p), buf[p + 1].c))
      BY <1>14, <3>1, <3>2
    <3>4. ParseByte(At(p), buf[p + 1].c) = Moved(E[p + 1], At(p + 1))
      BY <1>5, <3>1
    <3>5. M[p] \in Seq(Event) /\ E[p + 1] \in Seq(Event) /\ At(p + 1) \in ParserState
      BY <1>6, <1>10, <1>13, <3>1
    <3>6. F[p + 1] = Moved(M[p] \o E[p + 1], At(p + 1))
      BY <3>3, <3>4, <3>5, MovedTwice
    <3>7. M[p + 1] = M[p] \o E[p + 1]
      BY <1>11, <3>1
    <3> QED
      BY <3>6, <3>7
  <2> HIDE DEF S
  <2>3. \A p \in Nat : p \in S
    BY <2>1, <2>2, SetInduction
  <2> SUFFICES ASSUME NEW p \in 0..(n - 1) PROVE F[p] = Moved(M[p], At(p))
    OBVIOUS
  <2>4. p \in Nat /\ p <= n - 1
    BY <1>1
  <2>5. p \in S
    BY <2>3, <2>4
  <2> QED
    BY <2>4, <2>5 DEF S
<1>16. n - 1 \in 0..(n - 1) /\ (n - 1) + 1 = n /\ n - 1 \in 0..n /\ n \in 0..n /\ n \in 1..n
  BY <1>1
<1> DEFINE y == ParseByte(At(n - 1), buf[(n - 1) + 1].c)
<1>17. F[n] = Moved(M[n - 1], y)
  BY <1>14, <1>15, <1>16
<1>18. EndsWell(y, E[n])
  BY <1>5, <1>16
<1>19. y \in ParserState /\ M[n - 1] \in Seq(Event)
  BY <1>2, <1>10, <1>13, <1>16, ParseTyped
<1> HIDE DEF y
<1>20. EndsWell(F[n], M[n - 1] \o E[n])
  BY <1>17, <1>18, <1>19, EndsMoved
<1>21. M[n] = M[n - 1] \o E[n]
  BY <1>11, <1>16
<1>22. EndsWell(F[n], Meaning(buf)) /\ F[n] \in ParserState
  BY <1>4, <1>12, <1>16, <1>20, <1>21
<1> QED
  BY <1>22 DEF n

LEMMA BufferRead ==
    ASSUME NEW buf \in Seq(Tagged), Len(buf) > 0, Joined(buf), Known(buf, Key \cup {Reply}),
           stream = "event_stream"
    PROVE  ReadBuffer(buf).events = Meaning(buf) /\ ReadBuffer(buf).gen = "live"
<1> DEFINE p == FoldLeft(ParseByte, FirstState, Codes(buf))
<1>1. Codes(buf) \in Seq(Byte) /\ Len(Codes(buf)) = Len(buf)
  BY CodesTyped
<1>2. /\ Fits(ParserState, Byte, ParseStep, FirstState, Codes(buf))
      /\ p = Steps(ParseStep, FirstState, Codes(buf))
  BY <1>1, FirstTyped, ParseFold
<1>3. ReadBuffer(buf) =
        [events |-> IF p.state = "sequence" THEN Append(p.out, from_character(BRACKET, Alt))
                                            ELSE p.out,
         gen |-> IF p.state \in {"throws", "asserts"} THEN p.state ELSE "live"]
  BY DEF ReadBuffer, ParseBuffer
<1> HIDE DEF p
<1>4. PICK F : IsRun(F, ParseStep, FirstState, Codes(buf))
  BY <1>2, RunExists
<1>5. p = F[Len(buf)]
  BY <1>1, <1>2, <1>4, StepsOfRun
<1>6. EndsWell(p, Meaning(buf))
  BY <1>4, <1>5, BufferMeans
<1> QED
  BY <1>3, <1>6 DEF EndsWell, Final

LEMMA ReadsKnown ==
    ASSUME StreamInv, ReadEvents, stream = "event_stream",
           Known(SubSeq(input, 1, Len(input) - Len(input')), Key \cup {Reply})
    PROVE  events' = Meaning(SubSeq(input, 1, Len(input) - Len(input'))) /\ gen' = "live"
<1>1. PICK n \in Readable :
          /\ input' = After(input, n)
          /\ events' = ReadBuffer(SubSeq(input, 1, n)).events
          /\ gen' = ReadBuffer(SubSeq(input, 1, n)).gen
  BY DEF ReadEvents
<1>2. InputOK /\ Len(input) \in Nat
  BY LenProperties DEF StreamInv, InputOK
<1>3. n \in 0..Len(input) /\ n > 0
  BY <1>2, KeyAssumption DEF Readable
<1>4. Len(input') = Len(input) - n
  BY <1>1, <1>2, <1>3, RestOfInput
<1>5. Len(input) - Len(input') = n
  BY <1>2, <1>3, <1>4
<1> DEFINE buf == SubSeq(input, 1, n)
<1>6. buf \in Seq(Tagged) /\ Joined(buf) /\ Len(buf) = n
  BY <1>2, <1>3, StartOfInput
<1>7. Known(buf, Key \cup {Reply})
  BY <1>5
<1>8. events' = ReadBuffer(buf).events /\ gen' = ReadBuffer(buf).gen
  BY <1>1
<1> HIDE DEF buf
<1>9. events' = Meaning(buf) /\ gen' = "live"
  BY <1>3, <1>6, <1>7, <1>8, BufferRead
<1> QED
  BY <1>5, <1>9 DEF buf

(***************************************************************************)
(* event_stream() yields, for every buffer of known keys, whatever they    *)
(* are, the event of each key it holds whole, and of a key that a read or  *)
(* a flush has cut what Meaning() says; no assertion and no exception ends *)
(* it there.                                                               *)
(***************************************************************************)
THEOREM AlwaysReadsAsTyped == Spec => ReadsAsTyped
<1>1. StreamInv /\ [Next]_vars
        => [ReadEvents /\ stream = "event_stream" =>
              LET buf == SubSeq(input, 1, Len(input) - Len(input'))
              IN  Known(buf, Key \cup {Reply}) =>
                      events' = Meaning(buf) /\ gen' = "live"]_streamVars
  BY ReadsKnown
<1> QED
  BY <1>1, InputInvariantHolds, PTL DEF Spec, ReadsAsTyped

-----------------------------------------------------------------------------
(* When the stream may end.                                                *)
Plain(s) == \A i \in 1..Len(s) : s[i].key \in Key

\* cursor_position() does not take what is typed for the reply.  The first
\* key may be cut at its start, the last one at its end.
KeysSpellNoReply ==
    \A s \in Seq(Tagged) : Joined(s) /\ Plain(s) => AfterReading(NoReply, s).state # "end"

PlainAfter(s, k) == \A i \in 1..Len(s) : i > k => s[i].key \in Key

\* The bytes of one reply at most, with its R last and nothing in between.
OneReply(s) == \A i, j \in 1..Len(s) :
    i < j /\ s[i].key \notin Key /\ s[j].key \notin Key =>
        s[i].c # 82 (*R*) /\ \A h \in i..j : s[h].key \notin Key

\* Only keys are left when the loop ends.
EndsPlain(q, s) == \E F :
    /\ IsRun(F, ReplyStep, q, Codes(s))
    /\ \A k \in 0..Len(s) : F[k].state = "end" => PlainAfter(s, k)

\* Nothing that the parser does not know is left to be read by it.
WarnInv ==
    ~warned => /\ gen = "live"
               /\ program # "asking" => Plain(input)
               /\ program = "asking" =>
                      /\ OneReply(input) /\ EndsPlain(reply, input)
                      /\ reply.state = "start" => reply = NoReply

\* The loop ends with an R, and never comes back to where it starts.
LEMMA EndIsR ==
    ASSUME NEW q \in CursorState, NEW c \in Byte, q.state # "end", c # 82
    PROVE  ReplyByte(q, c).state # "end"
<1>1. ASSUME NEW f \in {"row", "col"}, NEW stop, stop \notin Digit,
             NEW next, c = stop => next # "end"
      PROVE  InReply(q, f, c, stop, next).state # "end"
  <2>1. CASE c \in Digit
    <3>1. ASSUME NEW v PROVE [q EXCEPT ![f] = v].state = q.state
      <4>1. f # "state" /\ "state" \in DOMAIN q
        BY DEF CursorState
      <4> QED
        BY <4>1
    <3> DEFINE v == ((q[f] * 10 + c) - 48) % U16
    <3>2. InReply(q, f, c, stop, next) = [q EXCEPT ![f] = v]
      BY <1>1, <2>1 DEF InReply
    <3> HIDE DEF v
    <3> QED
      BY <3>1, <3>2
  <2>2. CASE c \notin Digit
    BY <1>1, <2>2 DEF InReply, CursorState
  <2> QED
    BY <2>1, <2>2
<1>2. CASE q.state = "start" /\ c = ESC
  BY <1>2 DEF ReplyByte, CursorState
<1>3. CASE q.state = "esc"
  BY <1>3 DEF ReplyByte, CursorState
<1>4. CASE q.state = "bracket"
  BY <1>1, <1>4 DEF ReplyByte, SEMICOLON, Digit
<1>5. CASE q.state = "semicolon"
  BY <1>1, <1>5 DEF ReplyByte, Digit
<1>6. CASE ~(q.state = "start" /\ c = ESC) /\ q.state \notin {"esc", "bracket", "semicolon"}
  BY <1>6 DEF ReplyByte
<1> QED
  BY <1>2, <1>3, <1>4, <1>5, <1>6

LEMMA StartIsStart ==
    ASSUME NEW q \in CursorState, NEW c \in Byte, ReplyByte(q, c).state = "start"
    PROVE  ReplyByte(q, c) = q
<1>1. ASSUME NEW f \in {"row", "col"}, NEW stop, stop \notin Digit,
             NEW next, q.state # "start", next # "start"
      PROVE  InReply(q, f, c, stop, next).state # "start"
  <2>1. CASE c \in Digit
    <3>1. ASSUME NEW v PROVE [q EXCEPT ![f] = v].state = q.state
      <4>1. f # "state" /\ "state" \in DOMAIN q
        BY DEF CursorState
      <4> QED
        BY <4>1
    <3> DEFINE v == ((q[f] * 10 + c) - 48) % U16
    <3>2. InReply(q, f, c, stop, next) = [q EXCEPT ![f] = v]
      BY <1>1, <2>1 DEF InReply
    <3> HIDE DEF v
    <3>3. [q EXCEPT ![f] = v].state = q.state /\ q.state # "start"
      BY <1>1, <3>1
    <3> QED
      BY <3>2, <3>3
  <2>2. CASE c \notin Digit
    BY <1>1, <2>2 DEF InReply, CursorState
  <2> QED
    BY <2>1, <2>2
<1>2. CASE q.state = "start" /\ c = ESC
  BY <1>2 DEF ReplyByte, CursorState
<1>3. CASE q.state = "esc"
  BY <1>3 DEF ReplyByte, CursorState
<1>4. CASE q.state = "bracket"
  BY <1>1, <1>4 DEF ReplyByte, SEMICOLON, Digit
<1>5. CASE q.state = "semicolon"
  BY <1>1, <1>5 DEF ReplyByte, Digit
<1>6. CASE ~(q.state = "start" /\ c = ESC) /\ q.state \notin {"esc", "bracket", "semicolon"}
  BY <1>6 DEF ReplyByte
<1> QED
  BY <1>2, <1>3, <1>4, <1>5, <1>6

\* The loop along a run, byte by byte.
LEMMA CursorSteps ==
    ASSUME NEW q \in CursorState, NEW s \in Seq(Tagged), NEW F, IsRun(F, ReplyStep, q, Codes(s))
    PROVE  /\ Len(s) \in Nat /\ F[0] = q /\ F[Len(s)] = AfterReading(q, s)
           /\ \A i \in 0..Len(s) : F[i] \in CursorState
           /\ \A i \in 1..Len(s) : s[i].c \in Byte /\ F[i] = ReplyByte(F[i - 1], s[i].c)
<1>1. /\ Codes(s) \in Seq(Byte) /\ Len(Codes(s)) = Len(s) /\ Len(s) \in Nat
      /\ \A i \in 1..Len(s) : Codes(s)[i] = s[i].c /\ s[i].c \in Byte
  BY CodesTyped, LenProperties
<1>2. Fits(CursorState, Byte, ReplyStep, q, Codes(s)) /\ AfterReading(q, s) = Steps(ReplyStep, q, Codes(s))
  BY <1>1, ReplyFold DEF AfterReading
<1>3. F[Len(s)] = AfterReading(q, s)
  BY <1>1, <1>2, StepsOfRun
<1>4. \A i \in 0..Len(s) : F[i] \in CursorState
  BY ReadRun
<1>5. ASSUME NEW i \in 1..Len(s) PROVE F[i] = ReplyByte(F[i - 1], s[i].c)
  <2>1. i - 1 \in 0..Len(s) /\ i \in 1..Len(Codes(s))
    BY <1>1
  <2>2. F[i] = ReplyStep[<<F[i - 1], Codes(s)[i]>>] /\ Codes(s)[i] = s[i].c /\ s[i].c \in Byte
    BY <1>1, <2>1 DEF IsRun
  <2>3. F[i - 1] \in CursorState
    BY <1>4, <2>1
  <2> QED
    BY <2>2, <2>3 DEF ReplyStep
<1>6. F[0] = q
  BY DEF IsRun
<1> QED
  BY <1>1, <1>3, <1>4, <1>5, <1>6

LEMMA EndAtR ==
    ASSUME NEW q \in CursorState, q.state # "end", NEW s \in Seq(Tagged),
           NEW F, IsRun(F, ReplyStep, q, Codes(s)), NEW k \in 0..Len(s), F[k].state = "end"
    PROVE  \E h \in 1..k : F[h].state = "end" /\ s[h].c = 82
<1> SUFFICES ASSUME \A h \in 1..k : F[h].state = "end" => s[h].c # 82 PROVE FALSE
  OBVIOUS
<1>1. /\ Len(s) \in Nat /\ F[0] = q
      /\ \A i \in 0..Len(s) : F[i] \in CursorState
      /\ \A i \in 1..Len(s) : s[i].c \in Byte /\ F[i] = ReplyByte(F[i - 1], s[i].c)
  BY CursorSteps
<1> DEFINE S == {i \in Nat : i <= k => F[i].state # "end"}
<1>2. 0 \in S
  BY <1>1
<1>3. ASSUME NEW i \in Nat, i \in S PROVE i + 1 \in S
  <2> SUFFICES ASSUME i + 1 <= k, F[i + 1].state = "end" PROVE FALSE
    OBVIOUS
  <2>1. i + 1 \in 1..k /\ i + 1 \in 1..Len(s) /\ (i + 1) - 1 = i /\ i <= k /\ i \in 0..Len(s)
    BY <1>1
  <2>2. F[i].state # "end" /\ F[i] \in CursorState
    BY <1>1, <1>3, <2>1
  <2>3. F[i + 1] = ReplyByte(F[i], s[i + 1].c) /\ s[i + 1].c \in Byte /\ s[i + 1].c # 82
    BY <1>1, <2>1
  <2> QED
    BY <2>2, <2>3, EndIsR
<1> HIDE DEF S
<1>4. \A i \in Nat : i \in S
  BY <1>2, <1>3, SetInduction
<1>5. k \in S /\ k <= k
  BY <1>1, <1>4
<1> QED
  BY <1>5 DEF S

LEMMA StartOfRun ==
    ASSUME NEW q \in CursorState, NEW s \in Seq(Tagged),
           NEW F, IsRun(F, ReplyStep, q, Codes(s)), NEW k \in 0..Len(s), F[k].state = "start"
    PROVE  F[k] = q
<1>1. /\ Len(s) \in Nat /\ F[0] = q
      /\ \A i \in 0..Len(s) : F[i] \in CursorState
      /\ \A i \in 1..Len(s) : s[i].c \in Byte /\ F[i] = ReplyByte(F[i - 1], s[i].c)
  BY CursorSteps
<1> DEFINE S == {i \in Nat : i <= k /\ F[i].state = "start" => F[i] = q}
<1>2. 0 \in S
  BY <1>1
<1>3. ASSUME NEW i \in Nat, i \in S PROVE i + 1 \in S
  <2> SUFFICES ASSUME i + 1 <= k, F[i + 1].state = "start" PROVE F[i + 1] = q
    OBVIOUS
  <2>1. i + 1 \in 1..Len(s) /\ (i + 1) - 1 = i /\ i <= k /\ i \in 0..Len(s)
    BY <1>1
  <2>2. F[i + 1] = ReplyByte(F[i], s[i + 1].c) /\ s[i + 1].c \in Byte /\ F[i] \in CursorState
    BY <1>1, <2>1
  <2>3. F[i + 1] = F[i]
    BY <2>2, StartIsStart
  <2> QED
    BY <1>3, <2>1, <2>3
<1> HIDE DEF S
<1>4. \A i \in Nat : i \in S
  BY <1>2, <1>3, SetInduction
<1>5. k \in S /\ k <= k
  BY <1>1, <1>4
<1> QED
  BY <1>5 DEF S

\* From the start of the loop, the reply is all that it can end with.
LEMMA StartAhead ==
    ASSUME KeysSpellNoReply, NEW s \in Seq(Tagged), Joined(s), OneReply(s)
    PROVE  EndsPlain(NoReply, s)
<1>1. NoReply \in CursorState /\ NoReply.state # "end"
  BY NoReplyTyped DEF NoReply
<1>2. PICK F \in [0..Len(s) -> CursorState] : IsRun(F, ReplyStep, NoReply, Codes(s))
  BY <1>1, CursorRun
<1> SUFFICES ASSUME NEW k \in 0..Len(s), F[k].state = "end", NEW i \in 1..Len(s), i > k
             PROVE  s[i].key \in Key
  BY <1>2 DEF EndsPlain, PlainAfter
<1>3. PICK h \in 1..k : F[h].state = "end" /\ s[h].c = 82
  BY <1>1, <1>2, EndAtR
<1>4. Len(s) \in Nat
  BY LenProperties
<1>5. h \in 1..Len(s) /\ h < i /\ h \in 0..Len(s) /\ 1 \in 1..(Len(s) + 1) /\ h \in (1 - 1)..Len(s)
  BY <1>4
<1>6. SUFFICES ASSUME s[i].key \notin Key PROVE FALSE
  OBVIOUS
<1>7. s[h].key \in Key
  BY <1>3, <1>5, <1>6 DEF OneReply
<1>8. ASSUME NEW g \in 1..h PROVE s[g].key \in Key
  <2>1. g \in 1..Len(s) /\ (g = h \/ g < h) /\ g < i /\ h \in g..i
    BY <1>4, <1>5
  <2> QED
    BY <1>5, <1>6, <1>7, <2>1 DEF OneReply
<1> DEFINE u == SubSeq(s, 1, h)
<1>9. /\ u \in Seq(Tagged) /\ Joined(u) /\ Len(u) = h
      /\ \A g \in 1..h : u[g] = s[g]
  <2>1. /\ u \in Seq(Tagged) /\ Joined(u) /\ Len(u) = h + 1 - 1
        /\ \A g \in 1..(h + 1 - 1) : u[g] = s[g + 1 - 1]
    BY <1>5, JoinedPart
  <2>2. h + 1 - 1 = h /\ \A g \in Int : g + 1 - 1 = g
    BY <1>4
  <2> HIDE DEF u
  <2> QED
    BY <2>1, <2>2
<1>10. AfterReading(NoReply, u) = F[h]
  BY <1>1, <1>2, <1>5, ReadRun
<1> HIDE DEF u
<1>11. Plain(u)
  BY <1>8, <1>9 DEF Plain
<1> QED
  BY <1>3, <1>9, <1>10, <1>11 DEF KeysSpellNoReply

\* The loop over the first bytes of a key.
Part(q, k, a) == AfterReading(q, SubSeq(Bytes(k), 1, a))

LEMMA PartOfKey ==
    ASSUME NEW q \in CursorState, NEW k \in Sent
    PROVE  /\ Part(q, k, 1) = ReplyByte(q, k.bytes[1])
           /\ \A a \in 1..(Len(k.bytes) - 1) :
                  Part(q, k, a + 1) = ReplyByte(Part(q, k, a), k.bytes[a + 1])
           /\ Part(q, k, Len(k.bytes)) = AfterReading(q, Bytes(k))
           /\ \A a \in 1..Len(k.bytes) :
                  Part(q, k, a).state = "end" => AfterReading(q, Bytes(k)).state = "end"
<1> DEFINE s == Bytes(k)
           n == Len(k.bytes)
<1>1. /\ s \in Seq(Tagged) /\ Len(s) = n /\ n \in Nat /\ n > 0
      /\ \A i \in 1..n : s[i] = [c |-> k.bytes[i], key |-> k, at |-> i]
  BY BytesWhole, SentBytes
<1>2. \A a : Part(q, k, a) = AfterReading(q, SubSeq(s, 1, a))
  BY DEF Part
<1> HIDE DEF s
<1>3. PICK R \in [0..Len(s) -> CursorState] : IsRun(R, ReplyStep, q, Codes(s))
  BY <1>1, CursorRun
<1>4. /\ R[0] = q /\ R[Len(s)] = AfterReading(q, s)
      /\ \A i \in 1..Len(s) : R[i] = ReplyByte(R[i - 1], s[i].c)
  <2>1. s \in Seq(Tagged)
    BY <1>1
  <2> QED
    BY <1>3, <2>1, CursorSteps
<1>5. ASSUME NEW a \in 1..n PROVE Part(q, k, a) = R[a]
  <2>1. a \in 0..Len(s)
    BY <1>1
  <2> QED
    BY <1>1, <1>2, <1>3, <2>1, ReadRun
<1>6. ASSUME NEW a \in 1..n PROVE R[a] = ReplyByte(R[a - 1], k.bytes[a])
  <2>1. s[a] = [c |-> k.bytes[a], key |-> k, at |-> a] /\ a \in 1..Len(s)
    BY <1>1
  <2> QED
    BY <1>4, <2>1
<1>7. Part(q, k, 1) = ReplyByte(q, k.bytes[1])
  <2>1. 1 \in 1..n /\ 1 - 1 = 0
    BY <1>1
  <2> QED
    BY <1>4, <1>5, <1>6, <2>1
<1>8. ASSUME NEW a \in 1..(n - 1)
      PROVE  Part(q, k, a + 1) = ReplyByte(Part(q, k, a), k.bytes[a + 1])
  <2>1. a \in 1..n /\ a + 1 \in 1..n /\ (a + 1) - 1 = a
    BY <1>1
  <2> QED
    BY <1>5, <1>6, <2>1
<1>9. n \in 1..n
  BY <1>1
<1>10. ASSUME NEW a \in 1..n, Part(q, k, a).state = "end" PROVE AfterReading(q, s).state = "end"
  <2>1. R[a].state \in {"end", "invalid"} /\ R[a].state = "end"
    BY <1>5, <1>10
  <2>2. a \in 0..Len(s) /\ Len(s) \in a..Len(s)
    BY <1>1
  <2>3. R[Len(s)] = R[a]
    BY <1>1, <1>3, <2>1, <2>2, StoppedRun
  <2> QED
    BY <1>4, <2>1, <2>3
<1> QED
  BY <1>1, <1>4, <1>5, <1>7, <1>8, <1>9, <1>10 DEF s

(***************************************************************************)
(* The keys cannot spell a reply if there is a set Q of states of the loop *)
(* of cursor_position(), its first one among them, that no key leaves and  *)
(* that has no state in which the reply is found.  A plain R is such a     *)
(* key, and so are the digits in the absence of Alt+[ and of a lone ESC.   *)
(***************************************************************************)
THEOREM NothingSpelled ==
    ASSUME NEW Q \in SUBSET CursorState, NoReply \in Q, \A q \in Q : q.state # "end",
           \A q \in Q, k \in Key : AfterReading(q, Bytes(k)) \in Q
    PROVE  KeysSpellNoReply
<1> SUFFICES ASSUME NEW s \in Seq(Tagged), Joined(s), Plain(s),
                    AfterReading(NoReply, s).state = "end"
             PROVE  FALSE
  BY DEF KeysSpellNoReply
<1>1. NoReply \in CursorState /\ NoReply.state = "start"
  BY NoReplyTyped DEF NoReply
<1>2. PICK F \in [0..Len(s) -> CursorState] : IsRun(F, ReplyStep, NoReply, Codes(s))
  BY <1>1, CursorRun
<1>3. /\ Len(s) \in Nat /\ F[0] = NoReply /\ F[Len(s)] = AfterReading(NoReply, s)
      /\ \A i \in 1..Len(s) : F[i] = ReplyByte(F[i - 1], s[i].c)
  BY <1>1, <1>2, CursorSteps
<1>4. ASSUME NEW i \in 1..Len(s)
      PROVE  /\ s[i].key \in Key /\ s[i].key \in Sent /\ s[i].at \in 1..Len(s[i].key.bytes)
             /\ s[i].c = s[i].key.bytes[s[i].at] /\ Len(s[i].key.bytes) \in Nat
             /\ s[i].at # 1 => s[i].c # ESC
  <2>1. s[i].key \in Key /\ s[i].key \in Sent
    BY DEF Plain, Sent
  <2>2. s[i].at \in 1..Len(s[i].key.bytes) /\ s[i].c = s[i].key.bytes[s[i].at]
    BY DEF Joined
  <2>3. Len(s[i].key.bytes) \in Nat
    BY <2>1, SentBytes
  <2>4. s[i].at # 1 => s[i].at \in 2..Len(s[i].key.bytes)
    BY <2>2, <2>3
  <2>5. s[i].at # 1 => s[i].c # ESC
    BY <2>1, <2>2, <2>4, KnownAssumption
  <2> QED
    BY <2>1, <2>2, <2>3, <2>5
<1> DEFINE Reached(i) == \E q \in Q : F[i] = Part(q, s[i].key, s[i].at)
           S == {i \in Nat : i <= Len(s) => F[i] = NoReply \/ (i > 0 /\ Reached(i))}
<1>5. 0 \in S
  BY <1>3
<1>6. ASSUME NEW i \in Nat, i \in S PROVE i + 1 \in S
  <2> SUFFICES ASSUME i + 1 <= Len(s) PROVE F[i + 1] = NoReply \/ Reached(i + 1)
    OBVIOUS
  <2>1. i + 1 \in 1..Len(s) /\ (i + 1) - 1 = i /\ i <= Len(s) /\ i < Len(s) /\ (i > 0 => i \in 1..Len(s))
    BY <1>3
  <2>2. F[i] = NoReply \/ (i > 0 /\ Reached(i))
    BY <1>6, <2>1
  <2> HIDE DEF Reached, S
  <2> DEFINE k == s[i + 1].key
             a == s[i + 1].at
  <2>3. /\ k \in Key /\ k \in Sent /\ a \in 1..Len(k.bytes) /\ Len(k.bytes) \in Nat
        /\ F[i + 1] = ReplyByte(F[i], k.bytes[a]) /\ (a # 1 => k.bytes[a] # ESC)
    BY <1>3, <1>4, <2>1
  <2>4. i > 0 => IF Ends(s[i]) THEN a = 1 ELSE k = s[i].key /\ a = s[i].at + 1
    BY <2>1 DEF Joined
  <2>5. CASE a = 1
    <3>1. F[i] \in Q
      <4>1. CASE F[i] = NoReply
        BY <4>1
      <4>2. CASE i > 0 /\ Reached(i)
        <5>1. s[i].at = Len(s[i].key.bytes)
          <6>1. i \in 1..Len(s) /\ s[i].at \in Nat /\ s[i].at > 0
            BY <1>4, <2>1, <4>2
          <6> QED
            BY <2>4, <2>5, <4>2, <6>1 DEF Ends
        <5>2. PICK q \in Q : F[i] = Part(q, s[i].key, s[i].at)
          BY <4>2 DEF Reached
        <5>3. s[i].key \in Key /\ s[i].key \in Sent
          BY <1>4, <2>1, <4>2
        <5>4. F[i] = AfterReading(q, Bytes(s[i].key))
          BY <5>1, <5>2, <5>3, PartOfKey
        <5> QED
          BY <5>3, <5>4
      <4> QED
        BY <2>2, <4>1, <4>2
    <3>2. F[i] \in CursorState
      BY <1>3, <2>1
    <3>3. Part(F[i], k, 1) = ReplyByte(F[i], k.bytes[1])
      BY <2>3, <3>2, PartOfKey
    <3>4. F[i + 1] = Part(F[i], k, a)
      BY <2>3, <2>5, <3>3
    <3> QED
      BY <2>1, <3>1, <3>4 DEF Reached
  <2>6. CASE a # 1 /\ F[i] = NoReply
    BY <1>1, <2>3, <2>6 DEF ReplyByte
  <2>7. CASE a # 1 /\ i > 0 /\ Reached(i)
    <3>1. PICK q \in Q : F[i] = Part(q, s[i].key, s[i].at)
      BY <2>7 DEF Reached
    <3>2. k = s[i].key /\ a = s[i].at + 1 /\ s[i].at \in 1..(Len(k.bytes) - 1)
      <4>1. s[i].at \in 1..Len(s[i].key.bytes)
        BY <1>4, <2>1, <2>7
      <4>2. k = s[i].key /\ a = s[i].at + 1
        BY <2>4, <2>7
      <4> QED
        BY <2>3, <4>1, <4>2
    <3>3. F[i + 1] = Part(q, k, a)
      BY <2>3, <3>1, <3>2, PartOfKey
    <3> QED
      BY <2>1, <3>3 DEF Reached
  <2> QED
    BY <2>2, <2>5, <2>6, <2>7
<1> HIDE DEF S
<1>7. \A i \in Nat : i \in S
  BY <1>5, <1>6, SetInduction
<1>8. Len(s) \in S /\ Len(s) <= Len(s)
  BY <1>3, <1>7
<1>9. Len(s) > 0 /\ Reached(Len(s))
  BY <1>1, <1>3, <1>8 DEF S
<1>10. PICK q \in Q : F[Len(s)] = Part(q, s[Len(s)].key, s[Len(s)].at)
  BY <1>9
<1>11. /\ s[Len(s)].key \in Key /\ s[Len(s)].key \in Sent
       /\ s[Len(s)].at \in 1..Len(s[Len(s)].key.bytes)
  BY <1>3, <1>4, <1>9
<1>12. AfterReading(q, Bytes(s[Len(s)].key)).state = "end"
  BY <1>3, <1>10, <1>11, PartOfKey
<1> QED
  BY <1>11, <1>12

LEMMA ReplyIsNoKey ==
    ASSUME KeysSpellNoReply
    PROVE  Reply \notin Key
<1> SUFFICES ASSUME Reply \in Key PROVE FALSE
  OBVIOUS
<1> DEFINE s == Bytes(Reply)
<1>1. Reply \in Sent
  BY DEF Sent
<1>2. /\ s \in Seq(Tagged) /\ Len(s) = Len(Reply.bytes) /\ Joined(s) /\ Codes(s) = Reply.bytes
      /\ \A i \in 1..Len(s) : s[i] = [c |-> Reply.bytes[i], key |-> Reply, at |-> i]
  BY <1>1, BytesWhole, CodesBytes
<1> HIDE DEF s
<1>3. Plain(s)
  <2> SUFFICES ASSUME NEW i \in 1..Len(s) PROVE s[i].key \in Key
    BY DEF Plain
  <2>1. s[i] = [c |-> Reply.bytes[i], key |-> Reply, at |-> i]
    BY <1>2
  <2> QED
    BY <2>1
<1>4. PICK F : IsRun(F, ReplyStep, NoReply, Codes(s)) /\ F[Len(s)] = Found
  BY <1>2, ReplyRun
<1>5. AfterReading(NoReply, s) = Found
  BY <1>2, <1>4, CursorSteps, NoReplyTyped
<1> QED
  BY <1>2, <1>3, <1>5 DEF KeysSpellNoReply, Found

\* What is left after a read or a flush.
LEMMA PlainRest ==
    ASSUME InputOK, NEW n \in 0..Len(input)
    PROVE  /\ Plain(input) => Plain(After(input, n)) /\ Plain(SubSeq(input, 1, n))
           /\ OneReply(input) => OneReply(After(input, n))
           /\ PlainAfter(input, n) => Plain(After(input, n))
<1>1. Len(input) \in Nat
  BY LenProperties DEF InputOK
<1>2. /\ Len(After(input, n)) = Len(input) - n
      /\ \A i \in 1..(Len(input) - n) : After(input, n)[i] = input[i + n]
  BY RestOfInput
<1>3. Len(SubSeq(input, 1, n)) = n /\ \A i \in 1..n : SubSeq(input, 1, n)[i] = input[i]
  BY StartOfInput
<1>4. \A i \in 1..(Len(input) - n) : i + n \in 1..Len(input) /\ i + n > n
  BY <1>1
<1>5. \A i \in 1..n : i \in 1..Len(input)
  BY <1>1
<1> DEFINE a == After(input, n)
           b == SubSeq(input, 1, n)
<1> HIDE DEF a, b
<1>6. ASSUME Plain(input) PROVE Plain(a) /\ Plain(b)
  BY <1>2, <1>3, <1>4, <1>5, <1>6 DEF Plain, a, b
<1>7. ASSUME OneReply(input) PROVE OneReply(a)
  <2> SUFFICES ASSUME NEW i \in 1..Len(a), NEW j \in 1..Len(a), i < j,
                      a[i].key \notin Key, a[j].key \notin Key
               PROVE  a[i].c # 82 /\ \A h \in i..j : a[h].key \notin Key
    BY DEF OneReply
  <2>1. a[i] = input[i + n] /\ a[j] = input[j + n] /\ i + n \in 1..Len(input) /\ j + n \in 1..Len(input)
    BY <1>2, <1>4 DEF a
  <2>2. i + n < j + n /\ Len(a) = Len(input) - n
    BY <1>1, <1>2 DEF a
  <2>3. input[i + n].c # 82 /\ \A h \in (i + n)..(j + n) : input[h].key \notin Key
    BY <1>7, <2>1, <2>2 DEF OneReply
  <2>4. ASSUME NEW h \in i..j PROVE a[h].key \notin Key
    <3>1. h \in 1..(Len(input) - n) /\ h + n \in (i + n)..(j + n)
      BY <1>1, <2>2
    <3>2. a[h] = input[h + n]
      BY <1>2, <3>1 DEF a
    <3> QED
      BY <2>3, <3>1, <3>2
  <2> QED
    BY <2>1, <2>3, <2>4
<1>8. ASSUME PlainAfter(input, n) PROVE Plain(a)
  BY <1>2, <1>4, <1>8 DEF PlainAfter, Plain, a
<1> QED
  BY <1>6, <1>7, <1>8 DEF a, b

LEMMA WarnInit == StreamInit => WarnInv
<1> SUFFICES ASSUME StreamInit PROVE WarnInv
  OBVIOUS
<1>1. Plain(input)
  BY TypedWhole DEF StreamInit, Plain
<1> QED
  BY <1>1 DEF StreamInit, WarnInv

LEMMA WarnReadEvents ==
    ASSUME StreamInv, WarnInv, ReadEvents
    PROVE  WarnInv'
<1>1. PICK n \in Readable :
          /\ input' = After(input, n)
          /\ gen' = ReadBuffer(SubSeq(input, 1, n)).gen
          /\ warned' = (warned \/ ~Known(SubSeq(input, 1, n), Key))
  BY DEF ReadEvents
<1>2. program = "resumed" /\ program' = program /\ InputOK /\ StreamTyped
  BY DEF ReadEvents, StreamInv
<1>3. n \in 0..Len(input) /\ n > 0
  BY <1>2, LenProperties, KeyAssumption DEF Readable, InputOK
<1> SUFFICES ASSUME ~warned' PROVE gen' = "live" /\ Plain(input')
  BY <1>2 DEF WarnInv
<1>4. ~warned /\ Known(SubSeq(input, 1, n), Key) /\ Plain(input)
  BY <1>1, <1>2 DEF WarnInv
<1>5. Plain(input') /\ Plain(SubSeq(input, 1, n))
  BY <1>1, <1>2, <1>3, <1>4, PlainRest
<1>6. CASE stream = "event_stream"
  <2> DEFINE buf == SubSeq(input, 1, n)
  <2>1. buf \in Seq(Tagged) /\ Joined(buf) /\ Len(buf) > 0
    BY <1>2, <1>3, StartOfInput
  <2>2. Known(buf, Key \cup {Reply})
    BY <1>4, <1>5 DEF Known, Plain
  <2>3. gen' = ReadBuffer(buf).gen
    BY <1>1
  <2> HIDE DEF buf
  <2>4. gen' = "live"
    BY <1>6, <2>1, <2>2, <2>3, BufferRead
  <2> QED
    BY <1>5, <2>4
<1>7. CASE stream # "event_stream"
  <2>1. gen' = "live"
    BY <1>1, <1>7 DEF ReadBuffer
  <2> QED
    BY <1>5, <2>1
<1> QED
  BY <1>6, <1>7

LEMMA WarnReadReply ==
    ASSUME StreamInv, WarnInv, ReadReply
    PROVE  WarnInv'
<1>1. PICK n \in Readable :
          /\ reply' = AfterReading(reply, SubSeq(input, 1, n))
          /\ input' = After(input, n)
  BY DEF ReadReply, AfterReading
<1>2. /\ program = "asking" /\ gen' = gen
      /\ program' = IF reply'.state \in {"end", "invalid"} THEN "idle" ELSE program
      /\ warned' = (warned \/ reply'.state = "invalid")
  BY DEF ReadReply, genVars
<1>3. /\ InputOK /\ input \in Seq(Tagged) /\ reply \in CursorState /\ Len(input) \in Nat
  BY LenProperties DEF StreamInv, StreamTyped, InputOK
<1>4. n \in 0..Len(input)
  BY <1>3 DEF Readable
<1> SUFFICES ASSUME ~warned' PROVE WarnInv'
  BY DEF WarnInv
<1>5. /\ ~warned /\ gen = "live" /\ OneReply(input) /\ EndsPlain(reply, input)
      /\ (reply.state = "start" => reply = NoReply) /\ reply'.state # "invalid"
  BY <1>2 DEF WarnInv
<1>6. PICK F : /\ IsRun(F, ReplyStep, reply, Codes(input))
               /\ \A k \in 0..Len(input) : F[k].state = "end" => PlainAfter(input, k)
  BY <1>5 DEF EndsPlain
<1> DEFINE G == Later(F, n, Len(input) - n)
<1>7. F[n] = reply' /\ IsRun(G, ReplyStep, reply', Codes(input'))
  <2>1. /\ AfterReading(reply, SubSeq(input, 1, n)) = F[n]
        /\ IsRun(G, ReplyStep, F[n], Codes(SubSeq(input, n + 1, Len(input))))
    BY <1>3, <1>4, <1>6, ReadRun
  <2>2. input' = SubSeq(input, n + 1, Len(input))
    BY <1>1 DEF After
  <2> HIDE DEF G
  <2> QED
    BY <1>1, <2>1, <2>2
<1>8. /\ Len(input') = Len(input) - n
      /\ \A i \in 1..(Len(input) - n) : input'[i] = input[i + n]
  BY <1>1, <1>3, <1>4, RestOfInput
<1>9. EndsPlain(reply', input')
  <2>1. \A k \in 0..(Len(input) - n) : G[k] = F[k + n] /\ k + n \in 0..Len(input)
    BY <1>3, <1>4 DEF Later
  <2> HIDE DEF G
  <2>2. ASSUME NEW k \in 0..Len(input'), G[k].state = "end", NEW i \in 1..Len(input'), i > k
        PROVE  input'[i].key \in Key
    <3>1. k \in 0..(Len(input) - n) /\ i \in 1..(Len(input) - n)
      BY <1>8
    <3>2. i + n \in 1..Len(input) /\ i + n > k + n
      BY <1>3, <1>4, <2>2, <3>1
    <3>3. PlainAfter(input, k + n)
      BY <1>6, <2>1, <2>2, <3>1
    <3>4. input[i + n].key \in Key
      BY <3>2, <3>3 DEF PlainAfter
    <3> QED
      BY <1>8, <3>1, <3>4
  <2> QED
    BY <1>7, <2>2 DEF EndsPlain, PlainAfter
<1>10. OneReply(input')
  BY <1>1, <1>3, <1>4, <1>5, PlainRest
<1>11. reply'.state = "start" => reply' = NoReply
  <2> SUFFICES ASSUME reply'.state = "start" PROVE reply' = NoReply
    OBVIOUS
  <2>1. F[n] = reply
    BY <1>3, <1>4, <1>6, <1>7, StartOfRun
  <2> QED
    BY <1>5, <1>7, <2>1
<1>12. ASSUME program' # "asking" PROVE Plain(input')
  <2>1. reply'.state = "end"
    BY <1>2, <1>5, <1>12
  <2>2. PlainAfter(input, n)
    BY <1>4, <1>6, <1>7, <2>1
  <2> QED
    BY <1>1, <1>3, <1>4, <2>2, PlainRest
<1> QED
  BY <1>2, <1>5, <1>9, <1>10, <1>11, <1>12 DEF WarnInv

LEMMA WarnAsk ==
    ASSUME KeysSpellNoReply, StreamInv, WarnInv, Ask
    PROVE  WarnInv'
<1>1. PICK n \in Between(input) :
          input' = SubSeq(input, 1, n) \o Bytes(Reply) \o After(input, n)
  BY DEF Ask
<1>2. program = "idle" /\ program' = "asking" /\ UNCHANGED <<gen, warned>>
  BY DEF Ask, genVars
<1> SUFFICES ASSUME ~warned PROVE OneReply(input')
  <2>1. reply' = NoReply
    BY DEF Ask
  <2>2. InputOK'
    BY AskOK DEF StreamInv
  <2>3. OneReply(input') => EndsPlain(reply', input')
    BY <2>1, <2>2, StartAhead DEF InputOK
  <2> QED
    BY <1>2, <2>1, <2>3 DEF WarnInv
<1>3. InputOK /\ Plain(input) /\ n \in 0..Len(input) /\ Len(input) \in Nat
  BY <1>2, LenProperties DEF StreamInv, InputOK, WarnInv, Between
<1> DEFINE pre  == SubSeq(input, 1, n)
           mid  == Bytes(Reply)
           post == After(input, n)
           m == Len(Reply.bytes)
<1>4. /\ pre \in Seq(Tagged) /\ Joined(pre) /\ Len(pre) = n /\ Plain(pre)
      /\ post \in Seq(Tagged) /\ Joined(post) /\ Len(post) = Len(input) - n /\ Plain(post)
  BY <1>3, StartOfInput, RestOfInput, PlainRest
<1>5. /\ Reply \in Sent /\ m \in Nat /\ m > 0 /\ mid \in Seq(Tagged) /\ Len(mid) = m
      /\ \A i \in 1..m : mid[i].c = Reply.bytes[i] /\ mid[i].key = Reply
  <2>1. Reply \in Sent
    BY DEF Sent
  <2> QED
    <3>1. \A i \in 1..m : mid[i] = [c |-> Reply.bytes[i], key |-> Reply, at |-> i]
      BY <2>1, BytesWhole
    <3>2. mid \in Seq(Tagged) /\ Len(mid) = m
      BY <2>1, BytesWhole
    <3>3. m \in Nat /\ m > 0
      BY <2>1, SentBytes
    <3> HIDE DEF mid, m
    <3>4. ASSUME NEW i \in 1..m PROVE mid[i].c = Reply.bytes[i] /\ mid[i].key = Reply
      <4>1. mid[i] = [c |-> Reply.bytes[i], key |-> Reply, at |-> i]
        BY <3>1
      <4> QED
        BY <4>1
    <3> QED
      BY <2>1, <3>2, <3>3, <3>4
<1>6. \A i \in 1..(m - 1) : Reply.bytes[i] # 82
  <2>1. PICK h \in 3..m - 1 :
            /\ Reply.bytes[1] = ESC /\ Reply.bytes[2] = BRACKET /\ Reply.bytes[h] = SEMICOLON
            /\ \A j \in 3..m - 1 : j = h \/ Reply.bytes[j] \in Digit
    BY ReplyAssumption
  <2>2. 82 # ESC /\ 82 # BRACKET /\ 82 # SEMICOLON /\ 82 \notin Digit
    BY DEF ESC, BRACKET, SEMICOLON, Digit
  <2> SUFFICES ASSUME NEW i \in 1..(m - 1) PROVE Reply.bytes[i] # 82
    OBVIOUS
  <2>3. i = 1 \/ i = 2 \/ i \in 3..m - 1
    BY <1>5
  <2> QED
    BY <2>1, <2>2, <2>3
<1> HIDE DEF pre, mid, post, m
<1>7. /\ pre \o mid \in Seq(Tagged) /\ Len(pre \o mid) = n + m
      /\ \A i \in 1..(n + m) : (pre \o mid)[i] = IF i <= n THEN pre[i] ELSE mid[i - n]
  BY <1>4, <1>5, ConcatProperties
<1>8. /\ Len(input') = n + m + Len(post)
      /\ \A i \in 1..(n + m + Len(post)) :
             input'[i] = IF i <= n + m THEN (pre \o mid)[i] ELSE post[i - (n + m)]
  <2> DEFINE u == pre \o mid
  <2>1. input' = u \o post
    BY <1>1 DEF pre, mid, post
  <2>2. u \in Seq(Tagged) /\ Len(u) = n + m
    BY <1>7
  <2> HIDE DEF u
  <2>3. /\ Len(u \o post) = Len(u) + Len(post)
        /\ \A i \in 1..(Len(u) + Len(post)) :
               (u \o post)[i] = IF i <= Len(u) THEN u[i] ELSE post[i - Len(u)]
    BY <1>4, <2>2, ConcatProperties
  <2>4. /\ Len(input') = n + m + Len(post)
        /\ \A i \in 1..(n + m + Len(post)) :
               input'[i] = IF i <= n + m THEN u[i] ELSE post[i - (n + m)]
    BY <2>1, <2>2, <2>3
  <2> QED
    BY <2>4 DEF u
<1>9. Len(post) \in Nat
  BY <1>3, <1>4
<1>10. ASSUME NEW i \in 1..Len(input'), input'[i].key \notin Key
       PROVE  i \in (n + 1)..(n + m)
  <2>1. CASE i <= n
    <3>1. i \in 1..n /\ i <= n + m /\ i \in 1..(n + m)
      BY <1>3, <1>5, <2>1
    <3>2. input'[i] = pre[i]
      BY <1>7, <1>8, <1>10, <2>1, <3>1
    <3> QED
      BY <1>4, <1>10, <3>1, <3>2 DEF Plain
  <2>2. CASE i > n + m
    <3>1. i - (n + m) \in 1..Len(post) /\ ~(i <= n + m)
      BY <1>3, <1>5, <1>8, <1>9, <1>10, <2>2
    <3>2. input'[i] = post[i - (n + m)]
      BY <1>8, <1>10, <3>1
    <3> QED
      BY <1>4, <1>10, <3>1, <3>2 DEF Plain
  <2> QED
    BY <1>3, <1>5, <1>8, <1>9, <1>10, <2>1, <2>2
<1>11. ASSUME NEW i \in (n + 1)..(n + m)
       PROVE  i - n \in 1..m /\ input'[i].c = Reply.bytes[i - n] /\ input'[i].key = Reply
  <2>1. /\ i - n \in 1..m /\ ~(i <= n) /\ i <= n + m /\ i \in 1..(n + m)
        /\ i \in 1..(n + m + Len(post))
    BY <1>3, <1>5, <1>9
  <2>2. input'[i] = mid[i - n]
    BY <1>7, <1>8, <2>1
  <2> QED
    BY <1>5, <2>1, <2>2
<1>12. SUFFICES ASSUME NEW i \in 1..Len(input'), NEW j \in 1..Len(input'), i < j,
                       input'[i].key \notin Key, input'[j].key \notin Key
                PROVE  input'[i].c # 82 /\ \A h \in i..j : input'[h].key \notin Key
  BY DEF OneReply
<1>13. i \in (n + 1)..(n + m) /\ j \in (n + 1)..(n + m)
  BY <1>10, <1>12
<1>14. i - n \in 1..(m - 1) /\ \A h \in i..j : h \in (n + 1)..(n + m)
  BY <1>3, <1>5, <1>12, <1>13
<1> QED
  BY <1>6, <1>11, <1>13, <1>14, ReplyIsNoKey

LEMMA WarnFlush ==
    ASSUME KeysSpellNoReply, StreamInv, WarnInv, Flush
    PROVE  WarnInv'
<1>1. PICK n \in 0..Len(input) :
          /\ input' = After(input, n)
          /\ warned' = (warned \/ (n > 0 /\ program = "asking" /\ reply.state # "start"))
  BY DEF Flush
<1>2. UNCHANGED <<program, gen, reply>>
  BY DEF Flush, genVars
<1>3. InputOK /\ InputOK' /\ input \in Seq(Tagged) /\ Len(input) \in Nat
  BY FlushOK, LenProperties DEF StreamInv, InputOK
<1> SUFFICES ASSUME ~warned' PROVE WarnInv'
  BY DEF WarnInv
<1>4. ~warned /\ gen = "live"
  BY <1>1 DEF WarnInv
<1>5. CASE program # "asking"
  BY <1>1, <1>2, <1>3, <1>4, <1>5, PlainRest DEF WarnInv
<1>6. CASE program = "asking" /\ n = 0
  <2>1. input' = input
    <3> DEFINE u == After(input, n)
    <3>1. /\ u \in Seq(Tagged) /\ Len(u) = Len(input) - n
          /\ \A i \in 1..(Len(input) - n) : u[i] = input[i + n]
      BY <1>3, RestOfInput
    <3> HIDE DEF u
    <3>2. Len(u) = Len(input) /\ \A i \in 1..Len(u) : u[i] = input[i]
      BY <1>3, <1>6, <3>1
    <3>3. input \in Seq(Tagged) /\ u \in Seq(Tagged)
      BY <1>3, <3>1
    <3>4. u = input
      BY <3>2, <3>3, SeqEqual
    <3> QED
      BY <1>1, <3>4 DEF u
  <2> QED
    BY <1>2, <1>4, <1>6, <2>1 DEF WarnInv, OneReply, EndsPlain, PlainAfter
<1>7. CASE program = "asking" /\ n # 0
  <2>1. reply = NoReply /\ OneReply(input)
    <3>1. n > 0
      BY <1>3, <1>7
    <3>2. reply.state = "start"
      BY <1>1, <1>7, <3>1
    <3> QED
      BY <1>4, <1>7, <3>2 DEF WarnInv
  <2>2. OneReply(input')
    BY <1>1, <1>3, <2>1, PlainRest
  <2>3. EndsPlain(NoReply, input')
    BY <1>3, <2>2, StartAhead DEF InputOK
  <2> QED
    BY <1>2, <1>4, <1>7, <2>1, <2>2, <2>3 DEF WarnInv
<1> QED
  BY <1>5, <1>6, <1>7

LEMMA WarnStep ==
    ASSUME KeysSpellNoReply
    PROVE  StreamInv /\ WarnInv /\ [Next]_vars => WarnInv'
<1> SUFFICES ASSUME StreamInv, WarnInv, [Next]_vars PROVE WarnInv'
  OBVIOUS
<1>1. CASE ReadEvents \/ ReadReply \/ Ask
  BY <1>1, WarnReadEvents, WarnReadReply, WarnAsk
<1>2. CASE Resume \/ YieldValue
  BY <1>2 DEF WarnInv, Resume, YieldValue, genVars, cursorVars
<1>3. CASE Throws
  BY <1>3 DEF WarnInv, Throws, cursorVars
<1>4. CASE InterruptedRead
  BY <1>4 DEF WarnInv, InterruptedRead
<1>5. CASE Flush
  BY <1>5, WarnFlush
<1>6. CASE UNCHANGED streamVars
  BY <1>6 DEF WarnInv, Plain, OneReply, EndsPlain, PlainAfter, streamVars, genVars, cursorVars
<1>7. StreamNext \/ InterruptedRead \/ Flush \/ UNCHANGED streamVars
  BY DEF Next, vars, Interrupt, SetAttr, Abort
<1> QED
  BY <1>1, <1>2, <1>3, <1>4, <1>5, <1>6, <1>7 DEF StreamNext

(***************************************************************************)
(* If the keys cannot spell a reply, event_stream() throws or fails an     *)
(* assertion only after it has read a key that it does not know, or        *)
(* cursor_position() has returned invalid_pos or has lost to a flush a     *)
(* part of what it was reading.  Typed out, Alt+[ 1 ; 1 R is a reply to    *)
(* cursor_position(), and the terminal's is then read as a key.            *)
(***************************************************************************)
THEOREM StreamEndsOnlyWarned ==
    ASSUME KeysSpellNoReply
    PROVE  Spec => []EndsOnlyWarned
<1>1. Init => WarnInv
  BY WarnInit DEF Init
<1>2. StreamInv /\ WarnInv /\ [Next]_vars => WarnInv'
  BY WarnStep
<1>3. WarnInv => EndsOnlyWarned
  BY DEF WarnInv, EndsOnlyWarned
<1> QED
  BY <1>1, <1>2, <1>3, InputInvariantHolds, PTL DEF Spec
=============================================================================
