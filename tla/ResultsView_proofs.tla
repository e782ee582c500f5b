-------------------------- MODULE ResultsView_proofs ---------------------------
(***************************************************************************)
(* Proofs about the numbers of ResultsView, for any tables: what is summed *)
(* and what is sorted is so for any finite number of rows.                 *)
(*                                                                         *)
(* An induction is over the subsets of a finite set, by way of a least one *)
(* that a statement fails for.                                             *)
(***************************************************************************)
EXTENDS MCResultsPage, ResultsPage_proofs, FiniteSetTheorems

(* What holds of a set whenever it holds of all that lack one member, holds *)
(* of every finite set.                                                     *)
LEMMA SubsetInduction ==
    ASSUME NEW S, IsFiniteSet(S), NEW Good \in SUBSET (SUBSET S),
           \A T \in SUBSET S : (\A x \in T : T \ {x} \in Good) => T \in Good
    PROVE  S \in Good
<1>. DEFINE Bad == (SUBSET S) \ Good
<1>1. SUFFICES ASSUME Bad # {} PROVE FALSE
  OBVIOUS
<1>2. IsWellFoundedOn(StrictSubsetOrdering(S), SUBSET S)
  BY FS_StrictSubsetOrderingWellFounded, FS_FiniteSubsetsOfFinite
<1>. HIDE DEF Bad
<1>3. PICK T \in Bad : \A U \in Bad : <<U, T>> \notin StrictSubsetOrdering(S)
  <2>1. Bad \subseteq SUBSET S
    BY DEF Bad
  <2>. QED
    BY ONLY <1>1, <1>2, <2>1, WFMin
<1>4. ASSUME NEW x \in T PROVE T \ {x} \notin Bad
  <2>1. T \in SUBSET S /\ T \ {x} \in SUBSET S /\ T \ {x} # T
    BY <1>3 DEF Bad
  <2>. QED
    BY <1>3, <2>1 DEF StrictSubsetOrdering
<1>. QED
  BY <1>3, <1>4 DEF Bad

(***************************************************************************)
(* Sums.  Total is a fold; these are its equations.                        *)
(***************************************************************************)

(* The member a fold takes first *)
First(S) == CHOOSE x \in S : TRUE

IsFold(it, w, S) ==
    it = [s \in SUBSET S |-> IF s = {} THEN 0 ELSE w[First(s)] + it[s \ {First(s)}]]

LEMMA TotalIsFold ==
    ASSUME NEW w, NEW S
    PROVE  Total(w, S) = (CHOOSE it : IsFold(it, w, S))[S]
  BY DEF Total, MapThenSumSet, MapThenFoldSet, IsFold, First

LEMMA FoldUnique ==
    ASSUME NEW w, NEW S, IsFiniteSet(S), NEW f, NEW g,
           IsFold(f, w, S), IsFold(g, w, S)
    PROVE  f[S] = g[S]
<1>. DEFINE Good == {T \in SUBSET S : f[T] = g[T]}
<1>1. ASSUME NEW T \in SUBSET S, \A x \in T : T \ {x} \in Good
      PROVE  T \in Good
  <2>1. CASE T = {}
    BY <2>1 DEF IsFold
  <2>2. CASE T # {}
    <3>1. First(T) \in T
      BY <2>2 DEF First
    <3>2. f[T \ {First(T)}] = g[T \ {First(T)}]
      BY <1>1, <3>1
    <3>3. f[T] = w[First(T)] + f[T \ {First(T)}]
      BY <2>2 DEF IsFold
    <3>4. g[T] = w[First(T)] + g[T \ {First(T)}]
      BY <2>2 DEF IsFold
    <3>. QED
      BY <3>2, <3>3, <3>4
  <2>. QED
    BY <2>1, <2>2
<1>. HIDE DEF Good
<1>2. Good \in SUBSET (SUBSET S)
  BY DEF Good
<1>3. S \in Good
  BY <1>1, <1>2, SubsetInduction
<1>. QED
  BY <1>3 DEF Good

(* Total of a set is what its first member adds to that of the others. *)
FoldsAt(w, T) ==
    Total(w, T) = IF T = {} THEN 0 ELSE w[First(T)] + Total(w, T \ {First(T)})

LEMMA TotalEquation ==
    ASSUME NEW w, NEW S, IsFiniteSet(S)
    PROVE  FoldsAt(w, S)
<1>. DEFINE Good == {T \in SUBSET S : \A s \in SUBSET T : FoldsAt(w, s)}
<1>1. ASSUME NEW T \in SUBSET S, \A x \in T : T \ {x} \in Good
      PROVE  T \in Good
  <2>. DEFINE it == [s \in SUBSET T |->
                        IF s = T
                        THEN IF T = {} THEN 0 ELSE w[First(T)] + Total(w, T \ {First(T)})
                        ELSE Total(w, s)]
  <2>1. ASSUME NEW s \in SUBSET T, s # T PROVE FoldsAt(w, s)
    <3>1. PICK x \in T : x \notin s
      BY <2>1
    <3>2. s \in SUBSET (T \ {x})
      BY <3>1
    <3>. QED
      BY <1>1, <3>1, <3>2
  <2>2. ASSUME NEW s \in SUBSET T, s # {}
        PROVE  /\ s \ {First(s)} \in SUBSET T
               /\ s \ {First(s)} # T
               /\ it[s] = w[First(s)] + Total(w, s \ {First(s)})
    <3>1. First(s) \in s
      BY <2>2 DEF First
    <3>2. s # T => Total(w, s) = w[First(s)] + Total(w, s \ {First(s)})
      BY <2>1, <2>2 DEF FoldsAt
    <3>. QED
      BY <2>2, <3>1, <3>2
  <2>3. it[{}] = 0
    BY <2>1 DEF FoldsAt
  <2>4. \A s \in SUBSET T : s # T => it[s] = Total(w, s)
    OBVIOUS
  <2>5. IsFold(it, w, T)
    <3>1. ASSUME NEW s \in SUBSET T
          PROVE  it[s] = IF s = {} THEN 0 ELSE w[First(s)] + it[s \ {First(s)}]
      BY <2>2, <2>3, <2>4
    <3>2. it = [s \in SUBSET T |-> it[s]]
      OBVIOUS
    <3>. HIDE DEF it
    <3>. QED
      BY <3>1, <3>2 DEF IsFold
  <2>6. it[T] = IF T = {} THEN 0 ELSE w[First(T)] + Total(w, T \ {First(T)})
    OBVIOUS
  <2>. HIDE DEF it
  <2>7. IsFiniteSet(T)
    BY FS_Subset
  <2>8. IsFold(CHOOSE f : IsFold(f, w, T), w, T)
    BY <2>5
  <2>9. (CHOOSE f : IsFold(f, w, T))[T] = it[T]
    BY <2>5, <2>7, <2>8, FoldUnique
  <2>10. FoldsAt(w, T)
    BY <2>6, <2>9, TotalIsFold DEF FoldsAt
  <2>. QED
    BY <2>1, <2>10
<1>. HIDE DEF Good
<1>2. Good \in SUBSET (SUBSET S)
  BY DEF Good
<1>3. S \in Good
  BY <1>1, <1>2, SubsetInduction
<1>. QED
  BY <1>3 DEF Good

LEMMA TotalEmpty ==
    ASSUME NEW w
    PROVE  Total(w, {}) = 0
  BY TotalEquation, FS_EmptySet DEF FoldsAt

LEMMA TotalNat ==
    ASSUME NEW w, NEW S, IsFiniteSet(S), \A e \in S : w[e] \in Nat
    PROVE  Total(w, S) \in Nat
<1>. DEFINE Good == {T \in SUBSET S : Total(w, T) \in Nat}
<1>1. ASSUME NEW T \in SUBSET S, \A x \in T : T \ {x} \in Good
      PROVE  T \in Good
  <2>1. FoldsAt(w, T)
    BY FS_Subset, TotalEquation
  <2>2. T # {} => First(T) \in T
    BY DEF First
  <2>. QED
    BY <1>1, <2>1, <2>2 DEF FoldsAt
<1>. HIDE DEF Good
<1>2. Good \in SUBSET (SUBSET S)
  BY DEF Good
<1>3. S \in Good
  BY <1>1, <1>2, SubsetInduction
<1>. QED
  BY <1>3 DEF Good

(* It does not matter which member is taken first. *)
LEMMA TotalWithout ==
    ASSUME NEW w, NEW S, IsFiniteSet(S), \A e \in S : w[e] \in Nat, NEW y \in S
    PROVE  Total(w, S) = w[y] + Total(w, S \ {y})
<1>. DEFINE Good == {T \in SUBSET S : \A x \in T : Total(w, T) = w[x] + Total(w, T \ {x})}
<1>1. ASSUME NEW T \in SUBSET S, \A x \in T : T \ {x} \in Good
      PROVE  T \in Good
  <2>1. SUFFICES ASSUME NEW x \in T
                 PROVE  Total(w, T) = w[x] + Total(w, T \ {x})
    OBVIOUS
  <2>. DEFINE c == First(T)
  <2>2. c \in T
    BY DEF First
  <2>3. Total(w, T) = w[c] + Total(w, T \ {c})
    BY <2>2, FS_Subset, TotalEquation DEF FoldsAt
  <2>. HIDE DEF c
  <2>4. CASE x = c
    BY <2>3, <2>4
  <2>5. CASE x # c
    <3>. DEFINE R == T \ {c, x}
    <3>1. (T \ {c}) \ {x} = R /\ (T \ {x}) \ {c} = R /\ R \in SUBSET S
      OBVIOUS
    <3>2. Total(w, T \ {c}) = w[x] + Total(w, R)
      BY <1>1, <2>2, <2>5, <3>1
    <3>3. Total(w, T \ {x}) = w[c] + Total(w, R)
      BY <1>1, <2>2, <2>5, <3>1
    <3>4. Total(w, R) \in Nat
      BY <3>1, FS_Subset, TotalNat
    <3>5. w[x] \in Nat /\ w[c] \in Nat
      BY <2>2
    <3>. QED
      BY <2>3, <3>2, <3>3, <3>4, <3>5
  <2>. QED
    BY <2>4, <2>5
<1>. HIDE DEF Good
<1>2. Good \in SUBSET (SUBSET S)
  BY DEF Good
<1>3. S \in Good
  BY <1>1, <1>2, SubsetInduction
<1>. QED
  BY <1>3 DEF Good

(* One row is no more than all. *)
LEMMA RowOfTotal ==
    ASSUME NEW w, NEW S, IsFiniteSet(S), \A e \in S : w[e] \in Nat, NEW y \in S
    PROVE  w[y] <= Total(w, S)
<1>1. Total(w, S \ {y}) \in Nat
  BY FS_RemoveElement, TotalNat
<1>. QED
  BY <1>1, TotalWithout

(***************************************************************************)
(* Slices.                                                                 *)
(***************************************************************************)

LEMMA DivisionBounds ==
    ASSUME NEW a \in Nat, NEW d \in Nat \ {0}
    PROVE  /\ a \div d \in Nat
           /\ d * (a \div d) <= a
           /\ a < d * (a \div d) + d
  OBVIOUS

LEMMA DivisionMonotone ==
    ASSUME NEW a \in Nat, NEW b \in Nat, a <= b, NEW d \in Nat \ {0}
    PROVE  a \div d <= b \div d
  OBVIOUS

(* When each d * pie[e] is within lo (less) and hi (more) of k * w[e], so  *)
(* is d * Total of k * Total, for each member.                             *)
LEMMA TotalWithin ==
    ASSUME NEW w, NEW pie, NEW S, IsFiniteSet(S),
           \A e \in S : w[e] \in Nat /\ pie[e] \in Nat,
           NEW d \in Nat, NEW k \in Nat, NEW lo \in Nat, NEW hi \in Nat,
           \A e \in S : /\ k * w[e] <= d * pie[e] + lo
                        /\ d * pie[e] <= k * w[e] + hi
    PROVE  /\ k * Total(w, S) <= d * Total(pie, S) + lo * Cardinality(S)
           /\ d * Total(pie, S) <= k * Total(w, S) + hi * Cardinality(S)
<1>. DEFINE Within(T) ==
                /\ k * Total(w, T) <= d * Total(pie, T) + lo * Cardinality(T)
                /\ d * Total(pie, T) <= k * Total(w, T) + hi * Cardinality(T)
            Good == {T \in SUBSET S : Within(T)}
<1>1. ASSUME NEW T \in SUBSET S, \A x \in T : T \ {x} \in Good
      PROVE  T \in Good
  <2>0. IsFiniteSet(T)
    BY FS_Subset
  <2>1. CASE T = {}
    BY <2>1, TotalEmpty, FS_EmptySet
  <2>2. CASE T # {}
    <3>1. PICK x \in T : TRUE
      BY <2>2
    <3>. DEFINE R == T \ {x}
                W == Total(w, R)
                P == Total(pie, R)
                n == Cardinality(R)
    <3>2. IsFiniteSet(R) /\ n \in Nat /\ Cardinality(T) = n + 1
      <4>1. /\ IsFiniteSet(R) /\ n = Cardinality(T) - 1
            /\ Cardinality(T) \in Nat
        BY <2>0, FS_RemoveElement, FS_CardinalityType
      <4>2. n \in Nat
        BY <4>1, FS_CardinalityType
      <4>. HIDE DEF n
      <4>. QED
        BY <4>1, <4>2
    <3>3. W \in Nat /\ P \in Nat
      BY <3>2, TotalNat
    <3>4. Total(w, T) = w[x] + W /\ Total(pie, T) = pie[x] + P
      BY <2>0, <3>1, TotalWithout
    <3>5. k * W <= d * P + lo * n /\ d * P <= k * W + hi * n
      BY <1>1, <3>1
    <3>6. w[x] \in Nat /\ pie[x] \in Nat
      BY <3>1
    <3>7. k * w[x] <= d * pie[x] + lo /\ d * pie[x] <= k * w[x] + hi
      BY <3>1
    <3>. HIDE DEF R, W, P, n
    <3>8. /\ k * (w[x] + W) = k * w[x] + k * W
          /\ d * (pie[x] + P) = d * pie[x] + d * P
          /\ lo * (n + 1) = lo * n + lo
          /\ hi * (n + 1) = hi * n + hi
      BY <3>2, <3>3, <3>6
    <3>9. /\ k * (w[x] + W) <= d * (pie[x] + P) + lo * (n + 1)
          /\ d * (pie[x] + P) <= k * (w[x] + W) + hi * (n + 1)
      <4>. DEFINE kw == k * w[x]   kW == k * W   dp == d * pie[x]   dP == d * P
                  ln == lo * n     hn == hi * n
      <4>1. {kw, kW, dp, dP, ln, hn} \subseteq Int
        BY <3>2, <3>3, <3>6
      <4>2. kW <= dP + ln /\ dP <= kW + hn /\ kw <= dp + lo /\ dp <= kw + hi
        BY <3>5, <3>7
      <4>. HIDE DEF kw, kW, dp, dP, ln, hn
      <4>3. /\ kw + kW <= dp + dP + (ln + lo)
            /\ dp + dP <= kw + kW + (hn + hi)
        BY <4>1, <4>2
      <4>. QED
        BY <3>8, <4>3 DEF kw, kW, dp, dP, ln, hn
    <3>. QED
      BY <2>0, <3>2, <3>4, <3>9
  <2>. QED
    BY <2>1, <2>2
<1>. HIDE DEF Good
<1>2. Good \in SUBSET (SUBSET S)
  BY DEF Good
<1>3. S \in Good
  BY <1>1, <1>2, SubsetInduction
<1>. QED
  BY <1>3 DEF Good

LEMMA CancelAtMost ==
    ASSUME NEW a \in Int, NEW b \in Int, NEW d \in Nat \ {0}, d * a <= d * b
    PROVE  a <= b
  OBVIOUS

LEMMA CancelLess ==
    ASSUME NEW a \in Int, NEW b \in Int, NEW d \in Nat \ {0}, d * a < d * b
    PROVE  a < b
  OBVIOUS

(* Rounded down, the shares of rows with votes are no more than their      *)
(* votes, and less by less than the total.                                 *)
LEMMA SharesAreFit ==
    ASSUME NEW res, NEW rows, IsFiniteSet(rows),
           \A e \in rows : res[e] \in Nat \ {0}
    PROVE  SharesFit(res, Shares(res, rows))
<1>. DEFINE pie == Shares(res, rows)
            d == Total(res, rows)
            n == Cardinality(rows)
            P == Total(pie, rows)
<1>1. DOMAIN pie = rows /\ \A e \in rows : pie[e] = (res[e] * 100) \div d
  BY DEF Shares
<1>2. CASE rows = {}
  <2>1. pie = <<>>
    BY <1>2 DEF Shares
  <2>. QED
    BY <1>1, <1>2, <2>1 DEF SharesFit, Monotone
<1>3. CASE rows # {}
  <2>1. d \in Nat
    BY TotalNat
  <2>2. PICK y \in rows : TRUE
    BY <1>3
  <2>3. d \in Nat \ {0}
    BY <2>1, <2>2, RowOfTotal
  <2>. HIDE DEF d, pie
  <2>4. \A e \in rows : res[e] * 100 \in Nat
    OBVIOUS
  <2>5. ASSUME NEW e \in rows
        PROVE  /\ pie[e] \in Nat
               /\ 100 * res[e] <= d * pie[e] + (d - 1)
               /\ d * pie[e] <= 100 * res[e] + 0
    <3>. DEFINE x == res[e] * 100
    <3>0. x \in Nat /\ pie[e] = x \div d /\ x = 100 * res[e]
      BY <1>1, <2>4
    <3>. HIDE DEF x
    <3>1. pie[e] \in Nat /\ d * pie[e] <= x /\ x < d * pie[e] + d
      BY ONLY <2>3, <3>0, DivisionBounds
    <3>. DEFINE dp == d * pie[e]
    <3>2. dp \in Nat
      BY ONLY <2>3, <3>1
    <3>3. dp <= x /\ x < dp + d
      BY ONLY <3>1
    <3>. HIDE DEF dp
    <3>4. x <= dp + (d - 1) /\ dp <= x + 0
      BY ONLY <2>3, <3>0, <3>2, <3>3
    <3>. QED
      BY ONLY <3>0, <3>1, <3>4 DEF dp
  <2>6. P \in Nat /\ n \in Nat
    BY <2>5, TotalNat, FS_CardinalityType
  <2>7. n # 0
    BY <1>3, FS_EmptySet
  <2>8. /\ 100 * Total(res, rows) <= d * P + (d - 1) * n
        /\ d * P <= 100 * Total(res, rows) + 0 * n
    <3>. DEFINE k == 100   lo == d - 1   hi == 0
    <3>1. lo \in Nat /\ hi \in Nat /\ k \in Nat /\ d \in Nat
      BY <2>3
    <3>2. \A e \in rows : res[e] \in Nat /\ pie[e] \in Nat
      BY <2>5
    <3>3. \A e \in rows : /\ k * res[e] <= d * pie[e] + lo
                          /\ d * pie[e] <= k * res[e] + hi
      BY <2>5
    <3>. HIDE DEF k, lo, hi
    <3>4. /\ k * Total(res, rows) <= d * P + lo * n
          /\ d * P <= k * Total(res, rows) + hi * n
      BY ONLY IsFiniteSet(rows), <3>1, <3>2, <3>3, TotalWithin
    <3>. QED
      BY <3>4 DEF k, lo, hi
  <2>. HIDE DEF P, n
  <2>9. 100 * d <= d * P + (d - 1) * n /\ d * P <= 100 * d + 0 * n
    BY <2>8 DEF d
  <2>10. P <= 100
    BY <2>3, <2>6, <2>9, CancelAtMost
  <2>11. P > 100 - n
    <3>1. d * (100 - n) < d * P
      <4>. DEFINE dn == d * n   dP == d * P
      <4>1. dn \in Nat /\ dP \in Nat
        BY <2>3, <2>6
      <4>2. (d - 1) * n = dn - n /\ d * (100 - n) = 100 * d - dn
        BY ONLY <2>3, <2>6
      <4>3. 100 * d <= dP + (dn - n)
        BY <2>9, <4>2
      <4>. HIDE DEF dn, dP
      <4>4. 100 * d - dn < dP
        BY <2>3, <2>6, <2>7, <4>1, <4>3
      <4>. QED
        BY <4>2, <4>4 DEF dP
    <3>. QED
      BY <2>3, <2>6, <3>1, CancelLess
  <2>12. Monotone(res, pie)
    <3>1. SUFFICES ASSUME NEW e \in rows, NEW f \in rows, res[e] <= res[f]
                   PROVE  pie[e] <= pie[f]
      BY <1>1 DEF Monotone
    <3>. DEFINE x == res[e] * 100   z == res[f] * 100
    <3>2. x \in Nat /\ z \in Nat /\ x <= z
      BY <2>4, <3>1
    <3>3. pie[e] = x \div d /\ pie[f] = z \div d
      BY <1>1
    <3>. HIDE DEF x, z
    <3>. QED
      BY ONLY <2>3, <3>2, <3>3, DivisionMonotone
  <2>13. SumOf(pie) = P /\ Cardinality(DOMAIN pie) = n
    BY <1>1 DEF SumOf, P, n
  <2>. QED
    BY <2>10, <2>11, <2>12, <2>13 DEF SharesFit, pie
<1>. QED
  BY <1>2, <1>3

(* Rounded to the nearest, they are half a total more or less. *)
LEMMA RoundedSharesAreFit ==
    ASSUME NEW res, NEW rows, IsFiniteSet(rows),
           \A e \in rows : res[e] \in Nat \ {0}
    PROVE  RoundedSharesFit(res, RoundedShares(res, rows))
<1>. DEFINE pie == RoundedShares(res, rows)
            d == Total(res, rows)
            n == Cardinality(rows)
            P == Total(pie, rows)
<1>1. /\ DOMAIN pie = rows
      /\ \A e \in rows : pie[e] = (res[e] * 200 + d) \div (2 * d)
  BY DEF RoundedShares
<1>2. CASE rows = {}
  <2>1. pie = <<>>
    BY <1>2 DEF RoundedShares
  <2>. QED
    BY <1>1, <1>2, <2>1 DEF RoundedSharesFit, Monotone
<1>3. CASE rows # {}
  <2>1. d \in Nat
    BY TotalNat
  <2>2. PICK y \in rows : TRUE
    BY <1>3
  <2>3. d \in Nat \ {0}
    BY <2>1, <2>2, RowOfTotal
  <2>. HIDE DEF d, pie
  <2>4. \A e \in rows : res[e] * 200 + d \in Nat
    BY <2>3
  <2>. DEFINE b == 2 * d
  <2>5. b \in Nat \ {0}
    BY <2>3
  <2>6. ASSUME NEW e \in rows
        PROVE  /\ pie[e] \in Nat
               /\ 200 * res[e] <= b * pie[e] + d
               /\ b * pie[e] <= 200 * res[e] + d
    <3>. DEFINE x == res[e] * 200 + d
    <3>0. pie[e] = x \div b
      BY <1>1
    <3>6. res[e] \in Nat
      OBVIOUS
    <3>1. x \in Nat /\ x = 200 * res[e] + d
      BY ONLY <2>3, <3>6
    <3>. HIDE DEF b, x
    <3>2. pie[e] \in Nat /\ b * pie[e] <= x /\ x < b * pie[e] + b
      BY ONLY <2>5, <3>0, <3>1, DivisionBounds
    <3>. DEFINE bp == b * pie[e]
    <3>3. bp \in Nat
      BY ONLY <2>5, <3>2
    <3>4. bp <= x /\ x < bp + b
      BY ONLY <3>2
    <3>. HIDE DEF bp
    <3>5. 200 * res[e] <= bp + d /\ bp <= 200 * res[e] + d
      BY ONLY <2>3, <3>1, <3>3, <3>4, <3>6 DEF b
    <3>. QED
      BY <3>2, <3>5 DEF bp
  <2>7. P \in Nat /\ n \in Nat
    BY <2>6, TotalNat, FS_CardinalityType
  <2>. HIDE DEF b
  <2>8. /\ 200 * Total(res, rows) <= b * P + d * n
        /\ b * P <= 200 * Total(res, rows) + d * n
    <3>. DEFINE k == 200
    <3>1. b \in Nat /\ d \in Nat /\ k \in Nat
      BY <2>3, <2>5
    <3>2. \A e \in rows : res[e] \in Nat /\ pie[e] \in Nat
      BY <2>6
    <3>3. \A e \in rows : /\ k * res[e] <= b * pie[e] + d
                          /\ b * pie[e] <= k * res[e] + d
      BY <2>6
    <3>. HIDE DEF k
    <3>4. /\ k * Total(res, rows) <= b * P + d * n
          /\ b * P <= k * Total(res, rows) + d * n
      BY ONLY IsFiniteSet(rows), <3>1, <3>2, <3>3, TotalWithin
    <3>. QED
      BY <3>4 DEF k
  <2>. HIDE DEF P, n
  <2>9. 200 * d <= b * P + d * n /\ b * P <= 200 * d + d * n
    BY <2>8 DEF d
  <2>10. /\ b * P = d * (2 * P)
         /\ 200 * d + d * n = d * (200 + n)
         /\ 200 * d - d * n = d * (200 - n)
    BY <2>3, <2>7 DEF b
  <2>11. d * (200 - n) <= d * (2 * P) /\ d * (2 * P) <= d * (200 + n)
    <3>. DEFINE bP == b * P   dn == d * n
    <3>1. bP \in Nat /\ dn \in Nat
      BY <2>3, <2>5, <2>7
    <3>2. 200 * d <= bP + dn /\ bP <= 200 * d + dn
      BY <2>9
    <3>. HIDE DEF bP, dn
    <3>3. 200 * d - dn <= bP /\ bP <= 200 * d + dn
      BY <2>3, <3>1, <3>2
    <3>. QED
      BY <2>10, <3>3 DEF bP, dn
  <2>12. 200 - n <= 2 * P /\ 2 * P <= 200 + n
    <3>1. 200 - n \in Int /\ 200 + n \in Int /\ 2 * P \in Int
      BY <2>7
    <3>. QED
      BY <2>3, <2>11, <3>1, CancelAtMost
  <2>13. Monotone(res, pie)
    <3>1. ASSUME NEW e \in rows, NEW f \in rows, res[e] <= res[f]
          PROVE  res[e] * 200 + d <= res[f] * 200 + d
      BY <2>3, <3>1
    <3>2. \A e \in rows : pie[e] = (res[e] * 200 + d) \div b
      BY <1>1 DEF b
    <3>. QED
      BY <1>1, <2>4, <2>5, <3>1, <3>2, DivisionMonotone DEF Monotone
  <2>14. SumOf(pie) = P /\ Cardinality(DOMAIN pie) = n
    BY <1>1 DEF SumOf, P, n
  <2>15. 2 * P \in (200 - n)..(200 + n)
    BY <2>7, <2>12
  <2>. QED
    BY <2>13, <2>14, <2>15 DEF RoundedSharesFit, pie
<1>. QED
  BY <1>2, <1>3

(* Whatever numbers of votes the tables hold. *)
LEMMA SlicesAlwaysFit ==
    ASSUME NEW res, IsFiniteSet(DOMAIN res), \A e \in DOMAIN res : res[e] \in Nat
    PROVE  SlicesFit(res)
<1>1. ASSUME NEW s, NEW rows \in SUBSET Rows(res, s)
      PROVE  IsFiniteSet(rows) /\ \A e \in rows : res[e] \in Nat \ {0}
  <2>1. rows \in SUBSET DOMAIN res
    BY DEF Rows
  <2>2. IsFiniteSet(rows)
    BY <2>1, FS_Subset
  <2>3. \A e \in rows : res[e] \in Nat /\ res[e] > 0
    BY <2>1 DEF Rows
  <2>. QED
    BY <2>2, <2>3
<1>2. ASSUME NEW p PROVE SharesFit(res, getCandidatePercentageData(res, p))
  BY <1>1, SharesAreFit DEF getCandidatePercentageData
<1>3. ASSUME NEW g PROVE SharesFit(res, getSexPercentageData(res, g))
  BY <1>1, SharesAreFit DEF getSexPercentageData
<1>4. RoundedSharesFit(res, getPartyPercentageData(res))
  BY <1>1, RoundedSharesAreFit DEF getPartyPercentageData
<1>. QED
  BY <1>2, <1>3, <1>4 DEF SlicesFit

(* ServedPercentages: with the rows there really are, at every moment, the *)
(* slices of every pie that could be fetched are right.                    *)
THEOREM ServedPercentages ==
    ASSUME IsFiniteSet(Entry) PROVE Spec => []SlicesFit(tab)
<1>1. TypeOK => SlicesFit(tab)
  <2>1. SUFFICES ASSUME TabTypeOK PROVE SlicesFit(tab)
    BY DEF TypeOK
  <2>2. DOMAIN tab = Entry /\ \A e \in Entry : tab[e] \in Nat
    <3>1. Count \cup {0} \subseteq Nat
      BY CountAssumption
    <3>. QED
      BY <2>1, <3>1 DEF TabTypeOK
  <2>. QED
    BY <2>2, SlicesAlwaysFit
<1>. QED
  BY <1>1, TypeCorrect, PTL

LEMMA FiniteRows ==
    ASSUME NEW s, NEW K, IsFiniteSet(K)
    PROVE  IsFiniteSet({s} \X K)
  BY FS_Singleton, FS_Product

LEMMA FiniteTriple ==
    ASSUME NEW a, NEW b, NEW c
    PROVE  IsFiniteSet({a, b}) /\ IsFiniteSet({a, b, c})
<1>1. IsFiniteSet({a} \cup {b})
  BY FS_Singleton, FS_AddElement
<1>2. {a, b} = {a} \cup {b}
  OBVIOUS
<1>3. IsFiniteSet({a, b})
  BY ONLY <1>1, <1>2
<1>4. IsFiniteSet({a, b} \cup {c})
  BY <1>3, FS_AddElement
<1>5. {a, b, c} = {a, b} \cup {c}
  OBVIOUS
<1>6. IsFiniteSet({a, b, c})
  BY ONLY <1>4, <1>5
<1>. QED
  BY ONLY <1>3, <1>6

LEMMA SlicesOfEveryTable == EverySliceFits
<1>1. /\ IsFiniteSet({<<c>> : c \in 1..3}) /\ IsFiniteSet({<<1>>, <<2>>})
      /\ IsFiniteSet({<<1, 1>>, <<2, 1>>, <<1, 2>>})
  <2>1. {<<c>> : c \in 1..3} = {<<1>>, <<2>>, <<3>>}
    OBVIOUS
  <2>2. IsFiniteSet({<<1>>, <<2>>}) /\ IsFiniteSet({<<1>>, <<2>>, <<3>>})
    BY FiniteTriple
  <2>3. IsFiniteSet({<<1, 1>>, <<2, 1>>, <<1, 2>>})
    BY FiniteTriple
  <2>. QED
    BY ONLY <2>1, <2>2, <2>3
<1>. DEFINE D == ({"candidates"} \X {<<c>> : c \in 1..3}) \cup ({"percent"} \X {<<1>>, <<2>>})
            E == {"sex"} \X {<<1, 1>>, <<2, 1>>, <<1, 2>>}
<1>2. IsFiniteSet(D) /\ IsFiniteSet(E)
  BY <1>1, FiniteRows, FS_Union
<1>3. PieTables = [D -> {0, 1, 2, 5}] /\ SexTables = [E -> {0, 1, 2, 5}]
  BY DEF PieTables, SexTables
<1>. HIDE DEF D, E
<1>4. ASSUME NEW t \in PieTables \cup SexTables
      PROVE  IsFiniteSet(DOMAIN t) /\ \A e \in DOMAIN t : t[e] \in Nat
  BY <1>2, <1>3
<1>. QED
  BY <1>4, SlicesAlwaysFit DEF EverySliceFits

(* Percentages: the slices of every table the run looks at are right, as   *)
(* those of any other are.                                                 *)
THEOREM Percentages == Spec => []PercentagesFit
<1>1. PercentagesFit
  BY SlicesOfEveryTable DEF PercentagesFit
<1>. QED
  BY <1>1, PTL

(***************************************************************************)
(* Sorted sequences.                                                       *)
(***************************************************************************)

(* A strict total order *)
IsOrder(R, S) ==
    /\ \A x \in S : <<x, x>> \notin R
    /\ \A x, y \in S : x # y => <<x, y>> \in R \/ <<y, x>> \in R
    /\ \A x, y, z \in S : <<x, y>> \in R /\ <<y, z>> \in R => <<x, z>> \in R

LEMMA GreatestExists ==
    ASSUME NEW S, IsFiniteSet(S), S # {}, NEW R, IsOrder(R, S)
    PROVE  \E x \in S : \A y \in S : y # x => <<y, x>> \in R
<1>. DEFINE HasGreatest(T) == \E x \in T : \A y \in T : y # x => <<y, x>> \in R
            Good == {T \in SUBSET S : T # {} => HasGreatest(T)}
<1>1. ASSUME NEW T \in SUBSET S, \A x \in T : T \ {x} \in Good
      PROVE  T \in Good
  <2>1. SUFFICES ASSUME NEW x \in T PROVE HasGreatest(T)
    OBVIOUS
  <2>2. CASE T \ {x} = {}
    BY <2>2
  <2>3. CASE T \ {x} # {}
    <3>1. PICK z \in T \ {x} : \A y \in T \ {x} : y # z => <<y, z>> \in R
      BY <1>1, <2>3
    <3>2. CASE <<x, z>> \in R
      BY <3>1, <3>2
    <3>3. CASE <<z, x>> \in R
      <4>1. \A y \in T : y # x => <<y, x>> \in R
        BY <3>1, <3>3 DEF IsOrder
      <4>. QED
        BY <4>1
    <3>. QED
      BY <3>1, <3>2, <3>3 DEF IsOrder
  <2>. QED
    BY <2>2, <2>3
<1>. HIDE DEF Good
<1>2. Good \in SUBSET (SUBSET S)
  BY DEF Good
<1>3. S \in Good
  BY <1>1, <1>2, SubsetInduction
<1>. QED
  BY <1>3 DEF Good

LEMMA MinOf ==
    ASSUME NEW S \in SUBSET Int, IsFiniteSet(S), S # {}
    PROVE  Min(S) \in S /\ \A y \in S : Min(S) <= y
<1>. DEFINE R == {e \in S \X S : e[2] < e[1]}
<1>0. \A x, y \in S : <<y, x>> \in R <=> x < y
  OBVIOUS
<1>. HIDE DEF R
<1>1. IsOrder(R, S)
  BY <1>0 DEF IsOrder
<1>2. PICK x \in S : \A y \in S : y # x => <<y, x>> \in R
  BY <1>1, GreatestExists
<1>3. \A y \in S : x <= y
  <2>1. TAKE y \in S
  <2>2. CASE y = x
    BY <2>2
  <2>3. CASE y # x
    <3>1. <<y, x>> \in R
      BY <1>2, <2>3
    <3>2. x < y /\ x \in Int /\ y \in Int
      BY ONLY <1>0, <3>1, S \in SUBSET Int
    <3>. QED
      BY <3>2
  <2>. QED
    BY <2>2, <2>3
<1>. QED
  BY <1>3 DEF Min

InOrder(f, S, R) ==
    /\ f \in [1..Cardinality(S) -> S]
    /\ \A i, j \in 1..Cardinality(S) : i < j => <<f[i], f[j]>> \in R

LEMMA SortedExists ==
    ASSUME NEW S, IsFiniteSet(S), NEW R, IsOrder(R, S)
    PROVE  \E f : InOrder(f, S, R)
<1>. DEFINE Good == {T \in SUBSET S : \E f : InOrder(f, T, R)}
<1>1. ASSUME NEW T \in SUBSET S, \A x \in T : T \ {x} \in Good
      PROVE  T \in Good
  <2>0. IsFiniteSet(T)
    BY FS_Subset
  <2>1. CASE T = {}
    <3>1. 1..Cardinality(T) = {}
      BY <2>1, FS_EmptySet
    <3>2. InOrder([i \in 1..Cardinality(T) |-> i], T, R)
      BY <3>1 DEF InOrder
    <3>. QED
      BY <3>2
  <2>2. CASE T # {}
    <3>1. IsOrder(R, T)
      BY DEF IsOrder
    <3>2. PICK x \in T : \A y \in T : y # x => <<y, x>> \in R
      BY <2>0, <2>2, <3>1, GreatestExists
    <3>3. PICK f : InOrder(f, T \ {x}, R)
      BY <1>1, <3>2
    <3>. DEFINE n == Cardinality(T)
                g == [i \in 1..n |-> IF i = n THEN x ELSE f[i]]
    <3>4. n \in Nat /\ Cardinality(T \ {x}) = n - 1
      BY <2>0, <3>2, FS_RemoveElement, FS_CardinalityType
    <3>. HIDE DEF n
    <3>5. \A i \in 1..n : i # n => i \in 1..(n - 1)
      BY <3>4
    <3>6. /\ f \in [1..(n - 1) -> T \ {x}]
          /\ \A i, j \in 1..(n - 1) : i < j => <<f[i], f[j]>> \in R
      BY <3>3, <3>4 DEF InOrder
    <3>7. g \in [1..n -> T]
      BY <3>2, <3>5, <3>6
    <3>8. ASSUME NEW i \in 1..n, NEW j \in 1..n, i < j
          PROVE  <<g[i], g[j]>> \in R
      <4>1. i # n /\ i \in 1..(n - 1)
        BY <3>4, <3>8
      <4>2. g[i] = f[i] /\ f[i] \in T \ {x}
        BY <3>6, <4>1
      <4>3. CASE j = n
        BY <3>2, <4>2, <4>3
      <4>4. CASE j # n
        BY <3>5, <3>6, <3>8, <4>1, <4>2, <4>4
      <4>. QED
        BY <4>3, <4>4
    <3>. HIDE DEF g
    <3>9. InOrder(g, T, R)
      BY <3>7, <3>8 DEF InOrder, n
    <3>. QED
      BY <3>9
  <2>. QED
    BY <2>1, <2>2
<1>. HIDE DEF Good
<1>2. Good \in SUBSET (SUBSET S)
  BY DEF Good
<1>3. S \in Good
  BY <1>1, <1>2, SubsetInduction
<1>. QED
  BY <1>3 DEF Good

(* Sorted holds each member once, in order. *)
LEMMA SortedIsSorted ==
    ASSUME NEW S, IsFiniteSet(S), NEW R, IsOrder(R, S)
    PROVE  /\ InOrder(Sorted(S, R), S, R)
           /\ IsInjective(Sorted(S, R))
           /\ ToSet(Sorted(S, R)) = S
<1>. DEFINE n == Cardinality(S)
            f == Sorted(S, R)
<1>1. InOrder(f, S, R)
  BY SortedExists DEF Sorted, InOrder
<1>2. n \in Nat
  BY FS_CardinalityType
<1>. HIDE DEF n, f
<1>3. f \in [1..n -> S] /\ \A i, j \in 1..n : i < j => <<f[i], f[j]>> \in R
  BY <1>1 DEF InOrder, n
<1>4. IsInjective(f)
  <2>1. ASSUME NEW i \in 1..n, NEW j \in 1..n, i < j PROVE f[i] # f[j]
    BY <1>3, <2>1 DEF IsOrder
  <2>2. \A i, j \in 1..n : i < j \/ j < i \/ i = j
    OBVIOUS
  <2>. QED
    BY <1>3, <2>1, <2>2 DEF IsInjective
<1>5. ToSet(f) = S
  <2>1. IsFiniteSet(1..n) /\ Cardinality(1..n) = n
    BY <1>2, FS_Interval
  <2>2. f \in Injection(1..n, S)
    BY <1>3, <1>4 DEF Injection
  <2>3. f \in Surjection(1..n, S)
    BY <2>1, <2>2, FS_Injection DEF n
  <2>. QED
    BY <1>3, <2>3 DEF Surjection, ToSet
<1>. QED
  BY <1>1, <1>4, <1>5 DEF f

(***************************************************************************)
(* Columns.                                                                *)
(***************************************************************************)

LEMMA ImageFinite ==
    ASSUME NEW S, IsFiniteSet(S), NEW f
    PROVE  IsFiniteSet({f[x] : x \in S})
<1>. DEFINE T == {f[x] : x \in S}
            g == [x \in S |-> f[x]]
<1>1. g \in Surjection(S, T)
  BY DEF Surjection
<1>. QED
  BY <1>1, FS_Surjection

(* The rows of table s have a party and a key, both numbers. *)
TwoKeys(res, s) ==
    /\ IsFiniteSet(DOMAIN res)
    /\ \A e \in DOMAIN res : e[1] = s => e = <<s, <<e[2][1], e[2][2]>>>> /\ e[2] \in Int \X Int

LEMMA KeysAndParties ==
    ASSUME NEW res, NEW s, TwoKeys(res, s)
    PROVE  /\ LabelSet(res, s) \subseteq Int /\ IsFiniteSet(LabelSet(res, s))
           /\ PartiesIn(res, s) \subseteq Int /\ IsFiniteSet(PartiesIn(res, s))
           /\ \A p : KeysOf(res, s, p) \subseteq LabelSet(res, s)
           /\ \A p : IsFiniteSet(KeysOf(res, s, p))
           /\ \A k \in LabelSet(res, s) : \E p \in PartiesIn(res, s) : k \in KeysOf(res, s, p)
<1>. DEFINE rows == Rows(res, s)
<1>1. IsFiniteSet(rows)
  BY FS_Subset DEF Rows, TwoKeys
<1>2. \A e \in rows : e[2][1] \in Int /\ e[2][2] \in Int
  BY DEF Rows, TwoKeys
<1>. HIDE DEF rows
<1>3. LabelSet(res, s) \subseteq Int /\ PartiesIn(res, s) \subseteq Int
  BY <1>2 DEF LabelSet, PartiesIn, rows
<1>4. IsFiniteSet(LabelSet(res, s)) /\ IsFiniteSet(PartiesIn(res, s))
  <2>. DEFINE key == [e \in rows |-> e[2][2]]
              party == [e \in rows |-> e[2][1]]
  <2>1. /\ LabelSet(res, s) = {key[e] : e \in rows}
        /\ PartiesIn(res, s) = {party[e] : e \in rows}
    BY DEF LabelSet, PartiesIn, rows
  <2>. HIDE DEF key, party
  <2>. QED
    BY <1>1, <2>1, ImageFinite
<1>5. \A p : KeysOf(res, s, p) \subseteq LabelSet(res, s)
  BY DEF KeysOf, LabelSet
<1>6. \A p : IsFiniteSet(KeysOf(res, s, p))
  BY <1>4, <1>5, FS_Subset
<1>7. ASSUME NEW k \in LabelSet(res, s)
      PROVE  \E p \in PartiesIn(res, s) : k \in KeysOf(res, s, p)
  <2>1. PICK e \in rows : k = e[2][2]
    BY DEF LabelSet, rows
  <2>. QED
    BY <2>1 DEF PartiesIn, KeysOf, rows
<1>. QED
  BY <1>3, <1>4, <1>5, <1>6, <1>7

LEMMA AscendingSorted ==
    ASSUME NEW S \in SUBSET Int, IsFiniteSet(S)
    PROVE  /\ InOrder(Sorted(S, Ascending(S)), S, Ascending(S))
           /\ ToSet(Sorted(S, Ascending(S))) = S
           /\ \A x, y \in S : <<x, y>> \in Ascending(S) <=> x < y
<1>1. \A x, y \in S : <<x, y>> \in Ascending(S) <=> x < y
  BY DEF Ascending
<1>2. IsOrder(Ascending(S), S)
  BY <1>1 DEF IsOrder
<1>. QED
  BY <1>1, <1>2, SortedIsSorted

(* The first party with a key is one of the parties that have it. *)
LEMMA FirstPartyHasKey ==
    ASSUME NEW res, NEW s, TwoKeys(res, s), NEW k \in LabelSet(res, s)
    PROVE  /\ FirstParty(res, s, k) \in Int
           /\ \A p \in PartiesIn(res, s) :
                 k \in KeysOf(res, s, p) => FirstParty(res, s, k) <= p
<1>. DEFINE P == {p \in PartiesIn(res, s) : k \in KeysOf(res, s, p)}
<1>1. P \in SUBSET Int /\ IsFiniteSet(P) /\ P # {}
  BY KeysAndParties, FS_Subset
<1>. HIDE DEF P
<1>2. Min(P) \in P /\ \A y \in P : Min(P) <= y
  BY <1>1, MinOf
<1>3. FirstParty(res, s, k) = Min(P)
  BY DEF FirstParty, P
<1>. QED
  BY <1>1, <1>2, <1>3 DEF P

(* Labels are in order of the first party that has them, each once. *)
LEMMA LabelsSorted ==
    ASSUME NEW res, NEW s, TwoKeys(res, s)
    PROVE  /\ InOrder(Labels(res, s), LabelSet(res, s), LabelOrder(res, s))
           /\ IsInjective(Labels(res, s))
           /\ ToSet(Labels(res, s)) = LabelSet(res, s)
<1>. DEFINE L == LabelSet(res, s)
            fp == [k \in L |-> FirstParty(res, s, k)]
            R == LabelOrder(res, s)
<1>1. \A x, y \in L : <<x, y>> \in R <=> fp[x] < fp[y] \/ (fp[x] = fp[y] /\ x < y)
  BY DEF LabelOrder
<1>2. \A k \in L : fp[k] \in Int /\ k \in Int
  BY FirstPartyHasKey, KeysAndParties
<1>3. IsFiniteSet(L)
  BY KeysAndParties
<1>. HIDE DEF L, fp, R
<1>4. IsOrder(R, L)
  <2>1. \A x \in L : <<x, x>> \notin R
    BY <1>1, <1>2
  <2>2. \A x, y \in L : x # y => <<x, y>> \in R \/ <<y, x>> \in R
    BY <1>1, <1>2
  <2>3. \A x, y, z \in L : <<x, y>> \in R /\ <<y, z>> \in R => <<x, z>> \in R
    <3>1. TAKE x, y, z \in L
    <3>2. /\ {x, y, z, fp[x], fp[y], fp[z]} \subseteq Int
      BY <1>2
    <3>. QED
      BY <1>1, <3>2
  <2>. QED
    BY <2>1, <2>2, <2>3 DEF IsOrder
<1>. QED
  BY <1>3, <1>4, SortedIsSorted DEF Labels, L, R

Increasing(f, S) ==
    /\ f \in [1..Cardinality(S) -> S]
    /\ ToSet(f) = S
    /\ \A i, j \in 1..Cardinality(S) : i < j => f[i] < f[j]

(* Sorted sequences f of a set and g of part of it agree as long as f is   *)
(* in that part.                                                           *)
LEMMA SamePrefix ==
    ASSUME NEW L \in SUBSET Int, IsFiniteSet(L), NEW K \in SUBSET L,
           NEW f, Increasing(f, L), NEW g, Increasing(g, K),
           NEW i \in 1..Cardinality(K), \A j \in 1..i : f[j] \in K
    PROVE  g[i] = f[i]
<1>. DEFINE m == Cardinality(K)
            n == Cardinality(L)
<1>1. IsFiniteSet(K) /\ m \in Nat /\ n \in Nat /\ m <= n
  BY FS_Subset, FS_CardinalityType
<1>. DEFINE Wrong == {j \in 1..i : g[j] # f[j]}
<1>2. SUFFICES ASSUME Wrong # {} PROVE FALSE
  <2>1. i \in 1..i
    BY <1>1
  <2>. QED
    BY <2>1
<1>3. Wrong \in SUBSET Int /\ IsFiniteSet(Wrong)
  <2>1. IsFiniteSet(1..i)
    BY <1>1, FS_Interval
  <2>. QED
    BY <2>1, FS_Subset
<1>. DEFINE j == Min(Wrong)
<1>. HIDE DEF Wrong, m, n
<1>4. j \in Wrong /\ \A h \in Wrong : j <= h
  BY <1>2, <1>3, MinOf
<1>. HIDE DEF j
<1>5. j \in 1..i /\ g[j] # f[j] /\ \A h \in 1..i : h < j => g[h] = f[h]
  BY <1>1, <1>4 DEF Wrong, m
<1>6. \A h \in 1..i : h \in 1..m /\ h \in 1..n
  BY <1>1 DEF m
<1>7. /\ f \in [1..n -> L] /\ g \in [1..m -> K]
      /\ \A a, b \in 1..n : a < b => f[a] < f[b]
      /\ \A a, b \in 1..m : a < b => g[a] < g[b]
      /\ ToSet(f) = L /\ ToSet(g) = K
  BY DEF m, n, Increasing
<1>8. PICK a \in 1..m : g[a] = f[j]
  <2>1. f[j] \in ToSet(g)
    BY <1>5, <1>7
  <2>. QED
    BY <1>7, <2>1 DEF ToSet
<1>9. PICK b \in 1..n : f[b] = g[j]
  <2>1. g[j] \in ToSet(f)
    BY <1>5, <1>6, <1>7
  <2>. QED
    BY <1>7, <2>1 DEF ToSet
<1>10. i \in 1..m /\ i \in Int
  BY <1>1 DEF m
<1>11. ~(a < j)
  <2>1. SUFFICES ASSUME a < j PROVE FALSE
    OBVIOUS
  <2>2. a \in 1..i
    BY <1>5, <1>8, <1>10, <2>1
  <2>3. f[a] = f[j] /\ f[a] < f[j] /\ f[j] \in Int
    BY <1>5, <1>6, <1>7, <1>8, <2>1, <2>2
  <2>. QED
    BY <2>3
<1>12. a > j
  <2>1. a # j /\ a \in Int /\ j \in Int
    BY <1>5, <1>8
  <2>. QED
    BY <1>11, <2>1
<1>13. g[j] < f[j]
  BY <1>5, <1>6, <1>7, <1>8, <1>12
<1>14. b < j
  <2>1. f[b] < f[j] /\ b \in 1..n /\ j \in 1..n
    BY <1>5, <1>6, <1>9, <1>13
  <2>2. \A x \in 1..n : f[x] \in Int
    BY <1>7
  <2>. QED
    BY <1>7, <2>1, <2>2
<1>15. b \in 1..i
  BY <1>5, <1>9, <1>10, <1>14
<1>16. g[b] = g[j] /\ g[b] < g[j] /\ g[j] \in Int
  BY <1>5, <1>6, <1>7, <1>9, <1>14, <1>15
<1>. QED
  BY <1>16

(* Whatever rows there are. *)
LEMMA ColumnsAlwaysFit ==
    ASSUME NEW res, NEW s, TwoKeys(res, s)
    PROVE  ColumnsFit(res, s)
<1>. DEFINE labels == Labels(res, s)
            L == LabelSet(res, s)
            P == PartiesIn(res, s)
<1>1. /\ InOrder(labels, L, LabelOrder(res, s))
      /\ IsInjective(labels)
      /\ ToSet(labels) = L
  BY LabelsSorted
<1>. HIDE DEF labels
<1>2. ASSUME L # {}, KeysOf(res, s, Min(P)) = L,
             NEW p \in P, NEW i \in DOMAIN Columns(res, s, p),
             \A j \in 1..i : labels[j] \in KeysOf(res, s, p)
      PROVE  Columns(res, s, p)[i] = res[<<s, <<p, labels[i]>>>>]
  <2>. DEFINE K == KeysOf(res, s, p)
              ks == Sorted(K, Ascending(K))
              f == Min(P)
  <2>1. K \in SUBSET L /\ L \in SUBSET Int /\ IsFiniteSet(L) /\ IsFiniteSet(K)
    BY KeysAndParties
  <2>2. P \in SUBSET Int /\ IsFiniteSet(P) /\ P # {}
    BY KeysAndParties
  <2>3. InOrder(ks, K, Ascending(K)) /\ ToSet(ks) = K
    BY <2>1, AscendingSorted
  <2>4. \A x, y \in K : <<x, y>> \in Ascending(K) => x < y
    BY DEF Ascending
  <2>5. f \in P /\ \A q \in P : f <= q
    BY <2>2, MinOf
  <2>6. ASSUME NEW k \in L PROVE FirstParty(res, s, k) = f
    <3>. DEFINE Q == {q \in P : k \in KeysOf(res, s, q)}
    <3>1. f \in Q
      BY <1>2, <2>5
    <3>2. \A q \in Q : f <= q
      BY <2>5
    <3>3. Q \in SUBSET Int /\ IsFiniteSet(Q)
      BY <2>2, FS_Subset
    <3>4. FirstParty(res, s, k) = Min(Q)
      BY DEF FirstParty
    <3>. HIDE DEF Q, f
    <3>5. Min(Q) \in Q /\ Min(Q) <= f
      BY <3>1, <3>3, MinOf
    <3>6. f <= Min(Q) /\ f \in Int /\ Min(Q) \in Int
      BY <3>1, <3>2, <3>3, <3>5
    <3>. QED
      BY <3>4, <3>5, <3>6
  <2>7. \A x, y \in L : <<x, y>> \in LabelOrder(res, s) => x < y
    <3>1. TAKE x, y \in L
    <3>2. f \in Int
      BY <2>2, <2>5
    <3>. HIDE DEF f
    <3>. QED
      BY <2>6, <3>2 DEF LabelOrder
  <2>. HIDE DEF K, ks, f
  <2>8. /\ labels \in [1..Cardinality(L) -> L]
        /\ \A a, b \in 1..Cardinality(L) : a < b => labels[a] < labels[b]
    BY <1>1, <2>7 DEF InOrder
  <2>9. /\ ks \in [1..Cardinality(K) -> K]
        /\ \A a, b \in 1..Cardinality(K) : a < b => ks[a] < ks[b]
    BY <2>3, <2>4 DEF InOrder
  <2>10. Columns(res, s, p) = [x \in DOMAIN ks |-> res[<<s, <<p, ks[x]>>>>]]
    BY DEF Columns, ks, K
  <2>11. i \in 1..Cardinality(K) /\ \A j \in 1..i : labels[j] \in K
    BY <1>2, <2>9, <2>10 DEF K
  <2>12. ks[i] = labels[i]
    <3>. HIDE DEF L
    <3>1. Increasing(labels, L) /\ Increasing(ks, K)
      BY <1>1, <2>3, <2>8, <2>9 DEF Increasing
    <3>. QED
      BY <2>1, <2>11, <3>1, SamePrefix
  <2>. QED
    BY <2>9, <2>10, <2>11, <2>12
<1>3. labels # <<>> => L # {}
  <2>1. ASSUME L = {} PROVE labels = <<>>
    <3>1. 1..Cardinality(L) = {}
      BY <2>1, FS_EmptySet
    <3>2. labels \in [{} -> L]
      BY <1>1, <3>1 DEF InOrder
    <3>. QED
      BY <3>2
  <2>. QED
    BY <2>1
<1>4. ColumnsFit(res, s) =
        /\ ToSet(labels) = L /\ IsInjective(labels)
        /\ labels # <<>> /\ KeysOf(res, s, Min(P)) = ToSet(labels) =>
              \A p \in P : \A i \in DOMAIN Columns(res, s, p) :
                  (\A j \in 1..i : labels[j] \in KeysOf(res, s, p)) =>
                      Columns(res, s, p)[i] = res[<<s, <<p, labels[i]>>>>]
  BY DEF ColumnsFit, labels
<1>. HIDE DEF L, P
<1>. QED
  BY <1>1, <1>2, <1>3, <1>4

(* ServedColumns: with the rows there really are, at every moment, every   *)
(* column chart that could be fetched is as it should be.                  *)
THEOREM ServedColumns ==
    ASSUME IsFiniteSet(Entry), NEW s \in {Mixed[v] : v \in DOMAIN Mixed},
           \A e \in Entry : e[1] = s => e = <<s, <<e[2][1], e[2][2]>>>> /\ e[2] \in Int \X Int
    PROVE  Spec => []ColumnsFit(tab, s)
<1>1. TypeOK => ColumnsFit(tab, s)
  <2>1. SUFFICES ASSUME TabTypeOK PROVE ColumnsFit(tab, s)
    BY DEF TypeOK
  <2>2. DOMAIN tab = Entry
    BY <2>1 DEF TabTypeOK
  <2>3. TwoKeys(tab, s)
    BY <2>2 DEF TwoKeys
  <2>. QED
    BY <2>3, ColumnsAlwaysFit
<1>. QED
  BY <1>1, TypeCorrect, PTL

LEMMA ColumnsOfEveryTable == EveryColumnFits
<1>1. SUFFICES ASSUME NEW t \in ColumnTables PROVE TwoKeys(t, "age")
  BY ColumnsAlwaysFit DEF EveryColumnFits
<1>. DEFINE K == (1..2) \X (1..3)
<1>2. DOMAIN t = {"age"} \X K
  BY DEF ColumnTables
<1>3. IsFiniteSet(K)
  <2>1. 1..2 = {1, 2} /\ 1..3 = {1, 2, 3}
    OBVIOUS
  <2>2. IsFiniteSet({1, 2}) /\ IsFiniteSet({1, 2, 3})
    BY FiniteTriple
  <2>. QED
    BY ONLY <2>1, <2>2, FS_Product
<1>4. IsFiniteSet(DOMAIN t)
  <2>. HIDE DEF K
  <2>1. IsFiniteSet({"age"} \X K)
    BY ONLY <1>3, FiniteRows
  <2>. QED
    BY ONLY <1>2, <2>1
<1>5. \A e \in {"age"} \X K :
         e = <<"age", <<e[2][1], e[2][2]>>>> /\ e[2] \in Int \X Int
  OBVIOUS
<1>. HIDE DEF K
<1>. QED
  BY <1>2, <1>4, <1>5 DEF TwoKeys

(* Aligned: labels and columns of every table the run looks at are as they *)
(* should be, as those of any other are.                                   *)
THEOREM Aligned == Spec => []AlignedWhenFull
<1>1. AlignedWhenFull
  BY ColumnsOfEveryTable DEF AlignedWhenFull
<1>. QED
  BY <1>1, PTL

==============================================================================
