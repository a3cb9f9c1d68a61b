--------------------------- MODULE Ledgers_proofs ---------------------------
(***************************************************************************)
(* The books of the accounts (BooksAddUp), for any files, quotes and cuts, *)
(* and the results of the Paper orders (ResultsAddUp), for any executions, *)
(* attempts, costs and days.                                               *)
(*                                                                         *)
(* Part 1, more of finite sums: of both terms, of a multiple, of renamed   *)
(* elements, and by rows or by columns.                                    *)
(*                                                                         *)
(* Part 2, rows in the order of a date: one is the latest, and their list  *)
(* has each of them once.                                                  *)
(*                                                                         *)
(* Part 3, titles: without splits, what is held after some rows is what    *)
(* they add less what they take, and a book that is not refused was        *)
(* refused at none of its earlier rows.                                    *)
(*                                                                         *)
(* Part 4, the book at a cut as sums over rows of the file.                *)
(*                                                                         *)
(* Part 5, the bridges: the balance of an asset after a move is what the   *)
(* ledger holds after the rows up to it (BalanceIsHeld), so it is never    *)
(* less than nothing; and the rows due by the later cut are those due by   *)
(* the first with those that settle between them (CashAddsUp).             *)
(*                                                                         *)
(* Part 6, the value: row by row, what a row brings in is what it adds to  *)
(* the titles at their quotes and to the cash.                             *)
(*                                                                         *)
(* Part 7, the accounts: an injective mapping renames the rows of a draft  *)
(* as holdings, and the sums by series and by account are one.             *)
(*                                                                         *)
(* Part 8, Estimates: the invariant says that an answer is the one the     *)
(* code gives to what was asked.                                           *)
(*                                                                         *)
(* Part 9, the results of the Paper orders: the book of some trades is     *)
(* that of the trades before the last one, with it taken (BookUnfolds).    *)
(*                                                                         *)
(* Part 10, a sale takes what it needs of the lots, the older first.       *)
(*                                                                         *)
(* Part 11, the invariant of the book (BookInv), trade by trade: what is   *)
(* left of a lot and what sales used of it is what was bought; what a sale *)
(* used is what it sold, and all of it was bought before.                  *)
(*                                                                         *)
(* Parts 12 and 13, the rows and the curve are sums over one table, of     *)
(* what each sale used of each lot: by lots for a row, by sales for a day. *)
(*                                                                         *)
(* Part 14, the two readings are one book under other names.               *)
(***************************************************************************)
EXTENDS Amounts_proofs

-----------------------------------------------------------------------------
(* Part 1: more of finite sums. *)

\* What is equal term by term has the same sum.
LEMMA SumSame ==
  ASSUME NEW S, IsFiniteSet(S), NEW f, NEW g, \A x \in S : f[x] \in Int /\ g[x] = f[x]
  PROVE  SumFunctionOnSet(f, S) = SumFunctionOnSet(g, S) /\ SumFunctionOnSet(f, S) \in Int
<1> DEFINE F == SumFunctionOnSet(f, S)
           G == SumFunctionOnSet(g, S)
<1>1. \A x \in S : f[x] * 1 <= g[x] /\ g[x] * 1 <= f[x] /\ g[x] \in Int
  OBVIOUS
<1>2. F \in Int /\ G \in Int /\ F * 1 <= G
  BY <1>1, SumIsCovered
<1>3. G * 1 <= F
  BY <1>1, SumIsCovered
<1> HIDE DEF F, G
<1>4. F = G
  BY <1>2, <1>3
<1> QED BY <1>2, <1>4 DEF F, G

\* The sum of both terms.
LEMMA SumOfSums ==
  ASSUME NEW S, IsFiniteSet(S), NEW f, NEW g, NEW h,
         \A x \in S : f[x] \in Int /\ g[x] \in Int /\ h[x] = f[x] + g[x]
  PROVE  SumFunctionOnSet(h, S) = SumFunctionOnSet(f, S) + SumFunctionOnSet(g, S)
<1> DEFINE F(s) == SumFunctionOnSet(f, s)
           G(s) == SumFunctionOnSet(g, s)
           H(s) == SumFunctionOnSet(h, s)
           Both(s) == H(s) = F(s) + G(s)
           T == {s \in SUBSET S : Both(s)}
<1>1. {} \in T
  <2>1. F({}) = 0 /\ G({}) = 0 /\ H({}) = 0
    BY SumOfNothing
  <2> HIDE DEF F, G, H
  <2> QED BY <2>1
<1>2. ASSUME NEW s \in T, NEW x \in S \ s
      PROVE  s \cup {x} \in T
  <2>1. IsFiniteSet(s) /\ x \notin s /\ (\A y \in s \cup {x} : f[y] \in Int /\ g[y] \in Int /\ h[y] \in Int)
    BY FS_Subset
  <2>2. /\ F(s \cup {x}) = f[x] + F(s) /\ G(s \cup {x}) = g[x] + G(s) /\ H(s \cup {x}) = h[x] + H(s)
        /\ F(s) \in Int /\ G(s) \in Int
    BY <2>1, SumAdds
  <2>3. Both(s) /\ f[x] \in Int /\ g[x] \in Int /\ h[x] = f[x] + g[x]
    OBVIOUS
  <2> HIDE DEF F, G, H
  <2>4. Both(s \cup {x})
    BY <2>2, <2>3
  <2> QED BY <2>4
<1>3. T = SUBSET S
  <2>1. T \in SUBSET SUBSET S
    OBVIOUS
  <2> HIDE DEF T
  <2> QED BY <1>1, <1>2, <2>1, SetInduction
<1>4. Both(S)
  BY <1>3
<1> QED BY <1>4

\* The sum of a multiple.
LEMMA SumTimes ==
  ASSUME NEW S, IsFiniteSet(S), NEW k \in Int, NEW f, NEW h,
         \A x \in S : f[x] \in Int /\ h[x] = f[x] * k
  PROVE  SumFunctionOnSet(h, S) = SumFunctionOnSet(f, S) * k
<1> DEFINE F(s) == SumFunctionOnSet(f, s)
           H(s) == SumFunctionOnSet(h, s)
           Times(s) == H(s) = F(s) * k
           T == {s \in SUBSET S : Times(s)}
<1>0. \A a, b \in Int : (a + b) * k = a * k + b * k /\ a * k \in Int
  OBVIOUS
<1>1. {} \in T
  <2>1. F({}) = 0 /\ H({}) = 0
    BY SumOfNothing
  <2> HIDE DEF F, H
  <2> QED BY <2>1
<1>2. ASSUME NEW s \in T, NEW x \in S \ s
      PROVE  s \cup {x} \in T
  <2>1. IsFiniteSet(s) /\ x \notin s /\ (\A y \in s \cup {x} : f[y] \in Int /\ h[y] \in Int)
    BY <1>0, FS_Subset
  <2>2. F(s \cup {x}) = f[x] + F(s) /\ H(s \cup {x}) = h[x] + H(s) /\ F(s) \in Int
    BY <2>1, SumAdds
  <2>3. Times(s) /\ f[x] \in Int /\ h[x] = f[x] * k
    OBVIOUS
  <2> HIDE DEF F, H
  <2>4. (f[x] + F(s)) * k = f[x] * k + F(s) * k
    BY <1>0, <2>2, <2>3
  <2>5. Times(s \cup {x})
    BY <2>2, <2>3, <2>4
  <2> QED BY <2>5
<1>3. T = SUBSET S
  <2>1. T \in SUBSET SUBSET S
    OBVIOUS
  <2> HIDE DEF T
  <2> QED BY <1>1, <1>2, <2>1, SetInduction
<1>4. Times(S)
  BY <1>3
<1> QED BY <1>4

\* A sum over elements renamed one to one.
Renames(r, S, R) ==
  /\ \A x, y \in S : r[x] = r[y] => x = y
  /\ \A x \in S : r[x] \in R
  /\ \A y \in R : \E x \in S : y = r[x]
Carries(r, S, f, g) == \A x \in S : f[x] \in Int /\ g[r[x]] = f[x]

LEMMA SumRenamed ==
  ASSUME NEW S, IsFiniteSet(S), NEW R, NEW r, Renames(r, S, R), NEW f, NEW g, Carries(r, S, f, g)
  PROVE  IsFiniteSet(R) /\ SumFunctionOnSet(f, S) = SumFunctionOnSet(g, R)
<1> USE DEF Carries
<1> DEFINE F(s) == SumFunctionOnSet(f, s)
           G(s) == SumFunctionOnSet(g, s)
           Image(s) == {r[x] : x \in s}
           Same(s) == IsFiniteSet(Image(s)) /\ F(s) = G(Image(s))
           T == {s \in SUBSET S : Same(s)}
<1>1. {} \in T
  <2>1. F({}) = 0 /\ G({}) = 0 /\ Image({}) = {} /\ IsFiniteSet({})
    BY SumOfNothing, FS_EmptySet
  <2> HIDE DEF F, G, Image
  <2> QED BY <2>1
<1>2. ASSUME NEW s \in T, NEW x \in S \ s
      PROVE  s \cup {x} \in T
  <2>1. IsFiniteSet(s) /\ x \notin s /\ (\A y \in s \cup {x} : f[y] \in Int)
    BY FS_Subset
  <2>2. F(s \cup {x}) = f[x] + F(s)
    BY <2>1, SumAdds
  <2>3. Image(s \cup {x}) = Image(s) \cup {r[x]} /\ r[x] \notin Image(s)
    BY DEF Renames
  <2>4. \A y \in Image(s) \cup {r[x]} : g[y] \in Int
    OBVIOUS
  <2>5. Same(s) /\ g[r[x]] = f[x]
    OBVIOUS
  <2> HIDE DEF F, Image
  <2>6. G(Image(s) \cup {r[x]}) = g[r[x]] + G(Image(s)) /\ IsFiniteSet(Image(s) \cup {r[x]})
    BY <2>3, <2>4, <2>5, SumAdds, FS_AddElement
  <2> HIDE DEF G
  <2>7. Same(s \cup {x})
    BY <2>2, <2>3, <2>5, <2>6
  <2> QED BY <2>7
<1>3. T = SUBSET S
  <2>1. T \in SUBSET SUBSET S
    OBVIOUS
  <2> HIDE DEF T
  <2> QED BY <1>1, <1>2, <2>1, SetInduction
<1>4. Same(S)
  BY <1>3
<1>5. Image(S) = R
  BY DEF Renames
<1> QED BY <1>4, <1>5

\* What adds nothing may be left out.
LEMMA SumOfZeros ==
  ASSUME NEW S, IsFiniteSet(S), NEW f, NEW A \in SUBSET S,
         \A x \in S : f[x] \in Int, \A x \in S \ A : f[x] = 0
  PROVE  SumFunctionOnSet(f, S) = SumFunctionOnSet(f, A)
<1> DEFINE F(s) == SumFunctionOnSet(f, s)
<1>1. IsFiniteSet(A) /\ IsFiniteSet(S \ A) /\ A \cup (S \ A) = S /\ A \cap (S \ A) = {}
  BY FS_Subset
<1>2. F(S) = F(A) + F(S \ A)
  BY <1>1, SumOfBoth
<1>3. \A x \in S \ A : f[x] \in Int /\ f[x] = f[x] * 0
  OBVIOUS
<1>4. F(S \ A) = F(S \ A) * 0
  BY <1>1, <1>3, SumTimes
<1>5. F(A) \in Int /\ F(S \ A) \in Int
  BY <1>1, SumIsInt
<1> HIDE DEF F
<1>6. F(S) = F(A)
  BY <1>2, <1>4, <1>5
<1> QED BY <1>6 DEF F

\* The sums of the rows of a table add up to those of its columns.
Table(m, S, K) == \A x \in S, k \in K : m[x][k] \in Int
RowSums(m, S, K) == [x \in S |-> SumFunctionOnSet(m[x], K)]
ColumnSums(m, S, K) == [k \in K |-> SumFunctionOnSet([x \in S |-> m[x][k]], S)]

LEMMA SumByColumns ==
  ASSUME NEW S, IsFiniteSet(S), NEW K, IsFiniteSet(K), NEW m, Table(m, S, K)
  PROVE  SumFunctionOnSet(RowSums(m, S, K), S) = SumFunctionOnSet(ColumnSums(m, S, K), K)
<1> USE DEF Table
<1> DEFINE row == [x \in S |-> SumFunctionOnSet(m[x], K)]
           at(k) == [x \in S |-> m[x][k]]
           column(s) == [k \in K |-> SumFunctionOnSet(at(k), s)]
           Same(s) == SumFunctionOnSet(row, s) = SumFunctionOnSet(column(s), K)
           T == {s \in SUBSET S : Same(s)}
<1>1. \A x \in S : row[x] \in Int
  BY SumIsInt
<1>2. ASSUME NEW s \in SUBSET S
      PROVE  \A k \in K : column(s)[k] \in Int
  <2> SUFFICES ASSUME NEW k \in K PROVE SumFunctionOnSet(at(k), s) \in Int
    OBVIOUS
  <2>1. IsFiniteSet(s) /\ \A x \in s : at(k)[x] \in Int
    BY FS_Subset
  <2> HIDE DEF at
  <2> QED BY <2>1, SumIsInt
<1>3. {} \in T
  <2> DEFINE none == column({})
  <2>1. \A k \in K : none[k] \in Int /\ none[k] = none[k] * 0
    BY <1>2, SumOfNothing
  <2>2. /\ SumFunctionOnSet(none, K) = SumFunctionOnSet(none, K) * 0
        /\ SumFunctionOnSet(none, K) \in Int
    <3> HIDE DEF none
    <3> QED BY <2>1, SumTimes, SumIsInt
  <2>4. SumFunctionOnSet(row, {}) = 0
    BY SumOfNothing
  <2> HIDE DEF column, row
  <2>5. SumFunctionOnSet(column({}), K) = 0
    BY <2>2
  <2> QED BY <2>4, <2>5
<1>4. ASSUME NEW s \in T, NEW x \in S \ s
      PROVE  s \cup {x} \in T
  <2>1. IsFiniteSet(s) /\ x \notin s /\ x \in S /\ s \cup {x} \in SUBSET S /\ s \in SUBSET S
    BY FS_Subset
  <2>2. SumFunctionOnSet(row, s \cup {x}) = row[x] + SumFunctionOnSet(row, s)
    <3>1. \A y \in s \cup {x} : row[y] \in Int
      BY <1>1, <2>1
    <3> HIDE DEF row
    <3> QED BY <2>1, <3>1, SumAdds
  <2>3. ASSUME NEW k \in K
        PROVE  column(s \cup {x})[k] = m[x][k] + column(s)[k]
    <3>1. \A y \in s \cup {x} : at(k)[y] \in Int
      BY <2>1
    <3>2. at(k)[x] = m[x][k]
      BY <2>1
    <3> HIDE DEF at
    <3>3. SumFunctionOnSet(at(k), s \cup {x}) = at(k)[x] + SumFunctionOnSet(at(k), s)
      BY <2>1, <3>1, SumAdds
    <3> QED BY <3>2, <3>3
  <2>4. \A k \in K : m[x][k] \in Int /\ column(s)[k] \in Int
    BY <1>2, <2>1
  <2>5. SumFunctionOnSet(column(s \cup {x}), K) = SumFunctionOnSet(m[x], K) + SumFunctionOnSet(column(s), K)
    <3> HIDE DEF column
    <3> QED BY <2>3, <2>4, SumOfSums
  <2>6. row[x] = SumFunctionOnSet(m[x], K) /\ Same(s)
    BY <2>1
  <2> HIDE DEF row, column
  <2>7. Same(s \cup {x})
    BY <2>2, <2>5, <2>6
  <2> QED BY <2>7, <2>1
<1>5. T = SUBSET S
  <2>1. T \in SUBSET SUBSET S
    OBVIOUS
  <2> HIDE DEF T
  <2> QED BY <1>3, <1>4, <2>1, SetInduction
<1>6. Same(S)
  BY <1>5
<1>7. RowSums(m, S, K) = row /\ ColumnSums(m, S, K) = column(S)
  BY DEF RowSums, ColumnSums
<1> HIDE DEF row, column
<1> QED BY <1>6, <1>7

\* The sums of AccountBooks.
LEMMA TotalIsASum ==
  /\ \A f : Books!Total(f) = SumFunctionOnSet(f, DOMAIN f)
  /\ \A S : Books!Cardinality(S) = Cardinality(S)
<1>1. \A f : Books!Total(f) = SumFunctionOnSet(f, DOMAIN f)
  BY DEF Books!Total, Books!SumFunction, Books!SumFunctionOnSet, Books!FoldFunctionOnSet, Books!MapThenFoldSet,
         SumFunctionOnSet, FoldFunctionOnSet, MapThenFoldSet
<1>2. \A S : Books!Cardinality(S) = Cardinality(S)
  BY DEF Books!Cardinality, Cardinality
<1> QED BY <1>1, <1>2

-----------------------------------------------------------------------------
(* Part 2: rows in the order of a date. *)

Dated(rows, date) == IsFiniteSet(rows) /\ rows \subseteq Int /\ \A i \in rows : date[i] \in Int

\* Rows of a date are in one order.
LEMMA OrderIsTotal ==
  ASSUME NEW rows, NEW date, Dated(rows, date)
  PROVE  \A i, j, k \in rows :
           /\ ~Books!Precedes(date, i, i)
           /\ i # j => Books!Precedes(date, i, j) \/ Books!Precedes(date, j, i)
           /\ Books!Precedes(date, i, j) => ~Books!Precedes(date, j, i) /\ date[i] <= date[j]
           /\ Books!Precedes(date, i, j) /\ Books!Precedes(date, j, k) => Books!Precedes(date, i, k)
<1> SUFFICES ASSUME NEW i \in rows, NEW j \in rows, NEW k \in rows
             PROVE  /\ ~Books!Precedes(date, i, i)
                    /\ i # j => Books!Precedes(date, i, j) \/ Books!Precedes(date, j, i)
                    /\ Books!Precedes(date, i, j) => ~Books!Precedes(date, j, i) /\ date[i] <= date[j]
                    /\ Books!Precedes(date, i, j) /\ Books!Precedes(date, j, k) => Books!Precedes(date, i, k)
  OBVIOUS
<1>1. i \in Int /\ j \in Int /\ k \in Int /\ date[i] \in Int /\ date[j] \in Int /\ date[k] \in Int
  BY DEF Dated
<1> QED BY <1>1, SMT DEF Books!Precedes

\* Of some rows, one is the latest.
LEMMA LatestIs ==
  ASSUME NEW rows, NEW date, Dated(rows, date), rows # {}
  PROVE  /\ Books!Latest(rows, date) \in rows
         /\ \A j \in rows \ {Books!Latest(rows, date)} : Books!Precedes(date, j, Books!Latest(rows, date))
<1> DEFINE Last(s, i) == i \in s /\ \A j \in s \ {i} : Books!Precedes(date, j, i)
           T == {s \in SUBSET rows : s = {} \/ \E i \in s : Last(s, i)}
<1>1. {} \in T
  OBVIOUS
<1>2. ASSUME NEW s \in T, NEW x \in rows \ s
      PROVE  s \cup {x} \in T
  <2>1. CASE s = {}
    <3>1. Last(s \cup {x}, x)
      BY <2>1
    <3> QED BY <3>1
  <2>2. CASE \E i \in s : Last(s, i)
    <3>1. PICK i \in s : Last(s, i)
      BY <2>2
    <3>2. i \in rows /\ x \in rows /\ i # x
      OBVIOUS
    <3>3. CASE Books!Precedes(date, x, i)
      <4>1. Last(s \cup {x}, i)
        BY <3>1, <3>3
      <4> QED BY <4>1
    <3>4. CASE Books!Precedes(date, i, x)
      <4>1. ASSUME NEW j \in (s \cup {x}) \ {x}
            PROVE  Books!Precedes(date, j, x)
        <5>1. j \in rows /\ (j = i \/ Books!Precedes(date, j, i))
          BY <3>1
        <5> QED BY <3>2, <3>4, <5>1, OrderIsTotal
      <4>2. Last(s \cup {x}, x)
        BY <4>1
      <4> QED BY <4>2
    <3> QED BY <3>2, <3>3, <3>4, OrderIsTotal
  <2> QED BY <2>1, <2>2
<1>3. T = SUBSET rows
  <2>1. T \in SUBSET SUBSET rows
    OBVIOUS
  <2>2. IsFiniteSet(rows)
    BY DEF Dated
  <2> HIDE DEF T
  <2> QED BY <1>1, <1>2, <2>1, <2>2, SetInduction
<1>4. \E i \in rows : \A j \in rows \ {i} : Books!Precedes(date, j, i)
  BY <1>3
<1> QED BY <1>4 DEF Books!Latest

\* Rows of a date are listed whole, each once, in their order.
LEMMA ListedIs ==
  ASSUME NEW rows, NEW date, Dated(rows, date)
  PROVE  LET s == Books!Listed(rows, date)
             n == Cardinality(rows)
         IN /\ n \in Nat /\ s \in [1..n -> rows]
            /\ \A a, b \in 1..n : a < b => Books!Precedes(date, s[a], s[b])
            /\ \A a, b \in 1..n : s[a] = s[b] => a = b
            /\ rows = {s[a] : a \in 1..n}
<1> DEFINE In(s, n, t) == s \in [1..n -> t] /\ \A a, b \in 1..n : a < b => Books!Precedes(date, s[a], s[b])
           N == {n \in Nat : \A t \in SUBSET rows : Cardinality(t) = n => \E s : In(s, n, t)}
<1>0. \A t \in SUBSET rows : IsFiniteSet(t) /\ Cardinality(t) \in Nat /\ Dated(t, date)
  BY FS_Subset, FS_CardinalityType DEF Dated
<1>1. 0 \in N
  <2>1. ASSUME NEW t \in SUBSET rows
        PROVE  In([i \in 1..0 |-> 0], 0, t)
    OBVIOUS
  <2> HIDE DEF In
  <2> QED BY <2>1
<1>2. ASSUME NEW n \in N
      PROVE  n + 1 \in N
  <2> SUFFICES ASSUME NEW t \in SUBSET rows, Cardinality(t) = n + 1
               PROVE  \E s : In(s, n + 1, t)
    OBVIOUS
  <2> DEFINE last == Books!Latest(t, date)
  <2>1. n \in Nat /\ t # {}
    BY FS_EmptySet
  <2>2. last \in t /\ \A j \in t \ {last} : Books!Precedes(date, j, last)
    BY <1>0, <2>1, LatestIs
  <2> HIDE DEF last
  <2>3. Cardinality(t \ {last}) = n
    BY <1>0, <2>1, <2>2, FS_RemoveElement
  <2>4. PICK s : In(s, n, t \ {last})
    BY <2>3
  <2> DEFINE r == [i \in 1..(n + 1) |-> IF i = n + 1 THEN last ELSE s[i]]
  <2>5. \A i \in 1..n : s[i] \in t \ {last} /\ r[i] = s[i] /\ i \in 1..(n + 1)
    BY <2>1, <2>4
  <2>6. r[n + 1] = last /\ \A i \in 1..(n + 1) : i \in 1..n \/ i = n + 1
    BY <2>1
  <2>7. r \in [1..(n + 1) -> t]
    BY <2>2, <2>5, <2>6
  <2> HIDE DEF r
  <2>8. ASSUME NEW a \in 1..(n + 1), NEW b \in 1..(n + 1), a < b
        PROVE  Books!Precedes(date, r[a], r[b])
    <3>1. a \in 1..n
      BY <2>1, <2>8
    <3>2. CASE b = n + 1
      BY <2>2, <2>5, <2>6, <3>1, <3>2
    <3>3. CASE b \in 1..n
      BY <2>4, <2>5, <2>8, <3>1, <3>3
    <3> QED BY <2>6, <3>2, <3>3
  <2> QED BY <2>7, <2>8
<1>3. N = Nat
  <2> HIDE DEF In
  <2> QED BY <1>1, <1>2, NatSetInduction
<1> DEFINE s == Books!Listed(rows, date)
           n == Cardinality(rows)
<1>4. n \in Nat /\ \E r : In(r, n, rows)
  BY <1>0, <1>3
<1>5. In(s, n, rows)
  <2>1. \E r \in [1..n -> rows] : \A a, b \in DOMAIN r : a < b => Books!Precedes(date, r[a], r[b])
    BY <1>4
  <2>2. LET c == CHOOSE r \in [1..n -> rows] : \A a, b \in DOMAIN r : a < b => Books!Precedes(date, r[a], r[b])
        IN In(c, n, rows)
    BY <2>1
  <2>3. s = CHOOSE r \in [1..n -> rows] : \A a, b \in DOMAIN r : a < b => Books!Precedes(date, r[a], r[b])
    BY TotalIsASum DEF Books!Listed
  <2> HIDE DEF In, s
  <2> QED BY <2>2, <2>3
<1> HIDE DEF s
<1>6. \A a, b \in 1..n : s[a] = s[b] => a = b
  <2> SUFFICES ASSUME NEW a \in 1..n, NEW b \in 1..n, s[a] = s[b], a # b PROVE FALSE
    OBVIOUS
  <2>1. s[a] \in rows /\ ~Books!Precedes(date, s[a], s[a])
    BY <1>5, OrderIsTotal
  <2>2. a < b \/ b < a
    BY <1>4
  <2> QED BY <1>5, <2>1, <2>2
<1>7. rows = {s[a] : a \in 1..n}
  <2>1. s \in Injection(1..n, rows)
    BY <1>5, <1>6 DEF Injection, IsInjective
  <2>2. IsFiniteSet(rows) /\ Cardinality(1..n) = Cardinality(rows)
    BY <1>4, FS_Interval DEF Dated
  <2>3. s \in Surjection(1..n, rows)
    BY <2>1, <2>2, FS_Injection
  <2> QED BY <1>5, <2>3 DEF Surjection
<1>8. QED
  BY <1>4, <1>5, <1>6, <1>7 DEF s

-----------------------------------------------------------------------------
(* Part 3: titles.  Without splits, what is held after some rows is what    *)
(* they add less what they take, and it was never less than nothing.        *)

LastOf(file, s) == Books!Latest(s, Books!Days(file))
Holdings(file, R, g) ==
  g = [s \in SUBSET R |-> IF s = {} THEN 0 ELSE Books!Moved(g[s \ {LastOf(file, s)}], file[LastOf(file, s)])]

\* Rows of a file that are dated by their days.
RowsOf(file, R) == IsFiniteSet(R) /\ R \subseteq DOMAIN file /\ Dated(R, Books!Days(file))

LEMMA PartsOfRows ==
  ASSUME NEW file, NEW R, RowsOf(file, R)
  PROVE  \A s \in SUBSET R :
           /\ RowsOf(file, s) /\ IsFiniteSet(s) /\ Cardinality(s) \in Nat
           /\ s # {} => /\ LastOf(file, s) \in s
                        /\ IsFiniteSet(s \ {LastOf(file, s)})
                        /\ Cardinality(s \ {LastOf(file, s)}) = Cardinality(s) - 1
                        /\ \A j \in s \ {LastOf(file, s)} : Books!Precedes(Books!Days(file), j, LastOf(file, s))
<1> SUFFICES ASSUME NEW s \in SUBSET R
             PROVE  /\ RowsOf(file, s) /\ IsFiniteSet(s) /\ Cardinality(s) \in Nat
                    /\ s # {} => /\ LastOf(file, s) \in s
                                 /\ IsFiniteSet(s \ {LastOf(file, s)})
                                 /\ Cardinality(s \ {LastOf(file, s)}) = Cardinality(s) - 1
                                 /\ \A j \in s \ {LastOf(file, s)} :
                                      Books!Precedes(Books!Days(file), j, LastOf(file, s))
  OBVIOUS
<1>1. IsFiniteSet(s) /\ Cardinality(s) \in Nat
  BY FS_Subset, FS_CardinalityType DEF RowsOf
<1>2. RowsOf(file, s) /\ Dated(s, Books!Days(file))
  BY <1>1 DEF RowsOf, Dated
<1>3. ASSUME s # {}
      PROVE  /\ LastOf(file, s) \in s
             /\ \A j \in s \ {LastOf(file, s)} : Books!Precedes(Books!Days(file), j, LastOf(file, s))
  BY <1>2, <1>3, LatestIs DEF LastOf
<1>4. ASSUME s # {}
      PROVE  /\ IsFiniteSet(s \ {LastOf(file, s)})
             /\ Cardinality(s \ {LastOf(file, s)}) = Cardinality(s) - 1
  BY <1>1, <1>3, <1>4, FS_RemoveElement
<1> QED BY <1>1, <1>2, <1>3, <1>4

\* The function that follows the titles row by row exists.
LEMMA HoldingsExist ==
  ASSUME NEW file, NEW R, RowsOf(file, R)
  PROVE  \E g : Holdings(file, R, g)
<1> DEFINE Small(n) == {s \in SUBSET R : Cardinality(s) <= n}
           Step(g, s) == IF s = {} THEN 0 ELSE Books!Moved(g[s \ {LastOf(file, s)}], file[LastOf(file, s)])
           Good(n, g) == g = [s \in Small(n) |-> Step(g, s)]
           T == {n \in Nat : \E g : Good(n, g)}
<1>0. \A s \in SUBSET R : IsFiniteSet(s) /\ Cardinality(s) \in Nat
  BY PartsOfRows
<1>1. 0 \in T
  <2>1. \A s \in Small(0) : s = {}
    BY <1>0, FS_EmptySet
  <2>2. Good(0, [s \in Small(0) |-> 0])
    BY <2>1
  <2> QED BY <2>2
<1>2. ASSUME NEW n \in T
      PROVE  n + 1 \in T
  <2>1. PICK g : Good(n, g)
    OBVIOUS
  <2> DEFINE h == [s \in Small(n + 1) |-> Step(g, s)]
  <2>2. ASSUME NEW s \in Small(n + 1), s # {}
        PROVE  s \ {LastOf(file, s)} \in Small(n)
    BY <1>0, <2>2, PartsOfRows
  <2>3. ASSUME NEW s \in Small(n)
        PROVE  h[s] = g[s]
    <3>1. s \in Small(n + 1)
      BY <1>0
    <3>2. h[s] = Step(g, s)
      BY <3>1
    <3>3. g[s] = Step(g, s)
      BY <2>1 DEF Good
    <3> QED BY <3>2, <3>3
  <2>4. ASSUME NEW s \in Small(n + 1)
        PROVE  Step(g, s) = Step(h, s)
    BY <2>2, <2>3
  <2>5. h = [s \in Small(n + 1) |-> Step(h, s)]
    <3> HIDE DEF Step, Small
    <3> QED BY <2>4
  <2>6. Good(n + 1, h)
    BY <2>5
  <2> HIDE DEF Good, h
  <2> QED BY <2>6
<1>3. T = Nat
  <2> HIDE DEF Good
  <2> QED BY <1>1, <1>2, NatSetInduction
<1>4. Cardinality(R) \in T
  BY <1>0, <1>3
<1>5. PICK g : Good(Cardinality(R), g)
  BY <1>4
<1>6. Small(Cardinality(R)) = SUBSET R
  <2>1. IsFiniteSet(R)
    BY DEF RowsOf
  <2> QED BY <2>1, FS_Subset
<1>7. Holdings(file, R, g)
  BY <1>5, <1>6 DEF Holdings
<1> QED BY <1>7

\* Two such functions agree where both say something.
LEMMA HoldingsAgree ==
  ASSUME NEW file, NEW R, RowsOf(file, R), NEW S \in SUBSET R, NEW g, NEW h,
         Holdings(file, R, g), Holdings(file, S, h)
  PROVE  \A s \in SUBSET S : g[s] = h[s]
<1> DEFINE N == {n \in Nat : \A s \in SUBSET S : Cardinality(s) = n => g[s] = h[s]}
<1>1. \A s \in SUBSET S : s \in SUBSET R /\ IsFiniteSet(s) /\ Cardinality(s) \in Nat
  BY PartsOfRows
<1>2. /\ g[{}] = 0 /\ h[{}] = 0
      /\ \A s \in SUBSET S : s # {} =>
           /\ g[s] = Books!Moved(g[s \ {LastOf(file, s)}], file[LastOf(file, s)])
           /\ h[s] = Books!Moved(h[s \ {LastOf(file, s)}], file[LastOf(file, s)])
  BY DEF Holdings
<1>3. 0 \in N
  <2>1. ASSUME NEW s \in SUBSET S, Cardinality(s) = 0
        PROVE  s = {}
    BY <1>1, <2>1, FS_EmptySet
  <2> QED BY <1>2, <2>1
<1>4. ASSUME NEW n \in N
      PROVE  n + 1 \in N
  <2> SUFFICES ASSUME NEW s \in SUBSET S, Cardinality(s) = n + 1
               PROVE  g[s] = h[s]
    OBVIOUS
  <2>1. s # {} /\ n \in Nat /\ s \in SUBSET R
    BY <1>1, FS_EmptySet
  <2>2. Cardinality(s \ {LastOf(file, s)}) = n
    <3>1. Cardinality(s \ {LastOf(file, s)}) = Cardinality(s) - 1
      BY <2>1, PartsOfRows
    <3> QED BY <2>1, <3>1
  <2>3. g[s \ {LastOf(file, s)}] = h[s \ {LastOf(file, s)}]
    BY <2>2
  <2> QED BY <1>2, <2>1, <2>3
<1>5. N = Nat
  BY <1>3, <1>4, NatSetInduction
<1> QED BY <1>1, <1>5

\* What is held after some rows is what was held before the last of them, moved
\* by it.
LEMMA HeldUnfolds ==
  ASSUME NEW file, NEW R, RowsOf(file, R)
  PROVE  /\ Books!Held(file, {}) = 0
         /\ R # {} => Books!Held(file, R)
                        = Books!Moved(Books!Held(file, R \ {LastOf(file, R)}), file[LastOf(file, R)])
<1> DEFINE g(s) == CHOOSE h : Holdings(file, s, h)
<1>1. \A s \in SUBSET R : RowsOf(file, s)
  BY PartsOfRows
<1>2. \A s \in SUBSET R : Holdings(file, s, g(s))
  BY <1>1, HoldingsExist
<1>3. \A s \in SUBSET R : Books!Held(file, s) = g(s)[s]
  BY DEF Books!Held, Holdings, LastOf
<1> HIDE DEF g
<1>4. g({})[{}] = 0
  BY <1>2 DEF Holdings
<1>5. ASSUME R # {}
      PROVE  g(R)[R] = Books!Moved(g(R \ {LastOf(file, R)})[R \ {LastOf(file, R)}], file[LastOf(file, R)])
  <2>1. g(R)[R] = Books!Moved(g(R)[R \ {LastOf(file, R)}], file[LastOf(file, R)])
    BY <1>2, <1>5 DEF Holdings
  <2>2. R \in SUBSET R /\ R \ {LastOf(file, R)} \in SUBSET R
    OBVIOUS
  <2>3. g(R)[R \ {LastOf(file, R)}] = g(R \ {LastOf(file, R)})[R \ {LastOf(file, R)}]
    <3> DEFINE less == R \ {LastOf(file, R)}
    <3>1. less \in SUBSET less /\ less \in SUBSET R /\ Holdings(file, R, g(R)) /\ Holdings(file, less, g(less))
      BY <1>2, <2>2
    <3> HIDE DEF less
    <3>2. g(R)[less] = g(less)[less]
      BY <3>1, HoldingsAgree
    <3> QED BY <3>2 DEF less
  <2> QED BY <2>1, <2>3
<1> QED BY <1>3, <1>4, <1>5

\* What a row adds to its titles, without splits.
Signed(e) == IF e.kind \in Books!Adds THEN e.quantity ELSE IF e.kind \in Books!Takes THEN -e.quantity ELSE 0
Change(file) == [i \in DOMAIN file |-> Signed(file[i])]

LEMMA ChangeIsInt ==
  ASSUME NEW file \in Seq(Events)
  PROVE  \A i \in DOMAIN file : Change(file)[i] \in Int /\ Change(file)[i] = Signed(file[i]) /\ file[i].quantity \in Nat
<1> SUFFICES ASSUME NEW i \in DOMAIN file
             PROVE  /\ Change(file)[i] \in Int /\ Change(file)[i] = Signed(file[i]) /\ file[i].quantity \in Nat
  OBVIOUS
<1>1. file[i] \in Events
  OBVIOUS
<1>2. file[i].quantity \in Nat
  BY <1>1 DEF Events
<1>3. -file[i].quantity \in Int /\ 0 \in Int
  BY <1>2
<1>4. Signed(file[i]) \in Int
  BY <1>2, <1>3 DEF Signed
<1> QED BY <1>2, <1>4 DEF Change

\* Without splits a row that is not refused changes the titles by its sign.
LEMMA MovedIs ==
  ASSUME NEW e, NEW before, before = Refused \/ before \in Nat, e.quantity \in Nat, e.kind # "SPLIT"
  PROVE  \/ Books!Moved(before, e) = Refused
         \/ /\ before \in Nat /\ Books!Moved(before, e) \in Nat
            /\ Books!Moved(before, e) = before + Signed(e)
<1>1. CASE before = Refused
  BY <1>1 DEF Books!Moved
<1>2. CASE before \in Nat
  <2>1. before # Refused
    BY <1>2, BooksAssumption
  <2>2. CASE e.kind \in Books!Adds
    BY <1>2, <2>1, <2>2 DEF Books!Moved, Signed
  <2>3. CASE e.kind \in Books!Takes
    <3>1. e.kind \notin Books!Adds
      BY <2>3 DEF Books!Takes, Books!Adds
    <3>2. Books!Moved(before, e) = IF before < e.quantity THEN Refused ELSE before - e.quantity
      BY <2>1, <2>3, <3>1 DEF Books!Moved
    <3>3. Signed(e) = -e.quantity
      BY <2>3, <3>1 DEF Signed
    <3> QED BY <1>2, <3>2, <3>3
  <2>4. CASE e.kind \notin Books!Adds \cup Books!Takes
    <3>1. Books!Moved(before, e) = before
      BY <2>1, <2>4 DEF Books!Moved
    <3>2. Signed(e) = 0
      BY <2>4 DEF Signed
    <3> QED BY <1>2, <3>1, <3>2
  <2> QED BY <2>2, <2>3, <2>4
<1> QED BY <1>1, <1>2

NoSplits(file, R) == \A i \in R : file[i].kind # "SPLIT"

\* Without splits: what is held is the sum of what the rows change.
LEMMA HeldIsSum ==
  ASSUME NEW file \in Seq(Events), NEW R, RowsOf(file, R), NoSplits(file, R)
  PROVE  \A s \in SUBSET R :
           \/ Books!Held(file, s) = Refused
           \/ Books!Held(file, s) \in Nat /\ Books!Held(file, s) = SumFunctionOnSet(Change(file), s)
<1> DEFINE Sums(s) == \/ Books!Held(file, s) = Refused
                      \/ /\ Books!Held(file, s) \in Nat
                         /\ Books!Held(file, s) = SumFunctionOnSet(Change(file), s)
           N == {n \in Nat : \A s \in SUBSET R : Cardinality(s) = n => Sums(s)}
<1>1. \A s \in SUBSET R : RowsOf(file, s) /\ IsFiniteSet(s) /\ Cardinality(s) \in Nat
  BY PartsOfRows
<1>2. 0 \in N
  <2>1. ASSUME NEW s \in SUBSET R, Cardinality(s) = 0
        PROVE  s = {}
    BY <1>1, <2>1, FS_EmptySet
  <2>2. SumFunctionOnSet(Change(file), {}) = 0 /\ Books!Held(file, {}) = 0
    BY SumOfNothing, HeldUnfolds
  <2>3. Sums({})
    BY <2>2
  <2> HIDE DEF Sums
  <2> QED BY <2>1, <2>3
<1>3. ASSUME NEW n \in N
      PROVE  n + 1 \in N
  <2> SUFFICES ASSUME NEW s \in SUBSET R, Cardinality(s) = n + 1
               PROVE  Sums(s)
    OBVIOUS
  <2> DEFINE i == LastOf(file, s)
             rest == s \ {i}
  <2>1. s # {} /\ n \in Nat
    BY <1>1, FS_EmptySet
  <2>2. i \in s /\ IsFiniteSet(rest) /\ Cardinality(rest) = Cardinality(s) - 1
    BY <2>1, PartsOfRows
  <2>3. Books!Held(file, s) = Books!Moved(Books!Held(file, rest), file[i])
    BY <1>1, <2>1, HeldUnfolds
  <2> HIDE DEF i
  <2>4. rest \cup {i} = s /\ i \notin rest /\ rest \in SUBSET R /\ i \in R
    BY <2>2
  <2>5. i \in DOMAIN file /\ s \subseteq DOMAIN file
    BY <2>4 DEF RowsOf
  <2>6. \A x \in rest \cup {i} : Change(file)[x] \in Int
    BY <2>4, <2>5, ChangeIsInt
  <2>7. SumFunctionOnSet(Change(file), s) = Signed(file[i]) + SumFunctionOnSet(Change(file), rest)
    <3>1. SumFunctionOnSet(Change(file), rest \cup {i}) = Change(file)[i] + SumFunctionOnSet(Change(file), rest)
      <4> HIDE DEF rest
      <4> QED BY <2>2, <2>4, <2>6, SumAdds
    <3>2. Change(file)[i] = Signed(file[i])
      BY <2>5, ChangeIsInt
    <3> QED BY <2>4, <3>1, <3>2
  <2> HIDE DEF rest
  <2>8. Cardinality(rest) = n
    BY <2>1, <2>2
  <2>9. Sums(rest)
    BY <2>4, <2>8
  <2>10. file[i].quantity \in Nat /\ file[i].kind # "SPLIT" /\ Signed(file[i]) \in Int
    BY <2>4, <2>5, ChangeIsInt DEF NoSplits
  <2>11. \/ Books!Held(file, s) = Refused
         \/ /\ Books!Held(file, rest) \in Nat /\ Books!Held(file, s) \in Nat
            /\ Books!Held(file, s) = Books!Held(file, rest) + Signed(file[i])
    BY <2>3, <2>9, <2>10, MovedIs
  <2>12. ASSUME Books!Held(file, rest) \in Nat
         PROVE  Books!Held(file, rest) = SumFunctionOnSet(Change(file), rest)
    BY <2>9, <2>12, BooksAssumption
  <2>13. ASSUME Books!Held(file, rest) \in Nat, Books!Held(file, s) = Books!Held(file, rest) + Signed(file[i])
         PROVE  Books!Held(file, s) = SumFunctionOnSet(Change(file), s)
    BY <2>7, <2>10, <2>12, <2>13
  <2> QED BY <2>11, <2>13
<1>4. N = Nat
  <2> HIDE DEF Sums
  <2> QED BY <1>2, <1>3, NatSetInduction
<1>5. \A s \in SUBSET R : Sums(s)
  <2> HIDE DEF Sums
  <2> QED BY <1>1, <1>4
<1> QED BY <1>5

\* The rows of R that come no later than those of S are in S.
FirstOf(file, S, R) == \A i \in S, j \in R \ S : Books!Precedes(Books!Days(file), i, j)

\* A book that is not refused at the end was refused at none of its rows.
LEMMA HeldAllAlong ==
  ASSUME NEW file \in Seq(Events), NEW W, RowsOf(file, W),
         NEW S \in SUBSET W, FirstOf(file, S, W), Books!Held(file, W) # Refused
  PROVE  Books!Held(file, S) # Refused
<1> DEFINE Kept(R) == S \subseteq R /\ FirstOf(file, S, R) /\ Books!Held(file, R) # Refused
                        => Books!Held(file, S) # Refused
           N == {n \in Nat : \A R \in SUBSET W : Cardinality(R) = n => Kept(R)}
<1>1. \A R \in SUBSET W : RowsOf(file, R) /\ IsFiniteSet(R) /\ Cardinality(R) \in Nat
  BY PartsOfRows
<1>2. 0 \in N
  <2>1. ASSUME NEW R \in SUBSET W, Cardinality(R) = 0
        PROVE  R = {}
    BY <1>1, <2>1, FS_EmptySet
  <2>2. Kept({})
    <3>1. S \subseteq {} => S = {}
      OBVIOUS
    <3> QED BY <3>1
  <2> HIDE DEF Kept
  <2> QED BY <2>1, <2>2
<1>3. ASSUME NEW n \in N
      PROVE  n + 1 \in N
  <2> SUFFICES ASSUME NEW R \in SUBSET W, Cardinality(R) = n + 1,
                      S \subseteq R, FirstOf(file, S, R), Books!Held(file, R) # Refused, S # R
               PROVE  Books!Held(file, S) # Refused
    OBVIOUS
  <2> DEFINE i == LastOf(file, R)
  <2>1. R # {} /\ n \in Nat
    BY <1>1, FS_EmptySet
  <2>2. /\ i \in R /\ Cardinality(R \ {i}) = Cardinality(R) - 1
        /\ \A j \in R \ {i} : Books!Precedes(Books!Days(file), j, i)
    BY <2>1, PartsOfRows
  <2>3. Books!Held(file, R) = Books!Moved(Books!Held(file, R \ {i}), file[i])
    BY <1>1, <2>1, HeldUnfolds
  <2> HIDE DEF i
  <2>4. i \notin S
    <3> SUFFICES ASSUME i \in S PROVE FALSE
      OBVIOUS
    <3>1. PICK j \in R : j \notin S
      OBVIOUS
    <3>2. j \in R \ {i} /\ Books!Precedes(Books!Days(file), i, j) /\ Books!Precedes(Books!Days(file), j, i)
      BY <2>2, <3>1 DEF FirstOf
    <3>3. Dated(R, Books!Days(file))
      BY <1>1 DEF RowsOf
    <3> QED BY <2>2, <3>2, <3>3, OrderIsTotal
  <2>5. Books!Held(file, R \ {i}) # Refused
    BY <2>3 DEF Books!Moved
  <2>6. S \subseteq R \ {i} /\ FirstOf(file, S, R \ {i}) /\ R \ {i} \in SUBSET W
    BY <2>4 DEF FirstOf
  <2>7. Cardinality(R \ {i}) = n
    BY <2>1, <2>2
  <2>8. Kept(R \ {i})
    BY <2>6, <2>7
  <2> QED BY <2>5, <2>6, <2>8
<1>4. N = Nat
  <2> HIDE DEF Kept
  <2> QED BY <1>2, <1>3, NatSetInduction
<1>5. Kept(W)
  <2> HIDE DEF Kept
  <2> QED BY <1>1, <1>4
<1> QED BY <1>5

-----------------------------------------------------------------------------
(* Part 4: the book at a cut. *)

Typed(file) == file \in Seq(Events) /\ \A i \in DOMAIN file : Books!WellFormed(file[i])
Settles(file) == [i \in DOMAIN file |-> file[i].settled]
InCash(file) == [i \in DOMAIN file |-> Books!CashOf(file[i])]
Due(file, cut) == {i \in Books!Until(file, cut) : file[i].settled <= cut}
Mine(file, cut, a) == {i \in Books!Until(file, cut) : file[i].asset = a}

LEMMA RowsAreDated ==
  ASSUME NEW file, Typed(file)
  PROVE  /\ \A R \in SUBSET DOMAIN file : IsFiniteSet(R) /\ RowsOf(file, R) /\ Dated(R, Settles(file))
         /\ \A i \in DOMAIN file :
              /\ file[i] \in Events /\ Books!WellFormed(file[i]) /\ i \in Int
              /\ Books!Days(file)[i] = file[i].day /\ Settles(file)[i] = file[i].settled
              /\ file[i].day \in Int /\ file[i].settled \in Int /\ file[i].day <= file[i].settled
              /\ InCash(file)[i] \in Int /\ InCash(file)[i] = Books!CashOf(file[i])
<1>1. file \in Seq(Events) /\ DOMAIN file = 1..Len(file) /\ Len(file) \in Nat
  BY DEF Typed
<1>2. IsFiniteSet(DOMAIN file) /\ DOMAIN file \subseteq Int
  BY <1>1, FS_Interval
<1>3. ASSUME NEW i \in DOMAIN file
      PROVE  /\ file[i] \in Events /\ Books!WellFormed(file[i]) /\ i \in Int
             /\ Books!Days(file)[i] = file[i].day /\ Settles(file)[i] = file[i].settled
             /\ file[i].day \in Int /\ file[i].settled \in Int /\ file[i].day <= file[i].settled
             /\ InCash(file)[i] \in Int /\ InCash(file)[i] = Books!CashOf(file[i])
  <2>1. file[i] \in Events /\ Books!WellFormed(file[i])
    BY <1>1 DEF Typed
  <2>2. file[i].day \in Int /\ file[i].settled \in Int /\ file[i].amount \in Nat /\ file[i].fee \in Nat
    BY <2>1 DEF Events
  <2>3. file[i].day <= file[i].settled
    BY <2>1, <2>2 DEF Books!WellFormed
  <2>4. -file[i].amount - file[i].fee \in Int /\ file[i].amount - file[i].fee \in Int
    BY <2>2
  <2>5. Books!CashOf(file[i]) \in Int
    BY <2>4 DEF Books!CashOf
  <2> QED BY <1>2, <2>1, <2>2, <2>3, <2>5 DEF Books!Days, Settles, InCash
<1>4. ASSUME NEW R \in SUBSET DOMAIN file
      PROVE  IsFiniteSet(R) /\ RowsOf(file, R) /\ Dated(R, Settles(file))
  <2>1. IsFiniteSet(R) /\ R \subseteq Int
    BY <1>2, FS_Subset
  <2> QED BY <1>3, <2>1 DEF RowsOf, Dated
<1> QED BY <1>3, <1>4

\* The cash of some rows is a sum over them.
LEMMA CashIsASum ==
  ASSUME NEW file, Typed(file), NEW R \in SUBSET DOMAIN file
  PROVE  Books!Cash(file, R) = SumFunctionOnSet(InCash(file), R) /\ SumFunctionOnSet(InCash(file), R) \in Int
<1> DEFINE f == [i \in R |-> Books!CashOf(file[i])]
<1>1. Books!Cash(file, R) = SumFunctionOnSet(f, R)
  BY TotalIsASum DEF Books!Cash
<1>2. \A i \in R : InCash(file)[i] \in Int /\ f[i] = InCash(file)[i]
  BY RowsAreDated
<1>3. IsFiniteSet(R)
  BY RowsAreDated
<1> HIDE DEF f
<1> QED BY <1>1, <1>2, <1>3, SumSame

\* A book that is not refused has the titles of each asset, and the cash of the
\* rows that are due apart from that of the others.
LEMMA BookIs ==
  ASSUME NEW file, Typed(file), NEW cut \in Int, Books!Book(file, cut) # Refused
  PROVE  /\ Books!Until(file, cut) \subseteq DOMAIN file /\ Books!Kept(file) \subseteq DOMAIN file
         /\ \A a \in Assets : /\ Books!Book(file, cut).titles[a] = Books!Held(file, Mine(file, cut, a))
                              /\ Books!Held(file, Mine(file, cut, a)) # Refused
         /\ Books!Book(file, cut).titles = [a \in Assets |-> Books!Book(file, cut).titles[a]]
         /\ Books!Book(file, cut).cash = SumFunctionOnSet(InCash(file), Due(file, cut))
         /\ Books!Book(file, cut).pending
              = SumFunctionOnSet(InCash(file), Books!Until(file, cut) \ Due(file, cut))
<1>1. Books!Until(file, cut) \subseteq DOMAIN file /\ Books!Kept(file) \subseteq DOMAIN file
  BY DEF Books!Until, Books!Kept
<1>2. /\ \A a \in Assets : Books!Titles(file, cut, a) # Refused
      /\ Books!Book(file, cut) = [titles |-> [a \in Assets |-> Books!Titles(file, cut, a)],
                                  cash |-> Books!Cash(file, Due(file, cut)),
                                  pending |-> Books!Cash(file, Books!Until(file, cut) \ Due(file, cut))]
  BY DEF Books!Book, Due, Books!Settled
<1>3. \A a \in Assets : Books!Titles(file, cut, a) = Books!Held(file, Mine(file, cut, a))
  BY DEF Books!Titles, Mine
<1>4. Due(file, cut) \in SUBSET DOMAIN file /\ Books!Until(file, cut) \ Due(file, cut) \in SUBSET DOMAIN file
  BY <1>1 DEF Due
<1>5. /\ Books!Cash(file, Due(file, cut)) = SumFunctionOnSet(InCash(file), Due(file, cut))
      /\ Books!Cash(file, Books!Until(file, cut) \ Due(file, cut))
           = SumFunctionOnSet(InCash(file), Books!Until(file, cut) \ Due(file, cut))
  BY <1>4, CashIsASum
<1>6. Books!Book(file, cut).titles = [a \in Assets |-> Books!Titles(file, cut, a)]
  BY <1>2
<1>7. \A a \in Assets : Books!Book(file, cut).titles[a] = Books!Titles(file, cut, a)
  BY <1>6
<1>8. Books!Book(file, cut).titles = [a \in Assets |-> Books!Book(file, cut).titles[a]]
  BY <1>6, <1>7
<1> QED BY <1>1, <1>2, <1>3, <1>5, <1>7, <1>8

-----------------------------------------------------------------------------
(* Part 5: the bridges between two cuts. *)

TitleRows(file, from, to) ==
  {i \in Books!Kept(file) : file[i].kind \in Books!Adds \cup Books!Takes /\ file[i].day > from /\ file[i].day <= to}
CashRows(file, from, to) ==
  {i \in Books!Kept(file) : Books!CashOf(file[i]) # 0 /\ file[i].settled > from /\ file[i].settled <= to}

\* The moves that are written are the rows of titles between the cuts, in order.
LEMMA MovesAre ==
  ASSUME NEW file, Typed(file), NEW from \in Int, NEW to \in Int
  PROVE  LET moves == Books!MovesOf(file, from, to)
             chosen == TitleRows(file, from, to)
             p == Books!Listed(chosen, Books!Days(file))
             n == Cardinality(chosen)
         IN /\ n \in Nat /\ DOMAIN moves = 1..n /\ Len(moves) = n
            /\ chosen = {p[j] : j \in 1..n} /\ chosen \subseteq DOMAIN file
            /\ \A a, b \in 1..n : /\ a < b => Books!Precedes(Books!Days(file), p[a], p[b])
                                  /\ p[a] = p[b] => a = b
            /\ \A j \in 1..n : /\ p[j] \in chosen
                               /\ moves[j].day = file[p[j]].day /\ moves[j].asset = file[p[j]].asset
                               /\ moves[j].quantity = file[p[j]].quantity
                               /\ (moves[j].kind = "in" <=> file[p[j]].kind \in Books!Adds)
<1> DEFINE moves == Books!MovesOf(file, from, to)
           chosen == TitleRows(file, from, to)
           p == Books!Listed(chosen, Books!Days(file))
           n == Cardinality(chosen)
<1>1. chosen \in SUBSET DOMAIN file
  BY DEF TitleRows, Books!Kept
<1>2. Dated(chosen, Books!Days(file))
  BY <1>1, RowsAreDated DEF RowsOf
<1>3. /\ n \in Nat /\ p \in [1..n -> chosen] /\ chosen = {p[j] : j \in 1..n}
      /\ \A a, b \in 1..n : /\ a < b => Books!Precedes(Books!Days(file), p[a], p[b])
                            /\ p[a] = p[b] => a = b
  <2> HIDE DEF chosen
  <2> QED BY <1>2, ListedIs
<1>4. moves = [j \in DOMAIN p |-> [day |-> file[p[j]].day, asset |-> file[p[j]].asset,
                                   quantity |-> file[p[j]].quantity,
                                   kind |-> IF file[p[j]].kind \in Books!Adds THEN "in" ELSE "out"]]
  BY DEF Books!MovesOf, TitleRows
<1> HIDE DEF moves, chosen, p
<1>5. DOMAIN p = 1..n
  BY <1>3
<1>6. DOMAIN moves = 1..n /\ Len(moves) = n
  <2>1. DOMAIN moves = 1..n
    BY <1>4, <1>5
  <2>2. moves \in Seq({moves[j] : j \in 1..n})
    BY <1>3, <1>4, <1>5
  <2> HIDE DEF n
  <2> QED BY <1>3, <2>1, <2>2
<1>7. ASSUME NEW j \in 1..n
      PROVE  /\ p[j] \in chosen
             /\ moves[j].day = file[p[j]].day /\ moves[j].asset = file[p[j]].asset
             /\ moves[j].quantity = file[p[j]].quantity
             /\ (moves[j].kind = "in" <=> file[p[j]].kind \in Books!Adds)
  BY <1>3, <1>4, <1>5
<1>8. QED
  BY <1>1, <1>3, <1>6, <1>7 DEF moves, chosen, p

\* The sum of the moves of an asset up to the k-th is that of its rows.
LEMMA MovesAddUp ==
  ASSUME NEW file, Typed(file), NEW from \in Int, NEW to \in Int, NEW k \in Nat,
         k <= Cardinality(TitleRows(file, from, to)), NEW a \in Assets
  PROVE  LET moves == Books!MovesOf(file, from, to)
             p == Books!Listed(TitleRows(file, from, to), Books!Days(file))
             change == [i \in DOMAIN moves |->
                          IF moves[i].kind = "in" THEN moves[i].quantity ELSE -moves[i].quantity]
             part == {j \in 1..k : moves[j].asset = a}
             listed == {p[j] : j \in part}
         IN /\ IsFiniteSet(listed)
            /\ Books!Total([i \in part |-> change[i]]) = SumFunctionOnSet(Change(file), listed)
<1> DEFINE moves == Books!MovesOf(file, from, to)
           chosen == TitleRows(file, from, to)
           p == Books!Listed(chosen, Books!Days(file))
           n == Cardinality(chosen)
           change == [i \in DOMAIN moves |->
                        IF moves[i].kind = "in" THEN moves[i].quantity ELSE -moves[i].quantity]
           part == {j \in 1..k : moves[j].asset = a}
           listed == {p[j] : j \in part}
           f == [i \in part |-> change[i]]
<1>1. /\ n \in Nat /\ DOMAIN moves = 1..n /\ k <= n
      /\ chosen \subseteq DOMAIN file
      /\ \A b, c \in 1..n : p[b] = p[c] => b = c
      /\ \A j \in 1..n : /\ p[j] \in chosen
                         /\ moves[j].quantity = file[p[j]].quantity
                         /\ (moves[j].kind = "in" <=> file[p[j]].kind \in Books!Adds)
  <2>1. k <= n
    OBVIOUS
  <2> HIDE DEF change, part, listed, f
  <2>2. n \in Nat /\ DOMAIN moves = 1..n
    BY MovesAre
  <2>3. chosen \subseteq DOMAIN file
    BY MovesAre
  <2>4. \A b, c \in 1..n : p[b] = p[c] => b = c
    BY MovesAre
  <2>5. \A j \in 1..n : /\ p[j] \in chosen
                         /\ moves[j].quantity = file[p[j]].quantity
                         /\ (moves[j].kind = "in" <=> file[p[j]].kind \in Books!Adds)
    BY MovesAre
  <2> QED BY <2>1, <2>2, <2>3, <2>4, <2>5
<1> HIDE DEF n, moves, p
<1>2. part \subseteq 1..n /\ IsFiniteSet(part)
  <2>1. 1..k \subseteq 1..n
    BY <1>1
  <2>2. IsFiniteSet(1..n)
    BY <1>1, FS_Interval
  <2> QED BY <2>1, <2>2, FS_Subset
<1>3. ASSUME NEW j \in part
      PROVE  f[j] \in Int /\ Change(file)[p[j]] = f[j]
  <2>1. j \in 1..n /\ p[j] \in chosen /\ p[j] \in DOMAIN file
    BY <1>1, <1>2
  <2>2. f[j] = change[j] /\ change[j] = IF moves[j].kind = "in" THEN moves[j].quantity ELSE -moves[j].quantity
    BY <1>1, <2>1
  <2>3. Change(file)[p[j]] \in Int /\ Change(file)[p[j]] = Signed(file[p[j]])
    BY <2>1, ChangeIsInt DEF Typed
  <2>4. file[p[j]].kind \in Books!Adds \cup Books!Takes
    BY <2>1 DEF TitleRows
  <2>5. Signed(file[p[j]]) = IF file[p[j]].kind \in Books!Adds THEN file[p[j]].quantity ELSE -file[p[j]].quantity
    BY <2>4 DEF Signed
  <2> QED BY <1>1, <2>1, <2>2, <2>3, <2>5
<1>4. IsFiniteSet(listed) /\ SumFunctionOnSet(f, part) = SumFunctionOnSet(Change(file), listed)
  <2>1. \A x, y \in part : p[x] = p[y] => x = y
    BY <1>1, <1>2
  <2>2. Renames(p, part, listed)
    BY <2>1 DEF Renames
  <2>3. Carries(p, part, f, Change(file))
    <3> HIDE DEF f, part
    <3> QED BY <1>3 DEF Carries
  <2> HIDE DEF f, part, listed
  <2> QED BY <1>2, <2>2, <2>3, SumRenamed
<1>5. Books!Total(f) = SumFunctionOnSet(f, part)
  <2>1. DOMAIN f = part
    OBVIOUS
  <2> QED BY <2>1, TotalIsASum
<1> QED BY <1>4, <1>5 DEF moves, p

\* The rows of an asset among its moves up to the k-th, and its balance there.
MovedRows(file, from, to, a, k) ==
  LET moves == Books!MovesOf(file, from, to)
      p == Books!Listed(TitleRows(file, from, to), Books!Days(file))
      part == {j \in 1..k : moves[j].asset = a}
  IN {p[j] : j \in part}
Balance(file, from, to, a, k) ==
  LET moves == Books!MovesOf(file, from, to)
      change == [i \in DOMAIN moves |-> IF moves[i].kind = "in" THEN moves[i].quantity ELSE -moves[i].quantity]
      part == {j \in 1..k : moves[j].asset = a}
  IN Books!Book(file, from).titles[a] + Books!Total([i \in part |-> change[i]])

\* What some rows of an asset leave of it is what was held before the first cut
\* and what the moves up to the k-th add, and is never less than nothing.  S is
\* what the rows of the asset up to there are, among those of the later cut.
LEMMA BalanceIsHeld ==
  ASSUME NEW file, Typed(file), NoSplits(file, DOMAIN file), NEW from \in Int, NEW to \in Int, from < to,
         Books!Book(file, from) # Refused, Books!Book(file, to) # Refused,
         NEW k \in Nat, k <= Cardinality(TitleRows(file, from, to)), NEW a \in Assets,
         NEW S \in SUBSET Mine(file, to, a), FirstOf(file, S, Mine(file, to, a)),
         Mine(file, from, a) \subseteq S, MovedRows(file, from, to, a, k) \subseteq S,
         \A i \in S \ (Mine(file, from, a) \cup MovedRows(file, from, to, a, k)) : i \notin TitleRows(file, from, to)
  PROVE  /\ Books!Held(file, S) = Balance(file, from, to, a, k)
         /\ Balance(file, from, to, a, k) \in Nat
<1> DEFINE moves == Books!MovesOf(file, from, to)
           p == Books!Listed(TitleRows(file, from, to), Books!Days(file))
           n == Cardinality(TitleRows(file, from, to))
           part == {j \in 1..k : moves[j].asset = a}
           change == [i \in DOMAIN moves |->
                        IF moves[i].kind = "in" THEN moves[i].quantity ELSE -moves[i].quantity]
           moved == Books!Total([i \in part |-> change[i]])
           listed == {p[j] : j \in part}
           before == Mine(file, from, a)
           later == Mine(file, to, a)
           Sum(R) == SumFunctionOnSet(Change(file), R)
<1>1. IsFiniteSet(listed) /\ moved = Sum(listed)
  BY MovesAddUp
<1>2. before \subseteq S /\ listed \subseteq S /\ \A i \in S \ (before \cup listed) : i \notin TitleRows(file, from, to)
  <2>1. listed = MovedRows(file, from, to, a, k)
    BY DEF MovedRows
  <2> HIDE DEF listed, before
  <2> QED BY <2>1 DEF before
<1>3. n \in Nat /\ \A j \in 1..n : p[j] \in TitleRows(file, from, to)
  BY MovesAre
<1>4. before \in SUBSET DOMAIN file /\ later \in SUBSET DOMAIN file
  BY DEF Mine, Books!Until, Books!Kept
<1>5. before \cap listed = {}
  <2>1. part \subseteq 1..n
    BY <1>3
  <2>2. ASSUME NEW j \in part, p[j] \in before
        PROVE  FALSE
    <3>1. p[j] \in TitleRows(file, from, to)
      BY <1>3, <2>1
    <3>2. file[p[j]].day > from /\ p[j] \in DOMAIN file
      BY <3>1 DEF TitleRows, Books!Kept
    <3>3. file[p[j]].day <= from
      BY <2>2 DEF Mine, Books!Until
    <3>4. file[p[j]].day \in Int
      BY <3>2, RowsAreDated
    <3> QED BY <3>2, <3>3, <3>4
  <2> QED BY <2>2
<1> HIDE DEF moves, p, n, listed, moved, before, later
<1>6. /\ RowsOf(file, before) /\ RowsOf(file, later) /\ IsFiniteSet(before)
      /\ S \in SUBSET DOMAIN file /\ IsFiniteSet(S) /\ RowsOf(file, S)
  BY <1>4, RowsAreDated DEF later
<1>7. \A i \in DOMAIN file : Change(file)[i] \in Int /\ Change(file)[i] = Signed(file[i])
  BY ChangeIsInt DEF Typed
<1>8. Sum(before \cup listed) = Sum(before) + Sum(listed)
  <2>1. \A i \in before \cup listed : Change(file)[i] \in Int
    BY <1>2, <1>6, <1>7
  <2> QED BY <1>1, <1>5, <1>6, <2>1, SumOfBoth
<1>9. Sum(S) = Sum(before \cup listed)
  <2>1. ASSUME NEW i \in S \ (before \cup listed)
        PROVE  Change(file)[i] = 0
    <3>0. i \in later /\ i \notin before /\ i \notin TitleRows(file, from, to)
      <4>1. i \in S /\ i \notin before /\ S \subseteq later
        BY DEF later
      <4> QED BY <1>2, <4>1
    <3>1. i \in DOMAIN file /\ i \in Books!Kept(file) /\ i \in later /\ i \notin before /\ i \notin TitleRows(file, from, to)
      <4>1. i \in Books!Kept(file)
        BY <3>0 DEF later, Mine, Books!Until
      <4> QED BY <1>4, <3>0, <4>1
    <3>2. file[i].day <= to /\ ~(file[i].day <= from) /\ file[i].day \in Int
      BY <3>1, RowsAreDated DEF later, before, Mine, Books!Until
    <3>3. file[i].kind \notin Books!Adds \cup Books!Takes
      BY <3>1, <3>2 DEF TitleRows
    <3>4. Signed(file[i]) = 0
      BY <3>3 DEF Signed
    <3> QED BY <1>7, <3>1, <3>4
  <2>2. \A i \in S : Change(file)[i] \in Int
    BY <1>6, <1>7
  <2>3. before \cup listed \in SUBSET S
    BY <1>2
  <2> QED BY <1>6, <2>1, <2>2, <2>3, SumOfZeros
<1>10. Books!Held(file, later) # Refused /\ Books!Held(file, before) # Refused
       /\ Books!Book(file, from).titles[a] = Books!Held(file, before)
  BY BookIs DEF later, before
<1>11. Books!Held(file, S) # Refused
  <2>1. S \in SUBSET later /\ FirstOf(file, S, later) /\ file \in Seq(Events)
    BY DEF later, Typed
  <2> QED BY <1>6, <1>10, <2>1, HeldAllAlong
<1>12. ASSUME NEW R \in SUBSET DOMAIN file, RowsOf(file, R), Books!Held(file, R) # Refused
       PROVE  Books!Held(file, R) \in Nat /\ Books!Held(file, R) = Sum(R)
  <2>1. NoSplits(file, R) /\ R \in SUBSET R /\ file \in Seq(Events)
    BY DEF NoSplits, Typed
  <2> QED BY <1>12, <2>1, HeldIsSum
<1>13. /\ Books!Held(file, before) = Sum(before) /\ Books!Held(file, S) = Sum(S) /\ Books!Held(file, S) \in Nat
  BY <1>4, <1>6, <1>10, <1>11, <1>12
<1> HIDE DEF Sum
<1>14. Books!Held(file, S) = Books!Book(file, from).titles[a] + moved
  BY <1>1, <1>8, <1>9, <1>10, <1>13
<1>15. Balance(file, from, to, a, k) = Books!Book(file, from).titles[a] + moved
  BY DEF Balance, moved, moves
<1> QED BY <1>13, <1>14, <1>15

\* Between two cuts of a book without splits, its moves pass the bridge of titles
\* if their rows fit in it.
LEMMA PositionsFollow ==
  ASSUME NEW file, Typed(file), NoSplits(file, DOMAIN file), NEW from \in Int, NEW to \in Int, from < to,
         Books!Book(file, from) # Refused, Books!Book(file, to) # Refused
  PROVE  Books!PositionsBridge(Books!Book(file, from).titles, from, Books!MovesOf(file, from, to),
                               Books!Book(file, to).titles, to)
           <=> Books!PositionRows(Books!MovesOf(file, from, to)) \in 1..BridgeRows
<1> DEFINE moves == Books!MovesOf(file, from, to)
           chosen == TitleRows(file, from, to)
           p == Books!Listed(chosen, Books!Days(file))
           n == Cardinality(chosen)
           part(a, k) == {j \in 1..k : moves[j].asset = a}
           balance(a, k) == Balance(file, from, to, a, k)
           listed(a, k) == MovedRows(file, from, to, a, k)
           before(a) == Mine(file, from, a)
           later(a) == Mine(file, to, a)
           order(i, j) == Books!Precedes(Books!Days(file), i, j)
           upto(a, k) == {i \in later(a) : i = p[k] \/ order(i, p[k])}
<1>0. \A a, k : listed(a, k) = {p[j] : j \in part(a, k)}
  BY DEF MovedRows
<1>1. n \in Nat /\ DOMAIN moves = 1..n /\ Len(moves) = n
  BY MovesAre
<1>2. (\A i \in chosen : \E j \in 1..n : i = p[j]) /\ chosen \subseteq DOMAIN file
  BY MovesAre
<1>3. \A j, k \in 1..n : j < k => order(p[j], p[k])
  BY MovesAre
<1>4. ASSUME NEW j \in 1..n
      PROVE  /\ p[j] \in chosen
             /\ moves[j].day = file[p[j]].day /\ moves[j].asset = file[p[j]].asset
             /\ moves[j].quantity = file[p[j]].quantity
  BY MovesAre
<1> HIDE DEF p, n, moves
<1>5. \A a \in Assets : before(a) \in SUBSET DOMAIN file /\ later(a) \in SUBSET DOMAIN file
                         /\ before(a) \subseteq later(a)
  <2> SUFFICES ASSUME NEW a \in Assets PROVE before(a) \in SUBSET DOMAIN file /\ later(a) \in SUBSET DOMAIN file
                                             /\ before(a) \subseteq later(a)
    OBVIOUS
  <2>1. before(a) \in SUBSET DOMAIN file /\ later(a) \in SUBSET DOMAIN file
    BY DEF Mine, Books!Until, Books!Kept
  <2>2. ASSUME NEW i \in before(a) PROVE i \in later(a)
    <3>1. file[i].day \in Int /\ file[i].day <= from
      BY <2>1, RowsAreDated DEF Mine, Books!Until
    <3>2. file[i].day <= to
      BY <3>1
    <3> QED BY <3>2 DEF Mine, Books!Until
  <2> QED BY <2>1, <2>2
<1>6. ASSUME NEW j \in 1..n
      PROVE  /\ p[j] \in DOMAIN file /\ p[j] \in Books!Kept(file)
             /\ file[p[j]].day \in Int /\ file[p[j]].day > from /\ file[p[j]].day <= to
             /\ file[p[j]].asset \in Assets /\ file[p[j]].quantity > 0
  <2>1. p[j] \in DOMAIN file /\ p[j] \in chosen
    BY <1>2, <1>4
  <2>2. Books!WellFormed(file[p[j]]) /\ file[p[j]].day \in Int
    BY <2>1, RowsAreDated
  <2>3. /\ p[j] \in Books!Kept(file) /\ file[p[j]].kind \in Books!Adds \cup Books!Takes
        /\ file[p[j]].day > from /\ file[p[j]].day <= to
    BY <2>1 DEF TitleRows
  <2> QED BY <2>1, <2>2, <2>3 DEF Books!WellFormed
<1>7. /\ \A i, j \in DOMAIN file : /\ order(i, j) => file[i].day <= file[j].day
                                   /\ file[i].day < file[j].day => order(i, j)
                                   /\ i # j => order(i, j) \/ order(j, i)
                                   /\ order(i, j) => ~order(j, i)
      /\ \A i, j, k \in DOMAIN file : order(i, j) /\ order(j, k) => order(i, k)
  <2>1. Dated(DOMAIN file, Books!Days(file)) /\ \A i \in DOMAIN file : Books!Days(file)[i] = file[i].day
    BY RowsAreDated DEF RowsOf
  <2>2. \A i, j, k \in DOMAIN file :
           /\ i # j => order(i, j) \/ order(j, i)
           /\ order(i, j) => ~order(j, i) /\ Books!Days(file)[i] <= Books!Days(file)[j]
           /\ order(i, j) /\ order(j, k) => order(i, k)
    BY <2>1, OrderIsTotal
  <2>3. \A i, j \in DOMAIN file : file[i].day < file[j].day => order(i, j)
    BY <2>1 DEF Books!Precedes
  <2> QED BY <2>1, <2>2, <2>3
<1>8. ASSUME NEW a \in Assets, NEW k \in Nat, k <= n, NEW S \in SUBSET later(a), FirstOf(file, S, later(a)),
             before(a) \subseteq S, listed(a, k) \subseteq S,
             \A i \in S \ (before(a) \cup listed(a, k)) : i \notin chosen
      PROVE  Books!Held(file, S) = balance(a, k) /\ balance(a, k) \in Nat
  <2> HIDE DEF part, upto, order
  <2> QED BY <1>8, BalanceIsHeld DEF n
<1> HIDE DEF order, balance, before, later, listed
<1>9. ASSUME NEW k \in 1..n, NEW a \in Assets
      PROVE  balance(a, k) \in Nat
  <2> DEFINE S == upto(a, k)
  <2>1. S \in SUBSET later(a) /\ k \in Nat /\ k <= n
    BY <1>1
  <2>2. FirstOf(file, S, later(a))
    <3> SUFFICES ASSUME NEW i \in S, NEW j \in later(a) \ S PROVE order(i, j)
      BY DEF FirstOf, order
    <3>1. i \in DOMAIN file /\ j \in DOMAIN file /\ p[k] \in DOMAIN file
      BY <1>5, <1>6, <2>1
    <3>2. order(p[k], j)
      BY <1>7, <3>1
    <3> QED BY <1>7, <3>1, <3>2
  <2>3. before(a) \subseteq S
    <3> SUFFICES ASSUME NEW i \in before(a) PROVE i \in S
      OBVIOUS
    <3>1. i \in DOMAIN file /\ i \in later(a) /\ p[k] \in DOMAIN file
      BY <1>5, <1>6
    <3>2. file[i].day <= from /\ file[i].day \in Int
      BY <3>1, RowsAreDated DEF before, Mine, Books!Until
    <3>3. file[i].day < file[p[k]].day
      BY <1>6, <3>2
    <3> QED BY <1>7, <3>1, <3>3
  <2>4. listed(a, k) \subseteq S
    <3> SUFFICES ASSUME NEW j \in part(a, k) PROVE p[j] \in S
      BY <1>0
    <3>1. j \in 1..n /\ (j = k \/ j < k) /\ moves[j].asset = a
      BY <1>1
    <3>2. p[j] = p[k] \/ order(p[j], p[k])
      BY <1>3, <3>1
    <3>3. p[j] \in later(a)
      BY <1>4, <1>6, <3>1 DEF later, Mine, Books!Until
    <3> QED BY <3>2, <3>3
  <2>5. ASSUME NEW i \in S \ (before(a) \cup listed(a, k)), i \in chosen
        PROVE  FALSE
    <3>1. PICK j \in 1..n : i = p[j]
      BY <1>2, <2>5
    <3>2. i \in later(a) /\ i \in DOMAIN file /\ p[k] \in DOMAIN file
      BY <1>5, <1>6
    <3>3. moves[j].asset = a
      BY <1>4, <3>1, <3>2 DEF later, Mine
    <3>4. j \notin part(a, k)
      BY <1>0, <3>1
    <3>5. k < j
      BY <1>1, <3>1, <3>3, <3>4
    <3>6. order(p[k], i)
      BY <1>3, <3>1, <3>5
    <3>7. i = p[k] \/ order(i, p[k])
      OBVIOUS
    <3> QED BY <1>7, <3>2, <3>6, <3>7
  <2> HIDE DEF S
  <2> QED BY <1>8, <2>1, <2>2, <2>3, <2>4, <2>5
<1>10. ASSUME NEW a \in Assets
       PROVE  Books!Book(file, to).titles[a] = balance(a, n) /\ Books!Book(file, from).titles[a] \in Nat
  <2>1. listed(a, n) \subseteq later(a)
    <3> SUFFICES ASSUME NEW j \in part(a, n) PROVE p[j] \in later(a)
      BY <1>0
    <3> QED BY <1>4, <1>6 DEF later, Mine, Books!Until
  <2>2. FirstOf(file, later(a), later(a)) /\ later(a) \in SUBSET later(a) /\ before(a) \subseteq later(a)
    BY <1>5 DEF FirstOf
  <2>3. ASSUME NEW i \in later(a) \ (before(a) \cup listed(a, n)), i \in chosen
        PROVE  FALSE
    <3>1. PICK j \in 1..n : i = p[j]
      BY <1>2, <2>3
    <3>2. moves[j].asset = a
      BY <1>4, <3>1 DEF later, Mine
    <3> QED BY <1>0, <3>1, <3>2
  <2>4. Books!Held(file, later(a)) = balance(a, n)
    BY <1>1, <1>8, <2>1, <2>2, <2>3
  <2>5. Books!Book(file, to).titles[a] = Books!Held(file, later(a))
    BY BookIs DEF later
  <2>6. Books!Book(file, from).titles[a] \in Nat
    <3>1. before(a) \in SUBSET DOMAIN file /\ RowsOf(file, before(a)) /\ before(a) \in SUBSET before(a)
      BY <1>5, RowsAreDated
    <3>2. NoSplits(file, before(a)) /\ file \in Seq(Events)
      BY <3>1 DEF NoSplits, Typed
    <3>3. /\ Books!Held(file, before(a)) # Refused
          /\ Books!Book(file, from).titles[a] = Books!Held(file, before(a))
      BY BookIs DEF before
    <3> QED BY <3>1, <3>2, <3>3, HeldIsSum
  <2> QED BY <2>4, <2>5, <2>6
<1>11. ASSUME NEW i \in 1..n
       PROVE  /\ moves[i].quantity > 0 /\ moves[i].asset \in Assets
              /\ from <= moves[i].day /\ moves[i].day <= to
              /\ i > 1 => moves[i - 1].day <= moves[i].day
              /\ balance(moves[i].asset, i) >= 0
  <2>1. /\ moves[i].quantity > 0 /\ moves[i].asset \in Assets
        /\ from <= moves[i].day /\ moves[i].day <= to
    BY <1>4, <1>6
  <2>2. ASSUME i > 1
        PROVE  moves[i - 1].day <= moves[i].day
    <3>1. i - 1 \in 1..n /\ i - 1 < i
      BY <1>1, <2>2
    <3>2. order(p[i - 1], p[i])
      BY <1>3, <3>1
    <3> QED BY <1>4, <1>6, <1>7, <3>1, <3>2
  <2>3. balance(moves[i].asset, i) >= 0
    BY <1>9, <2>1
  <2> QED BY <2>1, <2>2, <2>3
<1>12. \A a \in Assets : Books!Book(file, from).titles[a] >= 0 /\ Books!Book(file, to).titles[a] = balance(a, Len(moves))
  BY <1>1, <1>10
<1>13. from <= to
  OBVIOUS
<1>14. QED
  <2>1. DOMAIN moves = 1..n /\ Len(moves) = n
    BY <1>1
  <2>2. /\ from <= to
        /\ \A i \in DOMAIN moves : /\ moves[i].quantity > 0 /\ moves[i].asset \in Assets
                                   /\ from <= moves[i].day /\ moves[i].day <= to
                                   /\ i > 1 => moves[i - 1].day <= moves[i].day
                                   /\ balance(moves[i].asset, i) >= 0
        /\ \A a \in Assets : /\ Books!Book(file, from).titles[a] >= 0
                             /\ Books!Book(file, to).titles[a] = balance(a, Len(moves))
    BY <1>11, <1>12, <1>13, <2>1
  <2>3. ASSUME Books!PositionRows(moves) \in 1..BridgeRows
        PROVE  Books!Cardinality(Assets) \in 1..BridgeRows
    <3>0. Books!Cardinality(Assets) = Cardinality(Assets)
      BY DEF Books!Cardinality, Cardinality
    <3>1. Cardinality(Assets) \in Nat /\ (Cardinality(Assets) = 0 <=> Assets = {}) /\ BridgeRows \in Nat
      BY AssetsAssumption, BooksAssumption, FS_CardinalityType, FS_EmptySet
    <3>2. Cardinality(Assets) + n \in 1..BridgeRows
      <4>1. Books!PositionRows(moves) = Books!Cardinality(Assets) + Len(moves)
        BY Zenon DEF Books!PositionRows
      <4> QED BY <2>1, <2>3, <3>0, <4>1
    <3>3. Assets # {}
      <4>1. ASSUME n > 0 PROVE Assets # {}
        <5>1. 1 \in 1..n
          BY <1>1, <4>1
        <5> QED BY <1>6, <5>1
      <4> QED BY <1>1, <3>1, <3>2, <4>1
    <3> QED BY <1>1, <3>0, <3>1, <3>2, <3>3
  <2>4. ASSUME Books!PositionRows(moves) \in 1..BridgeRows
        PROVE  Books!PositionsBridge(Books!Book(file, from).titles, from, moves, Books!Book(file, to).titles, to)
    <3>1. Books!Cardinality(Assets) \in 1..BridgeRows
      BY <2>3, <2>4
    <3> QED BY <2>2, <2>4, <3>1, Zenon DEF Books!PositionsBridge, Balance, balance, moves
  <2>5. ASSUME Books!PositionsBridge(Books!Book(file, from).titles, from, moves, Books!Book(file, to).titles, to)
        PROVE  Books!PositionRows(moves) \in 1..BridgeRows
    BY <2>5, Zenon DEF Books!PositionsBridge
  <2> QED BY <2>4, <2>5 DEF moves

\* The flows that are written are the rows of cash that settle between the cuts.
LEMMA FlowsAre ==
  ASSUME NEW file, Typed(file), NEW from \in Int, NEW to \in Int
  PROVE  LET flows == Books!FlowsOf(file, from, to)
             chosen == CashRows(file, from, to)
             p == Books!Listed(chosen, Settles(file))
             n == Cardinality(chosen)
         IN /\ n \in Nat /\ DOMAIN flows = 1..n
            /\ chosen = {p[j] : j \in 1..n} /\ chosen \subseteq DOMAIN file
            /\ \A a, b \in 1..n : /\ a < b => Books!Precedes(Settles(file), p[a], p[b])
                                  /\ p[a] = p[b] => a = b
            /\ \A j \in 1..n :
                 /\ p[j] \in chosen /\ flows[j].day = file[p[j]].settled
                 /\ flows[j].amount = IF InCash(file)[p[j]] > 0 THEN InCash(file)[p[j]] ELSE -InCash(file)[p[j]]
                 /\ (flows[j].kind = "in" <=> InCash(file)[p[j]] > 0)
<1> DEFINE flows == Books!FlowsOf(file, from, to)
           chosen == CashRows(file, from, to)
           p == Books!Listed(chosen, Settles(file))
           n == Cardinality(chosen)
<1>1. chosen \in SUBSET DOMAIN file
  BY DEF CashRows, Books!Kept
<1>2. Dated(chosen, Settles(file))
  BY <1>1, RowsAreDated
<1>3. /\ n \in Nat /\ p \in [1..n -> chosen] /\ chosen = {p[j] : j \in 1..n}
      /\ \A a, b \in 1..n : /\ a < b => Books!Precedes(Settles(file), p[a], p[b])
                            /\ p[a] = p[b] => a = b
  <2> HIDE DEF chosen
  <2> QED BY <1>2, ListedIs
<1>4. flows = [j \in DOMAIN p |->
                 [day |-> file[p[j]].settled,
                  kind |-> IF Books!CashOf(file[p[j]]) > 0 THEN "in" ELSE "out",
                  amount |-> IF Books!CashOf(file[p[j]]) > 0 THEN Books!CashOf(file[p[j]])
                                                             ELSE -Books!CashOf(file[p[j]])]]
  BY DEF Books!FlowsOf, CashRows, Settles
<1> HIDE DEF flows, chosen, p
<1>5. DOMAIN p = 1..n
  BY <1>3
<1>6. DOMAIN flows = 1..n
  BY <1>4, <1>5
<1>7. ASSUME NEW j \in 1..n
      PROVE  /\ p[j] \in chosen /\ flows[j].day = file[p[j]].settled
             /\ flows[j].amount = IF InCash(file)[p[j]] > 0 THEN InCash(file)[p[j]] ELSE -InCash(file)[p[j]]
             /\ (flows[j].kind = "in" <=> InCash(file)[p[j]] > 0)
  <2>1. p[j] \in chosen /\ p[j] \in DOMAIN file
    BY <1>1, <1>3
  <2>2. InCash(file)[p[j]] = Books!CashOf(file[p[j]])
    BY <2>1, RowsAreDated
  <2>3. flows[j] = [day |-> file[p[j]].settled,
                    kind |-> IF Books!CashOf(file[p[j]]) > 0 THEN "in" ELSE "out",
                    amount |-> IF Books!CashOf(file[p[j]]) > 0 THEN Books!CashOf(file[p[j]])
                                                               ELSE -Books!CashOf(file[p[j]])]
    BY <1>4, <1>5
  <2> QED BY <2>1, <2>2, <2>3
<1>8. QED
  BY <1>1, <1>3, <1>6, <1>7 DEF flows, chosen, p

\* The cash of the later cut is that of the first and what settles between them.
LEMMA CashAddsUp ==
  ASSUME NEW file, Typed(file), NEW from \in Int, NEW to \in Int, from < to
  PROVE  /\ SumFunctionOnSet(InCash(file), Due(file, to))
              = SumFunctionOnSet(InCash(file), Due(file, from))
                + SumFunctionOnSet(InCash(file), CashRows(file, from, to))
         /\ SumFunctionOnSet(InCash(file), Due(file, from)) \in Int
         /\ SumFunctionOnSet(InCash(file), CashRows(file, from, to)) \in Int
<1> DEFINE before == Due(file, from)
           later == Due(file, to)
           rows == CashRows(file, from, to)
<1>1. before \in SUBSET DOMAIN file /\ later \in SUBSET DOMAIN file /\ rows \in SUBSET DOMAIN file
  BY DEF Due, CashRows, Books!Until, Books!Kept
<1>2. ASSUME NEW i \in DOMAIN file
      PROVE  /\ file[i].day \in Int /\ file[i].settled \in Int /\ file[i].day <= file[i].settled
             /\ InCash(file)[i] \in Int /\ InCash(file)[i] = Books!CashOf(file[i])
             /\ i \in before <=> i \in Books!Kept(file) /\ file[i].settled <= from
             /\ i \in later <=> i \in Books!Kept(file) /\ file[i].settled <= to
             /\ i \in rows <=> /\ i \in Books!Kept(file) /\ Books!CashOf(file[i]) # 0
                               /\ file[i].settled > from /\ file[i].settled <= to
  <2>1. /\ file[i].day \in Int /\ file[i].settled \in Int /\ file[i].day <= file[i].settled
        /\ InCash(file)[i] \in Int /\ InCash(file)[i] = Books!CashOf(file[i])
    BY RowsAreDated
  <2>2. /\ i \in before <=> i \in Books!Kept(file) /\ file[i].day <= from /\ file[i].settled <= from
        /\ i \in later <=> i \in Books!Kept(file) /\ file[i].day <= to /\ file[i].settled <= to
        /\ i \in rows <=> /\ i \in Books!Kept(file) /\ Books!CashOf(file[i]) # 0
                          /\ file[i].settled > from /\ file[i].settled <= to
    BY DEF Due, CashRows, Books!Until
  <2> QED BY <2>1, <2>2
<1> HIDE DEF before, later, rows
<1>3. before \cap rows = {} /\ before \cup rows \in SUBSET later
  <2>1. \A i \in before : i \notin rows /\ i \in later
    BY <1>1, <1>2
  <2>2. \A i \in rows : i \in later
    BY <1>1, <1>2
  <2> QED BY <2>1, <2>2
<1>4. \A i \in later \ (before \cup rows) : InCash(file)[i] = 0
  BY <1>1, <1>2
<1>5. IsFiniteSet(before) /\ IsFiniteSet(later) /\ IsFiniteSet(rows)
  BY <1>1, RowsAreDated
<1>6. \A i \in later : InCash(file)[i] \in Int
  BY <1>1, <1>2
<1>7. SumFunctionOnSet(InCash(file), later) = SumFunctionOnSet(InCash(file), before \cup rows)
  BY <1>3, <1>4, <1>5, <1>6, SumOfZeros
<1>8. \A i \in before \cup rows : InCash(file)[i] \in Int
  BY <1>1, <1>2
<1>9. SumFunctionOnSet(InCash(file), before \cup rows)
        = SumFunctionOnSet(InCash(file), before) + SumFunctionOnSet(InCash(file), rows)
  BY <1>3, <1>5, <1>8, SumOfBoth
<1>10. SumFunctionOnSet(InCash(file), before) \in Int /\ SumFunctionOnSet(InCash(file), rows) \in Int
  BY <1>5, <1>8, SumIsInt
<1> QED BY <1>7, <1>9, <1>10 DEF before, later, rows

\* Between two cuts the flows of the book pass the bridge of cash if their rows
\* fit in it.
LEMMA CashFollow ==
  ASSUME NEW file, Typed(file), NEW from \in Int, NEW to \in Int, from < to,
         Books!Book(file, from) # Refused, Books!Book(file, to) # Refused,
         Books!Book(file, from).cash >= 0, Books!Book(file, to).cash >= 0
  PROVE  Books!CashBridge(Books!Book(file, from).cash, from, Books!FlowsOf(file, from, to),
                          Books!Book(file, to).cash, to, Books!Book(file, to).cash)
           <=> Books!CashRows(Books!FlowsOf(file, from, to)) <= BridgeRows
<1> DEFINE flows == Books!FlowsOf(file, from, to)
           chosen == CashRows(file, from, to)
           p == Books!Listed(chosen, Settles(file))
           n == Cardinality(chosen)
           opening == Books!Book(file, from).cash
           closing == Books!Book(file, to).cash
           f == [i \in DOMAIN flows |-> IF flows[i].kind = "in" THEN flows[i].amount ELSE -flows[i].amount]
<1>1. /\ n \in Nat /\ DOMAIN flows = 1..n
      /\ chosen = {p[j] : j \in 1..n} /\ chosen \subseteq DOMAIN file
  BY FlowsAre
<1>2. \A a, b \in 1..n : /\ a < b => Books!Precedes(Settles(file), p[a], p[b])
                         /\ p[a] = p[b] => a = b
  BY FlowsAre
<1>3. \A j \in 1..n : /\ p[j] \in chosen /\ flows[j].day = file[p[j]].settled
                      /\ flows[j].amount = IF InCash(file)[p[j]] > 0 THEN InCash(file)[p[j]] ELSE -InCash(file)[p[j]]
                      /\ (flows[j].kind = "in" <=> InCash(file)[p[j]] > 0)
  BY FlowsAre
<1>4. opening = SumFunctionOnSet(InCash(file), Due(file, from)) /\ closing = SumFunctionOnSet(InCash(file), Due(file, to))
  BY BookIs
<1>5. closing = opening + SumFunctionOnSet(InCash(file), chosen)
  BY <1>4, CashAddsUp
<1>6. \A i \in chosen : /\ i \in DOMAIN file /\ InCash(file)[i] \in Int /\ InCash(file)[i] # 0
                        /\ file[i].settled \in Int /\ Settles(file)[i] = file[i].settled
                        /\ from <= file[i].settled /\ file[i].settled <= to
  <2> SUFFICES ASSUME NEW i \in chosen
               PROVE  /\ i \in DOMAIN file /\ InCash(file)[i] \in Int /\ InCash(file)[i] # 0
                      /\ file[i].settled \in Int /\ Settles(file)[i] = file[i].settled
                      /\ from <= file[i].settled /\ file[i].settled <= to
    OBVIOUS
  <2>1. i \in DOMAIN file
    BY <1>1
  <2>2. /\ InCash(file)[i] \in Int /\ InCash(file)[i] = Books!CashOf(file[i])
        /\ file[i].settled \in Int /\ Settles(file)[i] = file[i].settled
    BY <2>1, RowsAreDated
  <2>3. Books!CashOf(file[i]) # 0 /\ file[i].settled > from /\ file[i].settled <= to
    BY DEF CashRows
  <2> QED BY <2>1, <2>2, <2>3
<1> HIDE DEF flows, chosen, p, n
<1>7. ASSUME NEW i \in DOMAIN flows
      PROVE  /\ flows[i].amount > 0 /\ from <= flows[i].day /\ flows[i].day <= to
             /\ i > 1 => flows[i - 1].day <= flows[i].day
  <2>1. i \in 1..n /\ p[i] \in chosen
    BY <1>1, <1>3
  <2>2. flows[i].amount > 0 /\ from <= flows[i].day /\ flows[i].day <= to
    BY <1>3, <1>6, <2>1
  <2>3. ASSUME i > 1
        PROVE  flows[i - 1].day <= flows[i].day
    <3>1. i - 1 \in 1..n /\ i - 1 < i
      BY <1>1, <2>1, <2>3
    <3>2. Books!Precedes(Settles(file), p[i - 1], p[i]) /\ p[i - 1] \in chosen
      BY <1>2, <1>3, <2>1, <3>1
    <3>3. Settles(file)[p[i - 1]] <= Settles(file)[p[i]]
      BY <1>6, <2>1, <3>2 DEF Books!Precedes
    <3> QED BY <1>3, <1>6, <2>1, <3>1, <3>2, <3>3
  <2> QED BY <2>2, <2>3
<1>8. SumFunctionOnSet(f, 1..n) = SumFunctionOnSet(InCash(file), chosen)
  <2>1. Renames(p, 1..n, chosen)
    BY <1>1, <1>2, <1>3 DEF Renames
  <2>2. ASSUME NEW j \in 1..n
        PROVE  f[j] \in Int /\ InCash(file)[p[j]] = f[j]
    <3>1. InCash(file)[p[j]] \in Int
      BY <1>3, <1>6
    <3>2. f[j] = IF flows[j].kind = "in" THEN flows[j].amount ELSE -flows[j].amount
      BY <1>1
    <3> QED BY <1>3, <3>1, <3>2
  <2> HIDE DEF f
  <2>3. Carries(p, 1..n, f, InCash(file))
    BY <2>2 DEF Carries
  <2>4. IsFiniteSet(1..n)
    BY <1>1, FS_Interval
  <2> QED BY <2>1, <2>3, <2>4, SumRenamed
<1>9. Books!Total(f) = SumFunctionOnSet(f, 1..n)
  <2>1. DOMAIN f = 1..n
    BY <1>1
  <2> QED BY <2>1, TotalIsASum
<1>10. closing = opening + Books!Total(f)
  BY <1>5, <1>8, <1>9
<1>11. /\ opening >= 0 /\ closing >= 0 /\ closing = closing
       /\ \A i \in DOMAIN flows : /\ flows[i].amount > 0 /\ from <= flows[i].day /\ flows[i].day <= to
                                  /\ i > 1 => flows[i - 1].day <= flows[i].day
  BY <1>7
<1>12. Books!CashRows(flows) \in 2..BridgeRows <=> Books!CashRows(flows) <= BridgeRows
  <2>1. Len(flows) = n
    BY FlowsAre DEF flows, n, chosen, p
  <2>2. BridgeRows \in Nat
    BY BooksAssumption
  <2> QED BY <1>1, <2>1, <2>2 DEF Books!CashRows
<1>13. ASSUME Books!CashRows(flows) <= BridgeRows
       PROVE  Books!CashBridge(opening, from, flows, closing, to, closing)
  BY <1>10, <1>11, <1>12, <1>13, Zenon DEF Books!CashBridge, flows
<1>14. ASSUME Books!CashBridge(opening, from, flows, closing, to, closing)
       PROVE  Books!CashRows(flows) <= BridgeRows
  <2>1. Books!CashRows(flows) \in 2..BridgeRows
    BY <1>14, Zenon DEF Books!CashBridge
  <2> QED BY <1>12, <2>1
<1> QED BY <1>13, <1>14 DEF flows
-----------------------------------------------------------------------------
(* Part 6: the value of a book at quotes its trades are made at. *)

AtQuote(file, quote) ==
  \A i \in DOMAIN file : /\ file[i].kind # "SPLIT"
                         /\ file[i].kind \in {"BUY", "SELL"} => file[i].price = quote[file[i].asset]
Worth(e, quote) == IF e.asset \in Assets THEN Signed(e) * quote[e.asset] ELSE 0

\* What a row brings in is what it adds to the titles and to the cash, but for
\* the cent of a trade.
LEMMA BroughtIs ==
  ASSUME NEW e \in Events, Books!WellFormed(e), NEW quote \in [Assets -> Nat], e.kind # "SPLIT",
         e.kind \in {"BUY", "SELL"} => e.price = quote[e.asset]
  PROVE  /\ Worth(e, quote) \in Int /\ Books!CashOf(e) \in Int
         /\ Books!Brought(e, quote) \in Int /\ Books!Rounded(e) \in Nat
         /\ Worth(e, quote) + Books!CashOf(e) <= Books!Brought(e, quote) + Books!Rounded(e)
         /\ Books!Brought(e, quote) <= Worth(e, quote) + Books!CashOf(e) + Books!Rounded(e)
<1>0. Books!Rounded(e) \in Nat
  BY DEF Books!Rounded, Books!Cent
<1>1. /\ e.quantity \in Nat /\ e.price \in Nat /\ e.amount \in Nat /\ e.fee \in Nat
      /\ e.asset \in Assets => quote[e.asset] \in Nat
  BY DEF Events
<1>2. e.kind \in Books!Adds \cup Books!Takes => e.asset \in Assets
  BY DEF Books!WellFormed
<1>3. \A a, b \in Nat : a * b \in Int /\ -(a * b) \in Int /\ (-a) * b = -(a * b) /\ 0 * b = 0
  OBVIOUS
<1>4. CASE e.kind = "BUY"
  <2>1. e.asset \in Assets /\ Books!Distance(e.quantity * quote[e.asset], e.amount) <= Books!Rounded(e)
    BY <1>2, <1>4 DEF Books!Adds, Books!WellFormed, Books!Rounded
  <2>2. Signed(e) = e.quantity
    BY <1>4 DEF Signed, Books!Adds
  <2>3. Books!CashOf(e) = -e.amount - e.fee
    BY <1>4 DEF Books!CashOf, Books!WithoutCash, Books!Debits
  <2>4. Books!Brought(e, quote) = -e.fee
    BY <1>4, Zenon DEF Books!Brought
  <2>5. Worth(e, quote) = e.quantity * quote[e.asset] /\ e.quantity * quote[e.asset] \in Int
    BY <1>1, <1>3, <2>1, <2>2 DEF Worth
  <2> QED BY <1>0, <1>1, <2>1, <2>3, <2>4, <2>5 DEF Books!Distance
<1>5. CASE e.kind = "SELL"
  <2>1. e.asset \in Assets /\ Books!Distance(e.quantity * quote[e.asset], e.amount) <= Books!Rounded(e)
    BY <1>2, <1>5 DEF Books!Takes, Books!WellFormed, Books!Rounded
  <2>2. Signed(e) = -e.quantity
    BY <1>5 DEF Signed, Books!Adds, Books!Takes
  <2>3. Books!CashOf(e) = e.amount - e.fee
    BY <1>5 DEF Books!CashOf, Books!WithoutCash, Books!Debits
  <2>4. Books!Brought(e, quote) = -e.fee
    BY <1>5, Zenon DEF Books!Brought
  <2>5. Worth(e, quote) = -(e.quantity * quote[e.asset]) /\ e.quantity * quote[e.asset] \in Int
    BY <1>1, <1>3, <2>1, <2>2 DEF Worth
  <2> QED BY <1>0, <1>1, <2>1, <2>3, <2>4, <2>5 DEF Books!Distance
<1>6. CASE e.kind \in {"OPEN_POSITION", "ASSET_IN"}
  <2>1. e.asset \in Assets /\ Signed(e) = e.quantity
    BY <1>2, <1>6 DEF Signed, Books!Adds
  <2>2. Books!CashOf(e) = 0
    BY <1>6 DEF Books!CashOf, Books!WithoutCash
  <2>3. Books!Brought(e, quote) = e.quantity * quote[e.asset]
    BY <1>6, Zenon DEF Books!Brought
  <2>4. Worth(e, quote) = e.quantity * quote[e.asset]
    BY <2>1 DEF Worth
  <2> QED BY <1>0, <1>1, <1>3, <2>1, <2>2, <2>3, <2>4
<1>7. CASE e.kind = "ASSET_OUT"
  <2>1. e.asset \in Assets /\ Signed(e) = -e.quantity
    BY <1>2, <1>7 DEF Signed, Books!Adds, Books!Takes
  <2>2. Books!CashOf(e) = 0
    BY <1>7 DEF Books!CashOf, Books!WithoutCash
  <2>3. Books!Brought(e, quote) = -(e.quantity * quote[e.asset])
    BY <1>7, Zenon DEF Books!Brought
  <2>4. Worth(e, quote) = -(e.quantity * quote[e.asset])
    BY <1>1, <1>3, <2>1 DEF Worth
  <2> QED BY <1>0, <1>1, <1>3, <2>1, <2>2, <2>3, <2>4
<1>8. CASE e.kind \notin {"BUY", "SELL", "OPEN_POSITION", "ASSET_IN", "ASSET_OUT"}
  <2>1. Signed(e) = 0
    BY <1>8 DEF Signed, Books!Adds, Books!Takes
  <2>2. Worth(e, quote) = 0
    BY <1>1, <1>3, <2>1 DEF Worth
  <2>3. -e.amount - e.fee \in Int /\ e.amount - e.fee \in Int
    BY <1>1
  <2>4. Books!CashOf(e) \in Int
    BY <2>3 DEF Books!CashOf
  <2>5. Books!Brought(e, quote) = Books!CashOf(e)
    BY <1>8, Zenon DEF Books!Brought
  <2> QED BY <1>0, <2>2, <2>4, <2>5
<1> QED BY <1>4, <1>5, <1>6, <1>7, <1>8

\* The titles at their quotes are worth what the rows of them are.
LEMMA TitlesAreWorth ==
  ASSUME NEW file, Typed(file), NoSplits(file, DOMAIN file), NEW cut \in Int, Books!Book(file, cut) # Refused,
         NEW quote \in [Assets -> Nat]
  PROVE  Books!Total([a \in Assets |-> Books!Book(file, cut).titles[a] * quote[a]])
           = SumFunctionOnSet([i \in Books!Until(file, cut) |-> Worth(file[i], quote)], Books!Until(file, cut))
<1> DEFINE U == Books!Until(file, cut)
           worth == [i \in U |-> Worth(file[i], quote)]
           by == [i \in DOMAIN file |-> file[i].asset]
           titles == Books!Book(file, cut).titles
           value == [a \in Assets |-> titles[a] * quote[a]]
           rowsOf(a) == Mine(file, cut, a)
<1>1. U \in SUBSET DOMAIN file /\ IsFiniteSet(U)
  <2>1. U \in SUBSET DOMAIN file
    BY DEF Books!Until, Books!Kept
  <2> QED BY <2>1, RowsAreDated
<1>2. ASSUME NEW i \in DOMAIN file, file[i].asset \in Assets
      PROVE  /\ Worth(file[i], quote) = Change(file)[i] * quote[file[i].asset]
             /\ Change(file)[i] \in Int /\ quote[file[i].asset] \in Int
  <2>1. Change(file)[i] = Signed(file[i]) /\ Change(file)[i] \in Int
    BY ChangeIsInt DEF Typed
  <2> QED BY <1>2, <2>1 DEF Worth
<1>3. \A i \in U : worth[i] \in Int
  <2> SUFFICES ASSUME NEW i \in U PROVE Worth(file[i], quote) \in Int
    OBVIOUS
  <2>1. CASE file[i].asset \in Assets
    <3>1. /\ Worth(file[i], quote) = Change(file)[i] * quote[file[i].asset]
          /\ Change(file)[i] \in Int /\ quote[file[i].asset] \in Int
      BY <1>1, <1>2, <2>1
    <3> QED BY <3>1
  <2>2. CASE file[i].asset \notin Assets
    BY <2>2 DEF Worth
  <2> QED BY <2>1, <2>2
<1>4. \A i \in U \ Grouped(U, by, Assets) : worth[i] = 0
  BY <1>1 DEF Grouped, Worth
<1>5. \A a \in Assets : rowsOf(a) = Grouped(U, by, {a}) /\ rowsOf(a) \in SUBSET DOMAIN file /\ rowsOf(a) \in SUBSET U
  BY <1>1 DEF Mine, Grouped
<1>6. ASSUME NEW a \in Assets
      PROVE  /\ titles[a] \in Int
             /\ value[a] = SumsBy(worth, U, by, Assets)[a] /\ value[a] \in Int
  <2>1. RowsOf(file, rowsOf(a)) /\ IsFiniteSet(rowsOf(a)) /\ rowsOf(a) \in SUBSET rowsOf(a) /\ file \in Seq(Events)
    BY <1>5, RowsAreDated DEF Typed
  <2>2. NoSplits(file, rowsOf(a))
    BY <1>5 DEF NoSplits
  <2>3. titles[a] = Books!Held(file, rowsOf(a)) /\ Books!Held(file, rowsOf(a)) # Refused
    BY BookIs
  <2>4. titles[a] = SumFunctionOnSet(Change(file), rowsOf(a)) /\ titles[a] \in Int
    BY <2>1, <2>2, <2>3, HeldIsSum
  <2>5. quote[a] \in Int
    OBVIOUS
  <2>6. \A i \in rowsOf(a) : Change(file)[i] \in Int /\ worth[i] = Change(file)[i] * quote[a]
    <3> SUFFICES ASSUME NEW i \in rowsOf(a)
                 PROVE  Change(file)[i] \in Int /\ worth[i] = Change(file)[i] * quote[a]
      OBVIOUS
    <3>1. i \in U /\ i \in DOMAIN file /\ file[i].asset = a
      BY <1>5 DEF Mine
    <3> QED BY <1>2, <3>1
  <2>7. SumFunctionOnSet(worth, rowsOf(a)) = SumFunctionOnSet(Change(file), rowsOf(a)) * quote[a]
    <3> HIDE DEF worth, rowsOf
    <3> QED BY <2>1, <2>5, <2>6, SumTimes
  <2>8. SumsBy(worth, U, by, Assets)[a] = SumFunctionOnSet(worth, rowsOf(a))
    <3> HIDE DEF worth, rowsOf, U, by
    <3> QED BY <1>5 DEF SumsBy
  <2>9. value[a] = titles[a] * quote[a] /\ titles[a] * quote[a] \in Int
    BY <2>4, <2>5
  <2> HIDE DEF titles, value, worth, U, by, rowsOf
  <2> QED BY <2>4, <2>7, <2>8, <2>9
<1>7. IsFiniteSet(Assets)
  BY AssetsAssumption
<1>8. Books!Total(value) = SumFunctionOnSet(value, Assets)
  <2>1. DOMAIN value = Assets
    OBVIOUS
  <2> HIDE DEF value
  <2> QED BY <2>1, TotalIsASum
<1>9. Grouped(U, by, Assets) \in SUBSET U
  BY DEF Grouped
<1> HIDE DEF value, worth, U, by
<1>10. SumFunctionOnSet(value, Assets) = SumFunctionOnSet(SumsBy(worth, U, by, Assets), Assets)
  <2>1. \A a \in Assets : value[a] \in Int /\ SumsBy(worth, U, by, Assets)[a] = value[a]
    BY <1>6
  <2> QED BY <1>7, <2>1, SumSame
<1>11. SumFunctionOnSet(SumsBy(worth, U, by, Assets), Assets) = SumFunctionOnSet(worth, Grouped(U, by, Assets))
  BY <1>1, <1>3, <1>7, SumOfGroups
<1>12. SumFunctionOnSet(worth, U) = SumFunctionOnSet(worth, Grouped(U, by, Assets))
  BY <1>1, <1>3, <1>4, <1>9, SumOfZeros
<1> QED BY <1>8, <1>10, <1>11, <1>12 DEF value, worth, U

\* A book is worth what was put into it less what was taken and paid, but for a
\* cent of each trade.
LEMMA NothingAppears ==
  ASSUME NEW file, Typed(file), AtQuote(file, Quote), NEW cut \in Int, Books!Book(file, cut) # Refused
  PROVE  Books!Distance(Books!Value(Books!Book(file, cut), Quote),
                        Books!Total([i \in Books!Until(file, cut) |-> Books!Brought(file[i], Quote)]))
           <= Books!Total([i \in Books!Until(file, cut) |-> Books!Rounded(file[i])])
<1> DEFINE U == Books!Until(file, cut)
           due == Due(file, cut)
           kept == Books!Book(file, cut)
           worth == [i \in U |-> Worth(file[i], Quote)]
           brought == [i \in U |-> Books!Brought(file[i], Quote)]
           rounded == [i \in U |-> Books!Rounded(file[i])]
           added == [i \in U |-> worth[i] + InCash(file)[i]]
           most == [i \in U |-> brought[i] + rounded[i]]
           least == [i \in U |-> added[i] + rounded[i]]
           titles == Books!Total([a \in Assets |-> kept.titles[a] * Quote[a]])
           sum(f) == SumFunctionOnSet(f, U)
<1>1. Quote \in [Assets -> Nat] /\ NoSplits(file, DOMAIN file)
  BY BooksAssumption DEF AtQuote, NoSplits
<1>2. titles = sum(worth)
  BY <1>1, TitlesAreWorth
<1>3. U \in SUBSET DOMAIN file /\ due \in SUBSET U
  BY DEF Books!Until, Books!Kept, Due
<1>4. kept.cash = SumFunctionOnSet(InCash(file), due) /\ kept.pending = SumFunctionOnSet(InCash(file), U \ due)
  BY BookIs
<1>5. \A i \in U : InCash(file)[i] \in Int /\ InCash(file)[i] = Books!CashOf(file[i])
  BY <1>3, RowsAreDated
<1>6. ASSUME NEW i \in U
      PROVE  /\ worth[i] \in Int /\ brought[i] \in Int /\ rounded[i] \in Int /\ InCash(file)[i] \in Int
             /\ worth[i] + InCash(file)[i] <= brought[i] + rounded[i]
             /\ brought[i] <= worth[i] + InCash(file)[i] + rounded[i]
  <2>1. i \in DOMAIN file /\ file[i] \in Events /\ Books!WellFormed(file[i])
    BY <1>3, RowsAreDated
  <2>2. file[i].kind # "SPLIT" /\ (file[i].kind \in {"BUY", "SELL"} => file[i].price = Quote[file[i].asset])
    BY <2>1 DEF AtQuote
  <2>3. /\ Worth(file[i], Quote) \in Int /\ Books!CashOf(file[i]) \in Int
        /\ Books!Brought(file[i], Quote) \in Int /\ Books!Rounded(file[i]) \in Nat
        /\ Worth(file[i], Quote) + Books!CashOf(file[i]) <= Books!Brought(file[i], Quote) + Books!Rounded(file[i])
        /\ Books!Brought(file[i], Quote) <= Worth(file[i], Quote) + Books!CashOf(file[i]) + Books!Rounded(file[i])
    BY <1>1, <2>1, <2>2, BroughtIs
  <2>4. InCash(file)[i] = Books!CashOf(file[i])
    BY <1>5
  <2> QED BY <2>3, <2>4
<1>7. IsFiniteSet(U) /\ IsFiniteSet(due) /\ IsFiniteSet(U \ due) /\ due \cup (U \ due) = U /\ due \cap (U \ due) = {}
  BY <1>3, RowsAreDated
<1>8. Books!Total(brought) = sum(brought) /\ Books!Total(rounded) = sum(rounded)
  <2>1. DOMAIN brought = U /\ DOMAIN rounded = U
    OBVIOUS
  <2> HIDE DEF brought, rounded
  <2> QED BY <2>1, TotalIsASum
<1>9. Books!Value(kept, Quote) = titles + kept.cash + kept.pending
  BY DEF Books!Value
<1>10. \A i \in U : /\ added[i] = worth[i] + InCash(file)[i]
                     /\ most[i] = brought[i] + rounded[i] /\ least[i] = added[i] + rounded[i]
  OBVIOUS
<1> HIDE DEF U, due, kept, worth, brought, rounded, added, most, least, titles
<1>11. \A i \in U : /\ added[i] \in Int /\ most[i] \in Int /\ least[i] \in Int
                     /\ added[i] * 1 <= most[i] /\ brought[i] * 1 <= least[i]
  BY <1>6, <1>10
<1>12. sum(InCash(file)) = SumFunctionOnSet(InCash(file), due) + SumFunctionOnSet(InCash(file), U \ due)
  BY <1>5, <1>7, SumOfBoth
<1>13. sum(added) = sum(worth) + sum(InCash(file))
  BY <1>5, <1>6, <1>7, <1>10, SumOfSums
<1>14. sum(most) = sum(brought) + sum(rounded)
  BY <1>6, <1>7, <1>10, SumOfSums
<1>15. sum(least) = sum(added) + sum(rounded)
  BY <1>6, <1>7, <1>10, <1>11, SumOfSums
<1>16. sum(added) * 1 <= sum(most)
  BY <1>6, <1>7, <1>11, SumIsCovered
<1>17. sum(brought) * 1 <= sum(least)
  BY <1>6, <1>7, <1>11, SumIsCovered
<1>18. /\ sum(worth) \in Int /\ sum(brought) \in Int /\ sum(rounded) \in Int /\ sum(added) \in Int
       /\ SumFunctionOnSet(InCash(file), due) \in Int /\ SumFunctionOnSet(InCash(file), U \ due) \in Int
  BY <1>3, <1>5, <1>6, <1>7, <1>11, SumIsInt
<1> HIDE DEF sum
<1>19. Books!Value(kept, Quote) = sum(added)
  <2>1. kept.cash = SumFunctionOnSet(InCash(file), due) /\ kept.pending = SumFunctionOnSet(InCash(file), U \ due)
    BY <1>4 DEF kept, due, U
  <2> QED BY <1>2, <1>9, <1>12, <1>13, <1>18, <2>1
<1>20. Books!Distance(sum(added), sum(brought)) <= sum(rounded)
  BY <1>14, <1>15, <1>16, <1>17, <1>18 DEF Books!Distance
<1>21. Books!Distance(Books!Value(kept, Quote), Books!Total(brought)) <= Books!Total(rounded)
  BY <1>8, <1>19, <1>20
<1> QED BY <1>21 DEF kept, brought, rounded, U
-----------------------------------------------------------------------------
(* Part 7: the accounts. *)

\* The images of finitely many elements are finitely many.
LEMMA ImagesAreFinite ==
  ASSUME NEW S, IsFiniteSet(S), NEW g
  PROVE  IsFiniteSet({g[x] : x \in S})
<1> DEFINE f == [x \in S |-> g[x]]
           T == {g[x] : x \in S}
<1>1. f \in Surjection(S, T)
  BY DEF Surjection
<1> HIDE DEF f, T
<1>2. IsFiniteSet(T)
  BY <1>1, FS_Surjection
<1> QED BY <1>2 DEF T

\* An account whose coverage is that of its holdings.
Besides(c) == c.cash + c.pending + c.other
IsAccount(account) ==
  /\ IsFiniteSet(DOMAIN account.holdings)
  /\ \A a \in DOMAIN account.holdings : account.holdings[a] \in Int
  /\ account.coverage.analyzed = SumFunctionOnSet(account.holdings, DOMAIN account.holdings)
  /\ account.coverage.analyzed \in Int /\ Besides(account.coverage) \in Int
  /\ account.coverage.cash >= 0 /\ account.coverage.total > 0
  /\ account.coverage.total = account.coverage.analyzed + Besides(account.coverage)

\* What an import confirms passes the control of its coverage.
LEMMA ImportsAreCovered ==
  ASSUME NEW draft \in ImportDrafts, Account(draft) # Refused
  PROVE  /\ IsAccount(Account(draft))
         /\ Books!Coverage(Account(draft).holdings, Account(draft).coverage)
<1> DEFINE rows == draft.rows
           mapping == draft.mapping
           read == Books!Imported(rows, draft.cash, mapping, draft.declared)
           values == [i \in DOMAIN rows |-> rows[i].value]
           worth == [a \in Books!Range(mapping) |-> rows[CHOOSE i \in DOMAIN rows : mapping[i] = a].value]
<1>1. rows \in Seq(DraftRows) /\ draft.cash \in Nat /\ draft.declared \in Int
  BY DEF ImportDrafts
<1>2. read # Refused
  BY DEF Account
<1>3. /\ DOMAIN mapping = DOMAIN rows /\ Books!IsInjective(mapping)
      /\ draft.declared > 0 /\ Books!Total(values) + draft.cash = draft.declared
      /\ read = [holdings |-> worth, cash |-> draft.cash, total |-> draft.declared]
  BY <1>2 DEF Books!Imported
<1>4. Account(draft) = [holdings |-> worth, cut |-> draft.cut, series |-> draft.series,
                        coverage |-> [analyzed |-> Books!Total(worth), cash |-> draft.cash,
                                      pending |-> 0, other |-> 0, total |-> draft.declared]]
  <2>1. Account(draft) = [holdings |-> read.holdings, cut |-> draft.cut, series |-> draft.series,
                          coverage |-> [analyzed |-> Books!Total(read.holdings), cash |-> read.cash,
                                        pending |-> 0, other |-> 0, total |-> read.total]]
    BY <1>2 DEF Account
  <2>2. read.holdings = worth /\ read.cash = draft.cash /\ read.total = draft.declared
    BY <1>3
  <2> HIDE DEF read, worth
  <2> QED BY <2>1, <2>2
<1>5. IsFiniteSet(DOMAIN rows) /\ \A i \in DOMAIN rows : rows[i].value \in Int
  <2>1. Len(rows) \in Nat /\ DOMAIN rows = 1..Len(rows)
    BY <1>1
  <2>2. \A i \in DOMAIN rows : rows[i] \in DraftRows
    BY <1>1
  <2>3. IsFiniteSet(1..Len(rows))
    BY <2>1, FS_Interval
  <2> QED BY <2>1, <2>2, <2>3 DEF DraftRows
<1> HIDE DEF rows, read
<1>6. ASSUME NEW i \in DOMAIN rows
      PROVE  /\ mapping[i] \in Books!Range(mapping)
             /\ worth[mapping[i]] = rows[i].value /\ values[i] = rows[i].value
  <2>1. \A j \in DOMAIN rows : mapping[j] = mapping[i] => j = i
    BY <1>3 DEF Books!IsInjective
  <2>2. (CHOOSE j \in DOMAIN rows : mapping[j] = mapping[i]) = i
    BY <2>1
  <2>3. mapping[i] \in Books!Range(mapping)
    BY <1>3 DEF Books!Range
  <2> QED BY <2>2, <2>3
<1>7. Renames(mapping, DOMAIN rows, Books!Range(mapping))
  BY <1>3 DEF Renames, Books!IsInjective, Books!Range
<1>8. Carries(mapping, DOMAIN rows, values, worth)
  <2> HIDE DEF values, worth, mapping
  <2> QED BY <1>5, <1>6 DEF Carries
<1>9. DOMAIN worth = Books!Range(mapping) /\ DOMAIN values = DOMAIN rows
  OBVIOUS
<1>10. \A a \in Books!Range(mapping) : worth[a] \in Int
  <2> SUFFICES ASSUME NEW a \in Books!Range(mapping) PROVE worth[a] \in Int
    OBVIOUS
  <2>1. PICK i \in DOMAIN rows : a = mapping[i]
    BY <1>3 DEF Books!Range
  <2> HIDE DEF worth, mapping
  <2> QED BY <1>5, <1>6, <2>1
<1> HIDE DEF values, worth, mapping
<1>11. /\ IsFiniteSet(Books!Range(mapping))
       /\ SumFunctionOnSet(values, DOMAIN rows) = SumFunctionOnSet(worth, Books!Range(mapping))
  BY <1>5, <1>7, <1>8, SumRenamed
<1>12. Books!Total(values) = Books!Total(worth) /\ Books!Total(worth) = SumFunctionOnSet(worth, DOMAIN worth)
  BY <1>9, <1>11, TotalIsASum
<1>13. Books!Total(worth) \in Int
  BY <1>9, <1>10, <1>11, <1>12, SumIsInt
<1>14. /\ Account(draft).holdings = worth /\ Account(draft).coverage.analyzed = Books!Total(worth)
       /\ Account(draft).coverage.cash = draft.cash /\ Account(draft).coverage.total = draft.declared
       /\ Account(draft).coverage.pending = 0 /\ Account(draft).coverage.other = 0
  BY <1>4
<1>15. draft.declared = Books!Total(worth) + draft.cash + 0 + 0 /\ draft.cash >= 0 /\ draft.cash + 0 + 0 \in Int
       /\ draft.declared = Books!Total(worth) + (draft.cash + 0 + 0)
  BY <1>1, <1>3, <1>12, <1>13
<1>16. Books!Coverage(Account(draft).holdings, Account(draft).coverage)
  BY <1>3, <1>14, <1>15 DEF Books!Coverage
<1>17. IsAccount(Account(draft))
  BY <1>3, <1>9, <1>10, <1>11, <1>12, <1>13, <1>14, <1>15 DEF IsAccount, Besides
<1> QED BY <1>16, <1>17

KeysOf(accounts) == UNION {{accounts[i].series[a] : a \in DOMAIN accounts[i].holdings} : i \in DOMAIN accounts}

\* What an account holds of each series adds up to what it holds.
LEMMA SeriesOfAnAccount ==
  ASSUME NEW account, IsAccount(account), NEW K, IsFiniteSet(K),
         \A a \in DOMAIN account.holdings : account.series[a] \in K
  PROVE  /\ \A k \in K : Books!HeldIn(account, k) \in Int
         /\ SumFunctionOnSet([k \in K |-> Books!HeldIn(account, k)], K)
              = SumFunctionOnSet(account.holdings, DOMAIN account.holdings)
<1> DEFINE D == DOMAIN account.holdings
           h == account.holdings
           s == account.series
           heldIn == [k \in K |-> Books!HeldIn(account, k)]
<1>1. IsFiniteSet(D) /\ \A a \in D : h[a] \in Int
  BY DEF IsAccount
<1>2. ASSUME NEW k \in K
      PROVE  Books!HeldIn(account, k) = SumsBy(h, D, s, K)[k] /\ Books!HeldIn(account, k) \in Int
  <2> DEFINE part == Grouped(D, s, {k})
             f == [a \in part |-> h[a]]
  <2>1. Books!HeldIn(account, k) = Books!Total(f)
    <3>1. part = {b \in D : s[b] = k}
      BY DEF Grouped
    <3> QED BY <3>1 DEF Books!HeldIn
  <2>2. Books!Total(f) = SumFunctionOnSet(f, part)
    <3>1. DOMAIN f = part
      OBVIOUS
    <3> QED BY <3>1, TotalIsASum
  <2>3. IsFiniteSet(part) /\ \A a \in part : h[a] \in Int /\ f[a] = h[a]
    BY <1>1, FS_Subset DEF Grouped
  <2> HIDE DEF f
  <2>4. SumFunctionOnSet(f, part) = SumFunctionOnSet(h, part) /\ SumFunctionOnSet(h, part) \in Int
    <3> HIDE DEF part, h
    <3> QED BY <2>3, SumSame, SumIsInt
  <2>5. SumsBy(h, D, s, K)[k] = SumFunctionOnSet(h, part)
    BY DEF SumsBy
  <2> QED BY <2>1, <2>2, <2>4, <2>5
<1>3. Grouped(D, s, K) = D
  BY DEF Grouped
<1> HIDE DEF D, h, s
<1>4. SumFunctionOnSet(SumsBy(h, D, s, K), K) = SumFunctionOnSet(h, D)
  BY <1>1, <1>3, SumOfGroups
<1>5. \A k \in K : heldIn[k] \in Int /\ SumsBy(h, D, s, K)[k] = heldIn[k]
  BY <1>2
<1>6. SumFunctionOnSet(heldIn, K) = SumFunctionOnSet(SumsBy(h, D, s, K), K)
  <2> HIDE DEF heldIn
  <2> QED BY <1>5, SumSame
<1> QED BY <1>2, <1>4, <1>6 DEF h, D

\* The consolidated positions and what the accounts keep outside add up.
LEMMA SeriesAddUp ==
  ASSUME NEW accounts, IsFiniteSet(DOMAIN accounts), \A i \in DOMAIN accounts : IsAccount(accounts[i]),
         Books!Consolidated(accounts) # Refused
  PROVE  Books!Consolidated(accounts).total
           = Books!Total(Books!Consolidated(accounts).positions)
             + Books!Total([i \in DOMAIN accounts |-> Besides(accounts[i].coverage)])
<1> DEFINE N == DOMAIN accounts
           K == KeysOf(accounts)
           m == [i \in N |-> [k \in K |-> Books!HeldIn(accounts[i], k)]]
           totals == [i \in N |-> accounts[i].coverage.total]
           outside == [i \in N |-> Besides(accounts[i].coverage)]
           analyzed == [i \in N |-> accounts[i].coverage.analyzed]
           positions == [k \in K |-> Books!Summed(accounts, k)]
<1>1. /\ Books!Consolidated(accounts).positions = positions
      /\ Books!Consolidated(accounts).total = Books!Total(totals)
  <2>1. Books!Consolidated(accounts) = [positions |-> positions, total |-> Books!Total(totals)]
    BY DEF Books!Consolidated, KeysOf
  <2> QED BY <2>1
<1>2. IsFiniteSet(K)
  <2> DEFINE keys == [i \in N |-> {accounts[i].series[a] : a \in DOMAIN accounts[i].holdings}]
             all == {keys[i] : i \in N}
  <2>1. IsFiniteSet(all)
    <3> HIDE DEF keys
    <3> QED BY ImagesAreFinite
  <2>2. \A T \in all : IsFiniteSet(T)
    <3> SUFFICES ASSUME NEW i \in N PROVE IsFiniteSet(keys[i])
      OBVIOUS
    <3>1. IsFiniteSet(DOMAIN accounts[i].holdings)
      BY DEF IsAccount
    <3>2. IsFiniteSet({accounts[i].series[a] : a \in DOMAIN accounts[i].holdings})
      BY <3>1, ImagesAreFinite
    <3> QED BY <3>2
  <2>3. K = UNION all
    BY DEF KeysOf
  <2> HIDE DEF all
  <2> QED BY <2>1, <2>2, <2>3, FS_UNION
<1>3. ASSUME NEW i \in N
      PROVE  /\ \A k \in K : m[i][k] \in Int
             /\ SumFunctionOnSet(m[i], K) = analyzed[i]
             /\ analyzed[i] \in Int /\ outside[i] \in Int /\ totals[i] = analyzed[i] + outside[i]
  <2>1. IsAccount(accounts[i])
    OBVIOUS
  <2>2. \A a \in DOMAIN accounts[i].holdings : accounts[i].series[a] \in K
    BY DEF KeysOf
  <2>3. m[i] = [k \in K |-> Books!HeldIn(accounts[i], k)]
    OBVIOUS
  <2> HIDE DEF K
  <2>4. /\ \A k \in K : Books!HeldIn(accounts[i], k) \in Int
        /\ SumFunctionOnSet([k \in K |-> Books!HeldIn(accounts[i], k)], K)
             = SumFunctionOnSet(accounts[i].holdings, DOMAIN accounts[i].holdings)
    BY <1>2, <2>1, <2>2, SeriesOfAnAccount
  <2>5. /\ analyzed[i] = SumFunctionOnSet(accounts[i].holdings, DOMAIN accounts[i].holdings)
        /\ analyzed[i] \in Int /\ outside[i] \in Int /\ totals[i] = analyzed[i] + outside[i]
    BY <2>1 DEF IsAccount
  <2>6. \A k \in K : m[i][k] \in Int
    BY <2>3, <2>4
  <2> QED BY <2>3, <2>4, <2>5, <2>6
<1>4. ASSUME NEW k \in K
      PROVE  positions[k] = SumFunctionOnSet([i \in N |-> m[i][k]], N)
  <2> DEFINE f == [i \in N |-> Books!HeldIn(accounts[i], k)]
  <2>1. [i \in N |-> m[i][k]] = f
    OBVIOUS
  <2>2. positions[k] = Books!Total(f)
    BY DEF Books!Summed
  <2>3. Books!Total(f) = SumFunctionOnSet(f, N)
    <3>1. DOMAIN f = N
      OBVIOUS
    <3> HIDE DEF f
    <3> QED BY <3>1, TotalIsASum
  <2> QED BY <2>1, <2>2, <2>3
<1>5. /\ DOMAIN totals = N /\ DOMAIN outside = N /\ DOMAIN positions = K /\ IsFiniteSet(N)
  OBVIOUS
<1>6. positions = [k \in K |-> SumFunctionOnSet([i \in N |-> m[i][k]], N)]
  BY <1>4
<1> HIDE DEF K, N, m, totals, outside, analyzed, positions
<1>7. SumFunctionOnSet(positions, K) = SumFunctionOnSet([i \in N |-> SumFunctionOnSet(m[i], K)], N)
  <2>1. Table(m, N, K)
    BY <1>3 DEF Table
  <2>2. SumFunctionOnSet(RowSums(m, N, K), N) = SumFunctionOnSet(ColumnSums(m, N, K), K)
    BY <1>2, <1>5, <2>1, SumByColumns
  <2>3. ColumnSums(m, N, K) = positions
    BY <1>6 DEF ColumnSums
  <2> QED BY <2>2, <2>3 DEF RowSums
<1>8. SumFunctionOnSet([i \in N |-> SumFunctionOnSet(m[i], K)], N) = SumFunctionOnSet(analyzed, N)
  <2> DEFINE g == [i \in N |-> SumFunctionOnSet(m[i], K)]
  <2>1. \A i \in N : g[i] \in Int /\ analyzed[i] = g[i]
    BY <1>3
  <2> HIDE DEF g
  <2>2. SumFunctionOnSet(g, N) = SumFunctionOnSet(analyzed, N)
    BY <1>5, <2>1, SumSame
  <2> QED BY <2>2 DEF g
<1>9. SumFunctionOnSet(totals, N) = SumFunctionOnSet(analyzed, N) + SumFunctionOnSet(outside, N)
  BY <1>3, <1>5, SumOfSums
<1>10. /\ Books!Total(totals) = SumFunctionOnSet(totals, N) /\ Books!Total(outside) = SumFunctionOnSet(outside, N)
       /\ Books!Total(positions) = SumFunctionOnSet(positions, K)
  BY <1>5, TotalIsASum
<1>11. Books!Total(totals) = Books!Total(positions) + Books!Total(outside)
  BY <1>7, <1>8, <1>9, <1>10
<1> QED BY <1>1, <1>11 DEF outside, N

-----------------------------------------------------------------------------
(* Part 8: the questions. *)

\* What is answered was asked: a book at each cut, or the sum of the accounts.
LedgersInv ==
  /\ book = "ledger" => /\ input \in LedgerFiles
                        /\ output # Unanswered => output = <<[cut \in Closings |-> Books!Book(input, cut)]>>
  /\ book = "accounts" => /\ input \in AccountFiles
                          /\ output # Unanswered =>
                               \/ output = <<Refused>>
                               \/ /\ output = <<Books!Consolidated(Accounts(input))>>
                                  /\ \A i \in DOMAIN Accounts(input) : Accounts(input)[i] # Refused

LEMMA LedgersAreAnswers == EstimatesSpec => []LedgersInv
<1>1. EstimatesInit => LedgersInv
  BY DEF EstimatesInit, LedgersInv, Unanswered
<1>2. LedgersInv /\ [EstimatesNext]_answers => LedgersInv'
  <2> SUFFICES ASSUME LedgersInv, [EstimatesNext]_answers
               PROVE  LedgersInv'
    OBVIOUS
  <2>1. CASE UNCHANGED answers
    BY <2>1 DEF answers, LedgersInv
  <2>2. CASE KeepBook
    BY <2>2 DEF KeepBook, Answers, Asked, LedgersInv
  <2>3. CASE AddAccounts
    BY <2>3 DEF AddAccounts, Answers, Asked, LedgersInv
  <2>4. CASE \/ Propose \/ ReadRules \/ ReserveTaxes \/ ClassifyIncome \/ ReadInputs \/ ReadResults
             \/ PrepareCetes \/ PrepareBond \/ AccrueLiquidity \/ Study \/ Perform
    BY <2>4 DEF Propose, ReadRules, ReserveTaxes, ClassifyIncome, ReadInputs, ReadResults, PrepareCetes, PrepareBond,
                AccrueLiquidity, Study, Perform, Answers, Asked, LedgersInv
  <2> QED BY <2>1, <2>2, <2>3, <2>4 DEF EstimatesNext
<1> QED BY <1>1, <1>2, PTL DEF EstimatesSpec

\* For any ledgers, quotes, cuts and accounts: two closings of a ledger and the
\* movements between them pass each bridge that has room for their rows, a trade
\* neither adds nor loses more than the cent it may be off, before or after it
\* settles, and the accounts add up.
THEOREM BooksAreKept == EstimatesSpec => []BooksAddUp
<1>1. ASSUME LedgersInv
      PROVE  BridgesFollowTheBook
  <2> SUFFICES ASSUME Answered("ledger"), NEW from \in Closings, NEW to \in Closings, from < to
               PROVE  Books!BridgesFollow(input, from, to, output[1][from], output[1][to])
    BY DEF BridgesFollowTheBook
  <2>1. input \in LedgerFiles /\ output = <<[cut \in Closings |-> Books!Book(input, cut)]>>
    BY <1>1 DEF LedgersInv, Answered
  <2>2. output[1][from] = Books!Book(input, from) /\ output[1][to] = Books!Book(input, to)
    BY <2>1
  <2>3. Typed(input) /\ from \in Int /\ to \in Int
    BY <2>1, BooksAssumption DEF Typed
  <2>4. ASSUME Books!Book(input, from) # Refused, Books!Book(input, to) # Refused,
               Books!Book(input, from).cash >= 0, Books!Book(input, to).cash >= 0,
               \A i \in DOMAIN input : input[i].kind # "SPLIT"
        PROVE  /\ Books!PositionsBridge(Books!Book(input, from).titles, from, Books!MovesOf(input, from, to),
                                        Books!Book(input, to).titles, to)
                    <=> Books!PositionRows(Books!MovesOf(input, from, to)) \in 1..BridgeRows
               /\ Books!CashBridge(Books!Book(input, from).cash, from, Books!FlowsOf(input, from, to),
                                   Books!Book(input, to).cash, to, Books!Book(input, to).cash)
                    <=> Books!CashRows(Books!FlowsOf(input, from, to)) <= BridgeRows
    <3>1. NoSplits(input, DOMAIN input)
      BY <2>4 DEF NoSplits
    <3> QED BY <2>3, <2>4, <3>1, PositionsFollow, CashFollow
  <2> QED BY <2>2, <2>4 DEF Books!BridgesFollow
<1>2. ASSUME LedgersInv
      PROVE  NothingIsCreated
  <2> SUFFICES ASSUME Answered("ledger"), NEW cut \in Closings
               PROVE  Books!NothingIsCreated(input, cut, Quote, output[1][cut])
    BY DEF NothingIsCreated
  <2>1. input \in LedgerFiles /\ output = <<[c \in Closings |-> Books!Book(input, c)]>>
    BY <1>2 DEF LedgersInv, Answered
  <2>2. output[1][cut] = Books!Book(input, cut)
    BY <2>1
  <2>3. Typed(input) /\ cut \in Int
    BY <2>1, BooksAssumption DEF Typed
  <2>4. ASSUME Books!Book(input, cut) # Refused, AtQuote(input, Quote)
        PROVE  Books!Distance(Books!Value(Books!Book(input, cut), Quote),
                              Books!Total([i \in Books!Until(input, cut) |-> Books!Brought(input[i], Quote)]))
                 <= Books!Total([i \in Books!Until(input, cut) |-> Books!Rounded(input[i])])
    BY <2>3, <2>4, NothingAppears
  <2> QED BY <2>2, <2>4 DEF Books!NothingIsCreated, AtQuote
<1>3. ASSUME LedgersInv
      PROVE  AccountsAddUp
  <2> SUFFICES ASSUME Answered("accounts"), output[1] # Refused
               PROVE  /\ \A i \in DOMAIN Accounts(input) :
                           Books!Coverage(Accounts(input)[i].holdings, Accounts(input)[i].coverage)
                      /\ output[1].total = Books!Total(output[1].positions)
                           + Books!Total([i \in DOMAIN Accounts(input) |-> Besides(Accounts(input)[i].coverage)])
    BY DEF AccountsAddUp, Books!AccountsAddUp, Besides
  <2> DEFINE accounts == Accounts(input)
  <2>1. input \in AccountFiles /\ output = <<Books!Consolidated(accounts)>>
        /\ \A i \in DOMAIN accounts : accounts[i] # Refused
    BY <1>3 DEF LedgersInv, Answered
  <2>2. input \in Seq(ImportDrafts)
    BY <2>1, BooksAssumption
  <2>3. DOMAIN accounts = DOMAIN input /\ IsFiniteSet(DOMAIN accounts)
    <3>1. Len(input) \in Nat /\ DOMAIN input = 1..Len(input)
      BY <2>2
    <3>2. IsFiniteSet(1..Len(input))
      BY <3>1, FS_Interval
    <3> QED BY <3>1, <3>2 DEF Accounts
  <2>4. ASSUME NEW i \in DOMAIN accounts
        PROVE  IsAccount(accounts[i]) /\ Books!Coverage(accounts[i].holdings, accounts[i].coverage)
    <3>1. input[i] \in ImportDrafts /\ accounts[i] = Account(input[i]) /\ accounts[i] # Refused
      BY <2>1, <2>2, <2>3 DEF Accounts
    <3> QED BY <3>1, ImportsAreCovered
  <2> HIDE DEF accounts
  <2>5. Books!Consolidated(accounts) # Refused /\ output[1] = Books!Consolidated(accounts)
    BY <2>1
  <2>6. Books!Consolidated(accounts).total
          = Books!Total(Books!Consolidated(accounts).positions)
            + Books!Total([i \in DOMAIN accounts |-> Besides(accounts[i].coverage)])
    BY <2>3, <2>4, <2>5, SeriesAddUp
  <2> QED BY <2>4, <2>5, <2>6 DEF accounts
<1>4. LedgersInv => BooksAddUp
  BY <1>1, <1>2, <1>3 DEF BooksAddUp
<1> QED BY <1>4, LedgersAreAnswers, PTL

-----------------------------------------------------------------------------
(* Part 9: the book, trade by trade. *)

Trades(t) ==
  /\ IsFiniteSet(DOMAIN t) /\ DOMAIN t \subseteq Int
  /\ \A i \in DOMAIN t : /\ t[i].side \in {"buy", "sell"} /\ t[i].quantity \in Nat
                         /\ t[i].price \in Int /\ t[i].time \in Int

LastTrade(t, s) == Paper!Latest(s, Paper!Times(t))
Traces(t, R, g) ==
  g = [s \in SUBSET R |-> IF s = {} THEN Paper!Start(t)
                          ELSE Paper!Taken(t, g[s \ {LastTrade(t, s)}], LastTrade(t, s))]

\* The order of the trades is that of rows with a date.
LEMMA TradesAreDated ==
  ASSUME NEW t, Trades(t)
  PROVE  /\ \A s \in SUBSET DOMAIN t : Dated(s, Paper!Times(t)) /\ IsFiniteSet(s) /\ Cardinality(s) \in Nat
         /\ \A i \in DOMAIN t : Paper!Times(t)[i] = t[i].time
<1>1. \A i \in DOMAIN t : Paper!Times(t)[i] = t[i].time /\ t[i].time \in Int
  BY DEF Paper!Times, Trades
<1>2. \A s \in SUBSET DOMAIN t : IsFiniteSet(s) /\ Cardinality(s) \in Nat /\ s \subseteq Int
  BY FS_Subset, FS_CardinalityType DEF Trades
<1> QED BY <1>1, <1>2 DEF Dated

LEMMA TradesInOrder ==
  ASSUME NEW t, Trades(t)
  PROVE  \A i, j, k \in DOMAIN t :
           /\ ~Paper!Precedes(Paper!Times(t), i, i)
           /\ i # j => Paper!Precedes(Paper!Times(t), i, j) \/ Paper!Precedes(Paper!Times(t), j, i)
           /\ Paper!Precedes(Paper!Times(t), i, j) =>
                ~Paper!Precedes(Paper!Times(t), j, i) /\ t[i].time <= t[j].time
           /\ Paper!Precedes(Paper!Times(t), i, j) /\ Paper!Precedes(Paper!Times(t), j, k) =>
                Paper!Precedes(Paper!Times(t), i, k)
<1>1. Dated(DOMAIN t, Paper!Times(t)) /\ \A i \in DOMAIN t : Paper!Times(t)[i] = t[i].time
  BY TradesAreDated
<1>2. \A date, i, j : Paper!Precedes(date, i, j) <=> Books!Precedes(date, i, j)
  BY DEF Paper!Precedes, Books!Precedes
<1> QED BY <1>1, <1>2, OrderIsTotal

\* The last of some trades, and the others.
LEMMA LastOfTrades ==
  ASSUME NEW t, Trades(t), NEW s \in SUBSET DOMAIN t, s # {}
  PROVE  /\ LastTrade(t, s) \in s
         /\ \A j \in s \ {LastTrade(t, s)} : Paper!Precedes(Paper!Times(t), j, LastTrade(t, s))
         /\ Cardinality(s \ {LastTrade(t, s)}) = Cardinality(s) - 1
<1>1. Dated(s, Paper!Times(t)) /\ IsFiniteSet(s)
  BY TradesAreDated
<1>2. \A date, i, j : Paper!Precedes(date, i, j) <=> Books!Precedes(date, i, j)
  BY DEF Paper!Precedes, Books!Precedes
<1>3. LastTrade(t, s) = Books!Latest(s, Paper!Times(t))
  BY <1>2 DEF LastTrade, Paper!Latest, Books!Latest
<1>4. /\ LastTrade(t, s) \in s
      /\ \A j \in s \ {LastTrade(t, s)} : Paper!Precedes(Paper!Times(t), j, LastTrade(t, s))
  BY <1>1, <1>2, <1>3, LatestIs
<1>5. Cardinality(s \ {LastTrade(t, s)}) = Cardinality(s) - 1
  BY <1>1, <1>4, FS_RemoveElement
<1> QED BY <1>4, <1>5

\* The function that follows the book exists.
LEMMA BooksExist ==
  ASSUME NEW t, Trades(t), NEW R \in SUBSET DOMAIN t
  PROVE  \E g : Traces(t, R, g)
<1> DEFINE Small(n) == {s \in SUBSET R : Cardinality(s) <= n}
           Step(g, s) == IF s = {} THEN Paper!Start(t)
                         ELSE Paper!Taken(t, g[s \ {LastTrade(t, s)}], LastTrade(t, s))
           Good(n, g) == g = [s \in Small(n) |-> Step(g, s)]
           T == {n \in Nat : \E g : Good(n, g)}
<1>0. \A s \in SUBSET R : s \in SUBSET DOMAIN t /\ IsFiniteSet(s) /\ Cardinality(s) \in Nat
  BY TradesAreDated
<1>1. 0 \in T
  <2>1. \A s \in Small(0) : s = {}
    BY <1>0, FS_EmptySet
  <2>2. Good(0, [s \in Small(0) |-> Paper!Start(t)])
    BY <2>1
  <2> QED BY <2>2
<1>2. ASSUME NEW n \in T
      PROVE  n + 1 \in T
  <2>1. PICK g : Good(n, g)
    OBVIOUS
  <2> DEFINE h == [s \in Small(n + 1) |-> Step(g, s)]
  <2>2. ASSUME NEW s \in Small(n + 1), s # {}
        PROVE  s \ {LastTrade(t, s)} \in Small(n)
    BY <1>0, <2>2, LastOfTrades
  <2>3. ASSUME NEW s \in Small(n)
        PROVE  h[s] = g[s]
    <3>1. s \in Small(n + 1)
      BY <1>0
    <3>2. h[s] = Step(g, s)
      BY <3>1
    <3>3. g[s] = Step(g, s)
      BY <2>1 DEF Good
    <3> QED BY <3>2, <3>3
  <2>4. ASSUME NEW s \in Small(n + 1)
        PROVE  Step(g, s) = Step(h, s)
    BY <2>2, <2>3
  <2>5. h = [s \in Small(n + 1) |-> Step(h, s)]
    <3> HIDE DEF Step, Small
    <3> QED BY <2>4
  <2>6. Good(n + 1, h)
    BY <2>5
  <2> HIDE DEF Good, h
  <2> QED BY <2>6
<1>3. T = Nat
  <2> HIDE DEF Good
  <2> QED BY <1>1, <1>2, NatSetInduction
<1>4. Cardinality(R) \in T
  BY <1>0, <1>3
<1>5. PICK g : Good(Cardinality(R), g)
  BY <1>4
<1>6. Small(Cardinality(R)) = SUBSET R
  <2>1. IsFiniteSet(R)
    BY <1>0
  <2> QED BY <2>1, FS_Subset
<1>7. Traces(t, R, g)
  BY <1>5, <1>6 DEF Traces
<1> QED BY <1>7

\* Two such functions agree where both say something.
LEMMA BooksAgree ==
  ASSUME NEW t, Trades(t), NEW R \in SUBSET DOMAIN t, NEW S \in SUBSET R, NEW g, NEW h,
         Traces(t, R, g), Traces(t, S, h)
  PROVE  \A s \in SUBSET S : g[s] = h[s]
<1> DEFINE N == {n \in Nat : \A s \in SUBSET S : Cardinality(s) = n => g[s] = h[s]}
<1>1. \A s \in SUBSET S : s \in SUBSET R /\ s \in SUBSET DOMAIN t /\ IsFiniteSet(s) /\ Cardinality(s) \in Nat
  BY TradesAreDated
<1>2. /\ g[{}] = Paper!Start(t) /\ h[{}] = Paper!Start(t)
      /\ \A s \in SUBSET S : s # {} =>
           /\ g[s] = Paper!Taken(t, g[s \ {LastTrade(t, s)}], LastTrade(t, s))
           /\ h[s] = Paper!Taken(t, h[s \ {LastTrade(t, s)}], LastTrade(t, s))
  BY DEF Traces
<1>3. 0 \in N
  <2>1. ASSUME NEW s \in SUBSET S, Cardinality(s) = 0
        PROVE  s = {}
    BY <1>1, <2>1, FS_EmptySet
  <2> QED BY <1>2, <2>1
<1>4. ASSUME NEW n \in N
      PROVE  n + 1 \in N
  <2> SUFFICES ASSUME NEW s \in SUBSET S, Cardinality(s) = n + 1
               PROVE  g[s] = h[s]
    OBVIOUS
  <2>1. s # {} /\ n \in Nat /\ s \in SUBSET DOMAIN t
    BY <1>1, FS_EmptySet
  <2>2. Cardinality(s \ {LastTrade(t, s)}) = n
    <3>1. Cardinality(s \ {LastTrade(t, s)}) = Cardinality(s) - 1
      BY <2>1, LastOfTrades
    <3> QED BY <2>1, <3>1
  <2>3. g[s \ {LastTrade(t, s)}] = h[s \ {LastTrade(t, s)}]
    BY <2>2
  <2> QED BY <1>2, <2>1, <2>3
<1>5. N = Nat
  BY <1>3, <1>4, NatSetInduction
<1> QED BY <1>1, <1>5

\* The book after some trades is the one before the last of them, with it taken.
LEMMA BookUnfolds ==
  ASSUME NEW t, Trades(t), NEW R \in SUBSET DOMAIN t
  PROVE  /\ Paper!Book(t, {}) = Paper!Start(t)
         /\ R # {} => Paper!Book(t, R) = Paper!Taken(t, Paper!Book(t, R \ {LastTrade(t, R)}), LastTrade(t, R))
<1> DEFINE g(s) == CHOOSE h : Traces(t, s, h)
<1>1. \A s \in SUBSET R : s \in SUBSET DOMAIN t
  OBVIOUS
<1>2. \A s \in SUBSET R : Traces(t, s, g(s))
  BY <1>1, BooksExist
<1>3. \A s \in SUBSET R : Paper!Book(t, s) = g(s)[s]
  BY DEF Paper!Book, Traces, LastTrade
<1> HIDE DEF g
<1>4. g({})[{}] = Paper!Start(t)
  BY <1>2 DEF Traces
<1>5. ASSUME R # {}
      PROVE  g(R)[R] = Paper!Taken(t, g(R \ {LastTrade(t, R)})[R \ {LastTrade(t, R)}], LastTrade(t, R))
  <2> DEFINE less == R \ {LastTrade(t, R)}
  <2>1. g(R)[R] = Paper!Taken(t, g(R)[less], LastTrade(t, R))
    BY <1>2, <1>5 DEF Traces
  <2>2. less \in SUBSET less /\ less \in SUBSET R /\ Traces(t, R, g(R)) /\ Traces(t, less, g(less))
    BY <1>2
  <2> HIDE DEF less
  <2>3. \A s \in SUBSET less : g(R)[s] = g(less)[s]
    <3> DEFINE a == g(R)
               b == g(less)
    <3>1. Traces(t, R, a) /\ Traces(t, less, b)
      BY <2>2
    <3> HIDE DEF a, b
    <3>2. \A s \in SUBSET less : a[s] = b[s]
      BY <2>2, <3>1, BooksAgree
    <3> QED BY <3>2 DEF a, b
  <2>4. g(R)[less] = g(less)[less]
    BY <2>3
  <2> QED BY <2>1, <2>4 DEF less
<1> QED BY <1>3, <1>4, <1>5

-----------------------------------------------------------------------------
(* Part 10: first in, first out. *)

\* The sums of PaperResults.
LEMMA ResultsAreSums ==
  /\ \A f : Paper!Total(f) = SumFunctionOnSet(f, DOMAIN f)
  /\ \A a, b \in Int : /\ Paper!Smaller(a, b) \in Int
                       /\ Paper!Smaller(a, b) <= a /\ Paper!Smaller(a, b) <= b
                       /\ Paper!Smaller(a, b) = a \/ Paper!Smaller(a, b) = b
<1>1. \A f : Paper!Total(f) = SumFunctionOnSet(f, DOMAIN f)
  BY DEF Paper!Total, Paper!SumFunction, Paper!SumFunctionOnSet, Paper!FoldFunctionOnSet, Paper!MapThenFoldSet,
         SumFunctionOnSet, FoldFunctionOnSet, MapThenFoldSet
<1>2. \A a, b \in Int : /\ Paper!Smaller(a, b) \in Int
                        /\ Paper!Smaller(a, b) <= a /\ Paper!Smaller(a, b) <= b
                        /\ Paper!Smaller(a, b) = a \/ Paper!Smaller(a, b) = b
  BY DEF Paper!Smaller
<1> QED BY <1>1, <1>2

\* A sum of naturals is one.
LEMMA SumIsNat ==
  ASSUME NEW S, IsFiniteSet(S), NEW f, \A x \in S : f[x] \in Nat
  PROVE  SumFunctionOnSet(f, S) \in Nat
<1> DEFINE g == [x \in S |-> 0]
<1>1. \A x \in S : g[x] \in Int /\ f[x] \in Int /\ g[x] * 1 <= f[x] /\ g[x] = g[x] * 0
  OBVIOUS
<1> HIDE DEF g
<1>2. /\ SumFunctionOnSet(g, S) \in Int /\ SumFunctionOnSet(f, S) \in Int
      /\ SumFunctionOnSet(g, S) * 1 <= SumFunctionOnSet(f, S)
  BY <1>1, SumIsCovered
<1>3. SumFunctionOnSet(g, S) = SumFunctionOnSet(g, S) * 0
  BY <1>1, SumTimes
<1> QED BY <1>2, <1>3

\* The total of what a function says on a set.
LEMMA TotalOver ==
  ASSUME NEW S, IsFiniteSet(S), NEW f, \A x \in S : f[x] \in Int
  PROVE  Paper!Total([x \in S |-> f[x]]) = SumFunctionOnSet(f, S)
<1> DEFINE g == [x \in S |-> f[x]]
<1>1. \A x \in S : f[x] \in Int /\ g[x] = f[x]
  OBVIOUS
<1>2. DOMAIN g = S
  OBVIOUS
<1> HIDE DEF g
<1>3. SumFunctionOnSet(f, S) = SumFunctionOnSet(g, S)
  BY <1>1, SumSame
<1>4. Paper!Total(g) = SumFunctionOnSet(g, S)
  BY <1>2, ResultsAreSums
<1> QED BY <1>3, <1>4 DEF g

Before(t, s, b) == {c \in s : Paper!Precedes(Paper!Times(t), c, b)}
Part(left, q, older, b) == Paper!Smaller(left[b], q - Paper!Smaller(q, older))
Parts(t, left, q, s) == [b \in s |-> Part(left, q, SumFunctionOnSet(left, Before(t, s, b)), b)]

\* What is taken from a lot is some of it.
LEMMA PartIs ==
  ASSUME NEW left, NEW b, left[b] \in Nat, NEW q \in Nat, NEW older \in Nat
  PROVE  Part(left, q, older, b) \in Nat /\ Part(left, q, older, b) <= left[b]
BY DEF Part, Paper!Smaller

\* A sale takes what it needs of the lots, the older first, or all there is.
LEMMA PartsAddUp ==
  ASSUME NEW t, Trades(t), NEW left, \A b \in DOMAIN t : left[b] \in Nat, NEW q \in Nat
  PROVE  SumFunctionOnSet(Parts(t, left, q, DOMAIN t), DOMAIN t)
           = Paper!Smaller(q, SumFunctionOnSet(left, DOMAIN t))
<1> DEFINE D == DOMAIN t
           Had(s) == SumFunctionOnSet(left, s)
           Sum(s) == SumFunctionOnSet(Parts(t, left, q, s), s)
           N == {n \in Nat : \A s \in SUBSET D : Cardinality(s) = n => Sum(s) = Paper!Smaller(q, Had(s))}
<1>1. \A s \in SUBSET D : IsFiniteSet(s) /\ Cardinality(s) \in Nat /\ Had(s) \in Nat
  <2> SUFFICES ASSUME NEW s \in SUBSET D PROVE IsFiniteSet(s) /\ Cardinality(s) \in Nat /\ Had(s) \in Nat
    OBVIOUS
  <2>1. IsFiniteSet(s) /\ Cardinality(s) \in Nat
    BY TradesAreDated
  <2>2. \A b \in s : left[b] \in Nat
    OBVIOUS
  <2> QED BY <2>1, <2>2, SumIsNat
<1>2. 0 \in N
  <2>1. ASSUME NEW s \in SUBSET D, Cardinality(s) = 0
        PROVE  s = {}
    BY <1>1, <2>1, FS_EmptySet
  <2>2. Sum({}) = 0 /\ Had({}) = 0
    BY SumOfNothing
  <2>3. Paper!Smaller(q, 0) = 0
    BY DEF Paper!Smaller
  <2> HIDE DEF Sum, Had
  <2> QED BY <2>1, <2>2, <2>3
<1>3. ASSUME NEW n \in N
      PROVE  n + 1 \in N
  <2> SUFFICES ASSUME NEW s \in SUBSET D, Cardinality(s) = n + 1
               PROVE  Sum(s) = Paper!Smaller(q, Had(s))
    OBVIOUS
  <2> DEFINE z == LastTrade(t, s)
             r == s \ {z}
             p == Parts(t, left, q, s)
  <2>1. s # {} /\ n \in Nat
    BY <1>1, FS_EmptySet
  <2>2. z \in s /\ (\A j \in r : Paper!Precedes(Paper!Times(t), j, z)) /\ Cardinality(r) = n
    BY <2>1, LastOfTrades
  <2>3. r \in SUBSET D /\ IsFiniteSet(s) /\ z \in D
    BY <1>1, <2>2
  <2>4. Before(t, s, z) = r
    BY <2>2, <2>3, TradesInOrder DEF Before
  <2>5. \A b \in r : Before(t, s, b) = Before(t, r, b)
    BY <2>2, <2>3, TradesInOrder DEF Before
  <2>6. \A b \in s : Before(t, s, b) \in SUBSET D
    BY DEF Before
  <2> HIDE DEF z, r
  <2>7. ASSUME NEW b \in s
        PROVE  p[b] = Part(left, q, Had(Before(t, s, b)), b) /\ p[b] \in Nat
    <3>1. left[b] \in Nat /\ Had(Before(t, s, b)) \in Nat
      BY <1>1, <2>6
    <3>2. p[b] = Part(left, q, Had(Before(t, s, b)), b)
      BY DEF Parts
    <3> HIDE DEF p, Had
    <3> QED BY <3>1, <3>2, PartIs
  <2>8. \A b \in r : Parts(t, left, q, r)[b] = p[b] /\ b \in s
    <3>1. \A b \in r : Parts(t, left, q, r)[b] = Part(left, q, Had(Before(t, r, b)), b) /\ b \in s
      BY DEF Parts, r
    <3> HIDE DEF p, Had
    <3> QED BY <2>5, <2>7, <3>1
  <2> HIDE DEF p
  <2>9. Sum(s) = p[z] + SumFunctionOnSet(p, r)
    <3>1. Sum(s) = SumFunctionOnSet(p, s)
      BY DEF p
    <3> QED BY <2>2, <2>3, <2>7, <3>1, SumTakesOut DEF r
  <2>10. SumFunctionOnSet(p, r) = Sum(r)
    <3>1. IsFiniteSet(r) /\ \A b \in r : p[b] \in Int /\ Parts(t, left, q, r)[b] = p[b]
      BY <1>1, <2>3, <2>7, <2>8
    <3> QED BY <3>1, SumSame
  <2>11. Had(s) = left[z] + Had(r)
    BY <2>2, <2>3, SumTakesOut DEF r
  <2>12. p[z] = Part(left, q, Had(r), z)
    BY <2>2, <2>4, <2>7
  <2>13. Sum(r) = Paper!Smaller(q, Had(r)) /\ Had(r) \in Nat /\ left[z] \in Nat
    BY <1>1, <2>2, <2>3
  <2> HIDE DEF Sum, Had
  <2>14. Sum(s) = Part(left, q, Had(r), z) + Paper!Smaller(q, Had(r))
    <3>1. q \in Int /\ Had(r) \in Int
      BY <2>13
    <3>2. Paper!Smaller(q, Had(r)) \in Int
      BY <3>1, ResultsAreSums
    <3> QED BY <2>9, <2>10, <2>12, <2>13, <3>2
  <2>15. \A a, l \in Nat : Paper!Smaller(l, q - Paper!Smaller(q, a)) + Paper!Smaller(q, a) = Paper!Smaller(q, l + a)
    BY DEF Paper!Smaller
  <2> QED BY <2>11, <2>13, <2>14, <2>15 DEF Part
<1>4. N = Nat
  <2> HIDE DEF Sum, Had
  <2> QED BY <1>2, <1>3, NatSetInduction
<1>5. D \in SUBSET D /\ Cardinality(D) \in N
  BY <1>1, <1>4
<1> HIDE DEF Sum, Had
<1>6. Sum(D) = Paper!Smaller(q, Had(D))
  BY <1>5
<1> QED BY <1>6 DEF Sum, Had

\* What a sale uses of each lot.
LEMMA UsedIs ==
  ASSUME NEW t, Trades(t), NEW left, \A b \in DOMAIN t : left[b] \in Nat, NEW i \in DOMAIN t
  PROVE  LET used == Paper!Used(t, left, i)
         IN /\ used \in [DOMAIN t -> Nat]
            /\ \A b \in DOMAIN t : used[b] <= left[b]
            /\ SumFunctionOnSet(used, DOMAIN t)
                 = Paper!Smaller(t[i].quantity, SumFunctionOnSet(left, DOMAIN t))
<1> DEFINE D == DOMAIN t
           q == t[i].quantity
           used == Paper!Used(t, left, i)
           older(b) == {c \in D : Paper!Precedes(Paper!Times(t), c, b)}
<1>0. q \in Nat
  BY DEF Trades
<1>1. ASSUME NEW b \in D
      PROVE  /\ used[b] = Part(left, q, SumFunctionOnSet(left, Before(t, D, b)), b)
             /\ used[b] \in Nat /\ used[b] <= left[b]
  <2>1. older(b) \in SUBSET D /\ IsFiniteSet(older(b)) /\ older(b) = Before(t, D, b)
    BY TradesAreDated DEF Before
  <2>2. Paper!Total([c \in older(b) |-> left[c]]) = SumFunctionOnSet(left, older(b))
    <3>1. \A c \in older(b) : left[c] \in Int
      BY <2>1
    <3> HIDE DEF older
    <3> QED BY <2>1, <3>1, TotalOver
  <2>3. used[b] = Part(left, q, Paper!Total([c \in older(b) |-> left[c]]), b)
    BY DEF Paper!Used, Part
  <2>4. SumFunctionOnSet(left, Before(t, D, b)) \in Nat
    <3>1. \A c \in older(b) : left[c] \in Nat
      BY <2>1
    <3> HIDE DEF older
    <3> QED BY <2>1, <3>1, SumIsNat
  <2>5. used[b] = Part(left, q, SumFunctionOnSet(left, Before(t, D, b)), b)
    BY <2>1, <2>2, <2>3
  <2>6. left[b] \in Nat
    OBVIOUS
  <2> HIDE DEF used, q
  <2> QED BY <1>0, <2>4, <2>5, <2>6, PartIs
<1>2. used = Parts(t, left, q, D)
  <2>1. used = [b \in D |-> used[b]]
    BY DEF Paper!Used
  <2> HIDE DEF used, q
  <2>2. [b \in D |-> used[b]] = [b \in D |-> Part(left, q, SumFunctionOnSet(left, Before(t, D, b)), b)]
    BY <1>1
  <2> QED BY <2>1, <2>2 DEF Parts
<1>3. SumFunctionOnSet(used, D) = Paper!Smaller(q, SumFunctionOnSet(left, D))
  BY <1>0, <1>2, PartsAddUp
<1>4. used \in [D -> Nat]
  <2>1. DOMAIN used = D /\ used = [b \in D |-> used[b]]
    BY DEF Paper!Used
  <2> HIDE DEF used
  <2> QED BY <1>1, <2>1
<1> QED BY <1>1, <1>3, <1>4

-----------------------------------------------------------------------------
(* Part 11: the book after some trades.  What is left of a purchase and what *)
(* sales used of it is what was bought; what a sale used is what it sold,   *)
(* and all of it was bought before.                                         *)

BookRecords(t) ==
  [left : [DOMAIN t -> Nat], used : [DOMAIN t -> [DOMAIN t -> Nat]], missing : BOOLEAN]
Column(t, k, b) == [i \in DOMAIN t |-> k.used[i][b]]
Bought(t, R) == {b \in R : t[b].side = "buy"}
Sold(t, R) == {i \in R : t[i].side = "sell"}

BookInv(t, R, k) ==
  /\ k \in BookRecords(t)
  /\ \A b \in DOMAIN t \ Bought(t, R) : k.left[b] = 0
  /\ \A i, b \in DOMAIN t : k.used[i][b] # 0 =>
       i \in Sold(t, R) /\ b \in Bought(t, R) /\ Paper!Precedes(Paper!Times(t), b, i)
  /\ ~k.missing =>
       /\ \A b \in Bought(t, R) : k.left[b] + SumFunctionOnSet(Column(t, k, b), DOMAIN t) = t[b].quantity
       /\ \A i \in Sold(t, R) : SumFunctionOnSet(k.used[i], DOMAIN t) = t[i].quantity

LEMMA SumIsNothing ==
  ASSUME NEW S, IsFiniteSet(S), NEW f, \A x \in S : f[x] = 0
  PROVE  SumFunctionOnSet(f, S) = 0
<1>1. \A x \in S : f[x] \in Int /\ f[x] = f[x] * 0
  <2>1. \A n : n = 0 => n \in Int /\ n = n * 0
    OBVIOUS
  <2> QED BY <2>1
<1>2. SumFunctionOnSet(f, S) = SumFunctionOnSet(f, S) * 0
  <2> DEFINE none == 0
  <2>1. none \in Int /\ \A x \in S : f[x] \in Int /\ f[x] = f[x] * none
    BY <1>1
  <2> HIDE DEF none
  <2>2. SumFunctionOnSet(f, S) = SumFunctionOnSet(f, S) * none
    BY <2>1, SumTimes
  <2> QED BY <2>2 DEF none
<1>3. SumFunctionOnSet(f, S) \in Int
  BY <1>1, SumIsInt
<1> QED BY <1>2, <1>3

LEMMA BookStarts ==
  ASSUME NEW t, Trades(t)
  PROVE  BookInv(t, {}, Paper!Start(t))
<1> DEFINE k == Paper!Start(t)
<1>1. k \in BookRecords(t) /\ (\A b \in DOMAIN t : k.left[b] = 0) /\ \A i, b \in DOMAIN t : k.used[i][b] = 0
  BY DEF Paper!Start, BookRecords
<1>2. Bought(t, {}) = {} /\ Sold(t, {}) = {}
  BY DEF Bought, Sold
<1> HIDE DEF k
<1>3. BookInv(t, {}, k)
  BY <1>1, <1>2 DEF BookInv
<1> QED BY <1>3 DEF k

\* A purchase is a lot, of which no sale has used anything.
LEMMA BookBuys ==
  ASSUME NEW t, Trades(t), NEW r \in SUBSET DOMAIN t, NEW z \in DOMAIN t \ r, NEW k,
         BookInv(t, r, k), ~k.missing, t[z].side = "buy"
  PROVE  BookInv(t, r \cup {z}, Paper!Taken(t, k, z))
<1> DEFINE D == DOMAIN t
           s == r \cup {z}
           n == Paper!Taken(t, k, z)
<1>1. k \in BookRecords(t) /\ t[z].quantity \in Nat /\ IsFiniteSet(D)
  BY DEF BookInv, Trades
<1>2. n = [k EXCEPT !.left[z] = t[z].quantity]
  BY DEF Paper!Taken
<1>3. /\ n \in BookRecords(t) /\ n.used = k.used /\ n.missing = k.missing
      /\ n.left[z] = t[z].quantity /\ \A b \in D \ {z} : n.left[b] = k.left[b]
  BY <1>1, <1>2 DEF BookRecords
<1>4. Bought(t, s) = Bought(t, r) \cup {z} /\ Sold(t, s) = Sold(t, r) /\ z \notin Bought(t, r)
  BY DEF Bought, Sold
<1>5. \A b \in D : Column(t, n, b) = Column(t, k, b)
  BY <1>3 DEF Column
<1> HIDE DEF n
<1>6. SumFunctionOnSet(Column(t, k, z), D) = 0
  <2>1. \A i \in D : Column(t, k, z)[i] = 0
    BY <1>4 DEF Column, BookInv
  <2> QED BY <1>1, <2>1, SumIsNothing
<1>7. \A b \in Bought(t, s) : n.left[b] + SumFunctionOnSet(Column(t, n, b), D) = t[b].quantity
  <2> SUFFICES ASSUME NEW b \in Bought(t, s)
               PROVE  n.left[b] + SumFunctionOnSet(Column(t, n, b), D) = t[b].quantity
    OBVIOUS
  <2>1. CASE b = z
    BY <1>1, <1>3, <1>5, <1>6, <2>1
  <2>2. CASE b \in Bought(t, r)
    <3>1. b \in D \ {z}
      BY <1>4, <2>2 DEF Bought
    <3> QED BY <1>3, <1>5, <2>2, <3>1 DEF BookInv
  <2> QED BY <1>4, <2>1, <2>2
<1>8. BookInv(t, s, n)
  BY <1>3, <1>4, <1>7 DEF BookInv
<1> QED BY <1>8 DEF n

\* A sale that the lots do not cover leaves them, and is missed for good.
LEMMA BookMisses ==
  ASSUME NEW t, Trades(t), NEW r \in SUBSET DOMAIN t, NEW z \in DOMAIN t \ r, NEW k, BookInv(t, r, k),
         k.missing \/ (t[z].side # "buy" /\ Paper!Total(k.left) < t[z].quantity)
  PROVE  BookInv(t, r \cup {z}, Paper!Taken(t, k, z))
<1> DEFINE s == r \cup {z}
           n == Paper!Taken(t, k, z)
<1>1. k \in BookRecords(t)
  BY DEF BookInv
<1>2. (n = k /\ k.missing) \/ n = [k EXCEPT !.missing = TRUE]
  BY DEF Paper!Taken
<1>3. n \in BookRecords(t) /\ n.used = k.used /\ n.left = k.left /\ n.missing
  BY <1>1, <1>2 DEF BookRecords
<1>4. Bought(t, r) \subseteq Bought(t, s) /\ Sold(t, r) \subseteq Sold(t, s)
  BY DEF Bought, Sold
<1> HIDE DEF n
<1>5. BookInv(t, s, n)
  BY <1>3, <1>4 DEF BookInv
<1> QED BY <1>5 DEF n

\* A sale uses lots bought before it, and no more of them than was left.
LEMMA BookSells ==
  ASSUME NEW t, Trades(t), NEW r \in SUBSET DOMAIN t, NEW z \in DOMAIN t \ r, NEW k, BookInv(t, r, k),
         \A b \in r : Paper!Precedes(Paper!Times(t), b, z),
         ~k.missing, t[z].side # "buy", ~(Paper!Total(k.left) < t[z].quantity)
  PROVE  BookInv(t, r \cup {z}, Paper!Taken(t, k, z))
<1> DEFINE D == DOMAIN t
           s == r \cup {z}
           u == Paper!Used(t, k.left, z)
           n == Paper!Taken(t, k, z)
<1>1. k \in BookRecords(t) /\ t[z].quantity \in Nat /\ IsFiniteSet(D) /\ t[z].side = "sell"
  BY DEF BookInv, Trades
<1>2. k.left \in [D -> Nat] /\ k.used \in [D -> [D -> Nat]]
  BY <1>1 DEF BookRecords
<1>3. /\ u \in [D -> Nat] /\ \A b \in D : u[b] <= k.left[b]
      /\ SumFunctionOnSet(u, D) = Paper!Smaller(t[z].quantity, SumFunctionOnSet(k.left, D))
  BY <1>2, UsedIs
<1>4. n = [left |-> [b \in D |-> k.left[b] - u[b]], used |-> [k.used EXCEPT ![z] = u], missing |-> FALSE]
  BY DEF Paper!Taken
<1> HIDE DEF u, n
<1>5. /\ \A b \in D : n.left[b] = k.left[b] - u[b] /\ n.left[b] \in Nat
      /\ n.used[z] = u /\ \A i \in D \ {z} : n.used[i] = k.used[i]
      /\ n.used \in [D -> [D -> Nat]] /\ ~n.missing
  BY <1>2, <1>3, <1>4
<1>6. n \in BookRecords(t)
  <2>1. [b \in D |-> k.left[b] - u[b]] \in [D -> Nat]
    BY <1>2, <1>3
  <2> QED BY <1>4, <1>5, <2>1 DEF BookRecords
<1>7. Bought(t, s) = Bought(t, r) /\ Sold(t, s) = Sold(t, r) \cup {z} /\ z \notin Sold(t, r)
  BY <1>1 DEF Bought, Sold
<1>8. \A b \in D \ Bought(t, r) : k.left[b] = 0 /\ u[b] = 0
  BY <1>2, <1>3 DEF BookInv
<1>9. \A b \in D : u[b] # 0 => b \in Bought(t, r) /\ Paper!Precedes(Paper!Times(t), b, z)
  BY <1>8 DEF Bought
<1>10. \A i, b \in D : n.used[i][b] # 0 =>
         i \in Sold(t, s) /\ b \in Bought(t, s) /\ Paper!Precedes(Paper!Times(t), b, i)
  BY <1>5, <1>7, <1>9 DEF BookInv
<1>11. ASSUME NEW b \in Bought(t, s)
       PROVE  n.left[b] + SumFunctionOnSet(Column(t, n, b), D) = t[b].quantity
  <2>1. b \in D /\ b \in Bought(t, r)
    BY <1>7 DEF Bought
  <2>2. /\ \A i \in D : Column(t, n, b)[i] = n.used[i][b] /\ Column(t, k, b)[i] = k.used[i][b]
        /\ \A i \in D : Column(t, n, b)[i] \in Int /\ Column(t, k, b)[i] \in Int
    BY <1>2, <1>5, <2>1 DEF Column
  <2>3. /\ SumFunctionOnSet(Column(t, n, b), D) = u[b] + SumFunctionOnSet(Column(t, n, b), D \ {z})
        /\ SumFunctionOnSet(Column(t, k, b), D) = k.used[z][b] + SumFunctionOnSet(Column(t, k, b), D \ {z})
    <3>1. Column(t, n, b)[z] = u[b] /\ Column(t, k, b)[z] = k.used[z][b]
      BY <1>5, <2>2
    <3> QED BY <1>1, <2>2, <3>1, SumTakesOut
  <2>4. /\ SumFunctionOnSet(Column(t, n, b), D \ {z}) = SumFunctionOnSet(Column(t, k, b), D \ {z})
        /\ SumFunctionOnSet(Column(t, n, b), D \ {z}) \in Int
    <3>1. IsFiniteSet(D \ {z}) /\ \A i \in D \ {z} : /\ Column(t, n, b)[i] \in Int
                                                   /\ Column(t, k, b)[i] = Column(t, n, b)[i]
      BY <1>1, <1>5, <2>2, FS_Subset
    <3> QED BY <3>1, SumSame
  <2>5. k.used[z][b] = 0 /\ k.left[b] + SumFunctionOnSet(Column(t, k, b), D) = t[b].quantity
    BY <1>7, <2>1 DEF BookInv
  <2>6. n.left[b] = k.left[b] - u[b] /\ k.left[b] \in Nat /\ u[b] \in Nat
    BY <1>2, <1>3, <1>5, <2>1
  <2> QED BY <2>3, <2>4, <2>5, <2>6
<1>12. ASSUME NEW i \in Sold(t, s)
       PROVE  SumFunctionOnSet(n.used[i], D) = t[i].quantity
  <2>1. CASE i = z
    <3>1. Paper!Total(k.left) = SumFunctionOnSet(k.left, D) /\ SumFunctionOnSet(k.left, D) \in Int
      <4>1. DOMAIN k.left = D /\ \A b \in D : k.left[b] \in Int
        BY <1>2
      <4> QED BY <1>1, <4>1, ResultsAreSums, SumIsInt
    <3>2. Paper!Smaller(t[z].quantity, SumFunctionOnSet(k.left, D)) = t[z].quantity
      BY <1>1, <3>1 DEF Paper!Smaller
    <3> QED BY <1>3, <1>5, <2>1, <3>2
  <2>2. CASE i \in Sold(t, r)
    <3>1. i \in D \ {z}
      BY <1>7, <2>2 DEF Sold
    <3> QED BY <1>5, <2>2, <3>1 DEF BookInv
  <2> QED BY <1>7, <2>1, <2>2
<1>13. \A b \in D \ Bought(t, s) : n.left[b] = 0
  BY <1>5, <1>7, <1>8
<1>14. BookInv(t, s, n)
  BY <1>5, <1>6, <1>10, <1>11, <1>12, <1>13 DEF BookInv
<1> QED BY <1>14 DEF n

\* The book after any trades is such a book.
LEMMA BookIsKept ==
  ASSUME NEW t, Trades(t)
  PROVE  \A s \in SUBSET DOMAIN t : BookInv(t, s, Paper!Book(t, s))
<1> DEFINE Kept(s) == BookInv(t, s, Paper!Book(t, s))
           N == {n \in Nat : \A s \in SUBSET DOMAIN t : Cardinality(s) = n => Kept(s)}
<1>1. \A s \in SUBSET DOMAIN t : IsFiniteSet(s) /\ Cardinality(s) \in Nat
  BY TradesAreDated
<1>2. 0 \in N
  <2>1. ASSUME NEW s \in SUBSET DOMAIN t, Cardinality(s) = 0
        PROVE  s = {}
    BY <1>1, <2>1, FS_EmptySet
  <2>2. Kept({})
    BY BookUnfolds, BookStarts
  <2> HIDE DEF Kept
  <2> QED BY <2>1, <2>2
<1>3. ASSUME NEW n \in N
      PROVE  n + 1 \in N
  <2> SUFFICES ASSUME NEW s \in SUBSET DOMAIN t, Cardinality(s) = n + 1
               PROVE  Kept(s)
    OBVIOUS
  <2> DEFINE z == LastTrade(t, s)
             r == s \ {z}
             k == Paper!Book(t, r)
  <2>1. s # {} /\ n \in Nat
    BY <1>1, FS_EmptySet
  <2>2. z \in s /\ (\A b \in r : Paper!Precedes(Paper!Times(t), b, z)) /\ Cardinality(r) = n
    BY <2>1, LastOfTrades
  <2>3. Paper!Book(t, s) = Paper!Taken(t, k, z)
    BY <2>1, BookUnfolds
  <2>4. r \in SUBSET DOMAIN t /\ z \in DOMAIN t \ r /\ s = r \cup {z}
    BY <2>2
  <2>5. BookInv(t, r, k)
    BY <2>2, <2>4
  <2> HIDE DEF z, r, k
  <2>6. BookInv(t, r \cup {z}, Paper!Taken(t, k, z))
    <3>1. CASE k.missing \/ (t[z].side # "buy" /\ Paper!Total(k.left) < t[z].quantity)
      BY <2>4, <2>5, <3>1, BookMisses
    <3>2. CASE ~k.missing /\ t[z].side = "buy"
      BY <2>4, <2>5, <3>2, BookBuys
    <3>3. CASE ~k.missing /\ t[z].side # "buy" /\ ~(Paper!Total(k.left) < t[z].quantity)
      BY <2>2, <2>4, <2>5, <3>3, BookSells
    <3> QED BY <3>1, <3>2, <3>3
  <2> QED BY <2>3, <2>4, <2>6
<1>4. N = Nat
  <2> HIDE DEF Kept
  <2> QED BY <1>2, <1>3, NatSetInduction
<1> QED BY <1>1, <1>4

-----------------------------------------------------------------------------
(* Part 12: the rows add up. *)

Quantities(t) == [b \in DOMAIN t |-> t[b].quantity]
Counts(t, k) == [b \in DOMAIN t |-> SumFunctionOnSet(Column(t, k, b), DOMAIN t)]
Basis(t, k) == [b \in DOMAIN t |-> k.left[b] * t[b].price]
Spent(t, cost) == [b \in DOMAIN t |-> t[b].quantity * t[b].price * (100 + cost)]
Proceeds(t, k, cost, b) == [i \in DOMAIN t |-> k.used[i][b] * (t[i].price * (100 - cost))]
Margins(t, k, cost, b) ==
  [i \in DOMAIN t |-> k.used[i][b] * (t[i].price * (100 - cost) - t[b].price * (100 + cost))]
Earned(t, k, cost) == [b \in DOMAIN t |-> SumFunctionOnSet(Proceeds(t, k, cost, b), DOMAIN t)]
Net(t, k, cost) == [b \in DOMAIN t |-> SumFunctionOnSet(Margins(t, k, cost, b), DOMAIN t)]

\* The book of all the trades, when no sale was missing.
Whole(t, k) == Trades(t) /\ BookInv(t, DOMAIN t, k) /\ ~k.missing

\* All of these are integers.
LEMMA LotsAreIntegers ==
  ASSUME NEW t, NEW k, Whole(t, k), NEW cost \in Int
  PROVE  /\ IsFiniteSet(DOMAIN t) /\ DOMAIN k.left = DOMAIN t
         /\ \A b \in DOMAIN t :
              /\ k.left[b] \in Nat /\ t[b].quantity \in Nat /\ t[b].price \in Int /\ t[b].time \in Int
              /\ Quantities(t)[b] = t[b].quantity /\ Spent(t, cost)[b] \in Int
              /\ Basis(t, k)[b] = k.left[b] * t[b].price /\ Basis(t, k)[b] \in Int
              /\ Counts(t, k)[b] \in Nat /\ Earned(t, k, cost)[b] \in Int /\ Net(t, k, cost)[b] \in Int
         /\ \A i, b \in DOMAIN t :
              /\ k.used[i][b] \in Nat /\ Column(t, k, b)[i] = k.used[i][b] /\ Column(t, k, b)[i] \in Int
              /\ Proceeds(t, k, cost, b)[i] = k.used[i][b] * (t[i].price * (100 - cost))
              /\ Proceeds(t, k, cost, b)[i] \in Int
              /\ Margins(t, k, cost, b)[i]
                   = k.used[i][b] * (t[i].price * (100 - cost) - t[b].price * (100 + cost))
              /\ Margins(t, k, cost, b)[i] \in Int
<1> DEFINE D == DOMAIN t
<1>0. \A a, b \in Int : a * b \in Int /\ a - b \in Int
  OBVIOUS
<1>1. /\ IsFiniteSet(D) /\ k.left \in [D -> Nat] /\ k.used \in [D -> [D -> Nat]]
      /\ \A b \in D : t[b].quantity \in Nat /\ t[b].price \in Int /\ t[b].time \in Int
  BY DEF Whole, Trades, BookInv, BookRecords
<1>2. \A b \in D : /\ k.left[b] \in Nat /\ Quantities(t)[b] = t[b].quantity
                   /\ t[b].quantity * t[b].price \in Int /\ 100 + cost \in Int
                   /\ Basis(t, k)[b] = k.left[b] * t[b].price /\ k.left[b] \in Int
                   /\ Spent(t, cost)[b] = t[b].quantity * t[b].price * (100 + cost)
  BY <1>0, <1>1 DEF Quantities, Basis, Spent
<1>3. \A b \in D : Basis(t, k)[b] \in Int /\ Spent(t, cost)[b] \in Int
  BY <1>0, <1>1, <1>2
<1>4. \A i, b \in D : k.used[i][b] \in Nat /\ Column(t, k, b)[i] = k.used[i][b]
  BY <1>1 DEF Column
<1>5. \A i, b \in D : t[i].price * (100 - cost) \in Int /\ t[b].price * (100 + cost) \in Int /\ k.used[i][b] \in Int
  BY <1>0, <1>1, <1>4
<1>6. \A i, b \in D : /\ k.used[i][b] * (t[i].price * (100 - cost)) \in Int
                      /\ k.used[i][b] * (t[i].price * (100 - cost) - t[b].price * (100 + cost)) \in Int
  BY <1>0, <1>5
<1>7. \A i, b \in D : /\ Proceeds(t, k, cost, b)[i] = k.used[i][b] * (t[i].price * (100 - cost))
                      /\ Margins(t, k, cost, b)[i]
                           = k.used[i][b] * (t[i].price * (100 - cost) - t[b].price * (100 + cost))
  BY DEF Proceeds, Margins
<1>8. ASSUME NEW b \in D
      PROVE  Counts(t, k)[b] \in Nat /\ Earned(t, k, cost)[b] \in Int /\ Net(t, k, cost)[b] \in Int
  <2>1. /\ \A i \in D : Column(t, k, b)[i] \in Nat
        /\ \A i \in D : Proceeds(t, k, cost, b)[i] \in Int /\ Margins(t, k, cost, b)[i] \in Int
    BY <1>4, <1>6, <1>7
  <2>2. /\ Counts(t, k)[b] = SumFunctionOnSet(Column(t, k, b), D)
        /\ Earned(t, k, cost)[b] = SumFunctionOnSet(Proceeds(t, k, cost, b), D)
        /\ Net(t, k, cost)[b] = SumFunctionOnSet(Margins(t, k, cost, b), D)
    BY DEF Counts, Earned, Net
  <2>3. Counts(t, k)[b] \in Nat
    BY <1>1, <2>1, <2>2, SumIsNat
  <2>4. Earned(t, k, cost)[b] \in Int
    BY <1>1, <2>1, <2>2, SumIsInt
  <2>5. Net(t, k, cost)[b] \in Int
    BY <1>1, <2>1, <2>2, SumIsInt
  <2> QED BY <2>3, <2>4, <2>5
<1> QED BY <1>1, <1>2, <1>3, <1>4, <1>5, <1>6, <1>7, <1>8

\* A lot: what is left and what was used; and what it paid for is the basis of
\* what is left and that of what was used.
LEMMA LotIsWorth ==
  ASSUME NEW t, NEW k, Whole(t, k), NEW cost \in Int, NEW b \in Bought(t, DOMAIN t)
  PROVE  /\ k.left[b] + Counts(t, k)[b] = t[b].quantity
         /\ Net(t, k, cost)[b] - Basis(t, k)[b] * (100 + cost) = Earned(t, k, cost)[b] - Spent(t, cost)[b]
<1> DEFINE D == DOMAIN t
           c == t[b].price * (100 + cost)
           atCost == [i \in D |-> k.used[i][b] * c]
<1>1. b \in D
  BY DEF Bought
<1>2. /\ IsFiniteSet(D) /\ k.left[b] \in Nat /\ t[b].quantity \in Nat /\ t[b].price \in Int
      /\ \A i \in D : t[i].price \in Int /\ k.used[i][b] \in Nat
  BY <1>1, LotsAreIntegers
<1>3. c \in Int
  BY <1>2
<1>4. \A i \in D : /\ Column(t, k, b)[i] \in Int /\ Proceeds(t, k, cost, b)[i] \in Int
                   /\ Margins(t, k, cost, b)[i] \in Int
  BY <1>1, LotsAreIntegers
<1>5. k.left[b] + Counts(t, k)[b] = t[b].quantity
  BY <1>1 DEF Whole, BookInv, Counts
<1>6. \A i \in D : atCost[i] = Column(t, k, b)[i] * c /\ atCost[i] \in Int
  <2>1. \A i \in D : Column(t, k, b)[i] = k.used[i][b]
    BY DEF Column
  <2>2. \A x \in Int : x * c \in Int
    BY <1>3
  <2> HIDE DEF c
  <2> QED BY <1>4, <2>1, <2>2
<1>7. \A i \in D : Proceeds(t, k, cost, b)[i] = Margins(t, k, cost, b)[i] + atCost[i]
  <2> SUFFICES ASSUME NEW i \in D PROVE Proceeds(t, k, cost, b)[i] = Margins(t, k, cost, b)[i] + atCost[i]
    OBVIOUS
  <2> DEFINE w == t[i].price * (100 - cost)
             n == k.used[i][b]
  <2>1. n \in Int /\ w \in Int
    BY <1>2
  <2>2. Proceeds(t, k, cost, b)[i] = n * w /\ Margins(t, k, cost, b)[i] = n * (w - c) /\ atCost[i] = n * c
    BY DEF Proceeds, Margins
  <2> HIDE DEF w, n, c, atCost
  <2>3. n * w = n * (w - c) + n * c
    BY <1>3, <2>1
  <2> QED BY <2>2, <2>3
<1> HIDE DEF atCost, c
<1>8. Earned(t, k, cost)[b] = Net(t, k, cost)[b] + SumFunctionOnSet(atCost, D)
  <2>1. SumFunctionOnSet(Proceeds(t, k, cost, b), D)
          = SumFunctionOnSet(Margins(t, k, cost, b), D) + SumFunctionOnSet(atCost, D)
    BY <1>2, <1>4, <1>6, <1>7, SumOfSums
  <2> QED BY <1>1, <2>1 DEF Earned, Net
<1>9. SumFunctionOnSet(atCost, D) = Counts(t, k)[b] * c
  <2>1. SumFunctionOnSet(atCost, D) = SumFunctionOnSet(Column(t, k, b), D) * c
    BY <1>2, <1>3, <1>4, <1>6, SumTimes
  <2> QED BY <1>1, <2>1 DEF Counts
<1>10. Spent(t, cost)[b] = t[b].quantity * c /\ Basis(t, k)[b] * (100 + cost) = k.left[b] * c
  <2>1. \A x, y, z \in Int : x * y * z = x * (y * z)
    OBVIOUS
  <2>2. Spent(t, cost)[b] = t[b].quantity * t[b].price * (100 + cost) /\ Basis(t, k)[b] = k.left[b] * t[b].price
    BY <1>1 DEF Spent, Basis
  <2>3. 100 + cost \in Int /\ t[b].quantity \in Int /\ t[b].price \in Int /\ k.left[b] \in Int
    BY <1>2
  <2> QED BY <2>1, <2>2, <2>3 DEF c
<1>11. Counts(t, k)[b] \in Nat /\ Net(t, k, cost)[b] \in Int
  BY <1>1, LotsAreIntegers
<1>12. (k.left[b] + Counts(t, k)[b]) * c = k.left[b] * c + Counts(t, k)[b] * c
  <2>1. \A x, y \in Int : (x + y) * c = x * c + y * c
    BY <1>3
  <2>2. k.left[b] \in Int /\ Counts(t, k)[b] \in Int
    BY <1>2, <1>11
  <2> QED BY <2>1, <2>2, Zenon
<1>13. \A x \in Int : x * c \in Int
  BY <1>3
<1>14. k.left[b] * c \in Int /\ Counts(t, k)[b] * c \in Int
  BY <1>2, <1>11, <1>13
<1> QED BY <1>5, <1>8, <1>9, <1>10, <1>11, <1>12, <1>14

\* A row, as sums over the lots of its entry.
LEMMA RowIsSums ==
  ASSUME NEW t, NEW k, Whole(t, k), NEW cost \in Int, NEW e
  PROVE  LET lots == Paper!LotsOf(t, {e})
             row == Paper!Row(t, k, e, cost)
         IN /\ row.bought = SumFunctionOnSet(Quantities(t), lots)
            /\ row.left = SumFunctionOnSet(k.left, lots)
            /\ row.basis = SumFunctionOnSet(Basis(t, k), lots)
            /\ row.closed = SumFunctionOnSet(Counts(t, k), lots)
            /\ row.net = SumFunctionOnSet(Net(t, k, cost), lots)
<1> DEFINE D == DOMAIN t
           lots == Paper!LotsOf(t, {e})
           row == Paper!Row(t, k, e, cost)
           counts == [b \in lots |-> Paper!Total([i \in D |-> k.used[i][b] * 1])]
           nets == [b \in lots |-> Paper!Total([i \in D |->
                      k.used[i][b] * (t[i].price * (100 - cost) - t[b].price * (100 + cost))])]
<1>1. lots \in SUBSET D /\ IsFiniteSet(lots) /\ IsFiniteSet(D)
  <2>1. lots \in SUBSET D
    BY DEF Paper!LotsOf
  <2> QED BY <2>1, LotsAreIntegers, FS_Subset
<1> HIDE DEF lots
<1>2. ASSUME NEW b \in lots
      PROVE  counts[b] = Counts(t, k)[b] /\ nets[b] = Net(t, k, cost)[b]
  <2>1. b \in D
    BY <1>1
  <2>2. \A i \in D : k.used[i][b] * 1 = Column(t, k, b)[i] /\ Column(t, k, b)[i] \in Int
    <3>1. \A i \in D : k.used[i][b] \in Nat /\ Column(t, k, b)[i] = k.used[i][b]
      BY <2>1, LotsAreIntegers
    <3> QED BY <3>1
  <2>3. [i \in D |-> k.used[i][b] * 1] = [i \in D |-> Column(t, k, b)[i]]
    BY <2>2
  <2>4. Paper!Total([i \in D |-> Column(t, k, b)[i]]) = SumFunctionOnSet(Column(t, k, b), D)
    BY <1>1, <2>2, TotalOver
  <2>5. counts[b] = Counts(t, k)[b]
    BY <2>1, <2>3, <2>4 DEF Counts
  <2>6. DOMAIN Margins(t, k, cost, b) = D
    BY DEF Margins
  <2>7. nets[b] = Paper!Total(Margins(t, k, cost, b))
    BY DEF Margins
  <2>8. nets[b] = Net(t, k, cost)[b]
    BY <2>1, <2>6, <2>7, ResultsAreSums DEF Net
  <2> QED BY <2>5, <2>8
<1>3. /\ row.bought = Paper!Total([b \in lots |-> Quantities(t)[b]])
      /\ row.left = Paper!Total([b \in lots |-> k.left[b]])
      /\ row.basis = Paper!Total([b \in lots |-> Basis(t, k)[b]])
      /\ row.closed = Paper!Total([b \in lots |-> Counts(t, k)[b]])
      /\ row.net = Paper!Total([b \in lots |-> Net(t, k, cost)[b]])
  <2>1. /\ [b \in lots |-> Quantities(t)[b]] = [b \in lots |-> t[b].quantity]
        /\ [b \in lots |-> Basis(t, k)[b]] = [b \in lots |-> k.left[b] * t[b].price]
    BY <1>1 DEF Quantities, Basis
  <2>2. [b \in lots |-> Counts(t, k)[b]] = counts /\ [b \in lots |-> Net(t, k, cost)[b]] = nets
    <3>1. /\ counts = [b \in lots |-> counts[b]] /\ nets = [b \in lots |-> nets[b]]
      OBVIOUS
    <3> HIDE DEF counts, nets
    <3> QED BY <1>2, <3>1
  <2>3. /\ row.bought = Paper!Total([b \in lots |-> t[b].quantity])
        /\ row.left = Paper!Total([b \in lots |-> k.left[b]])
        /\ row.basis = Paper!Total([b \in lots |-> k.left[b] * t[b].price])
        /\ row.closed = Paper!Total(counts) /\ row.net = Paper!Total(nets)
    BY DEF Paper!Row, lots
  <2> HIDE DEF counts, nets, row
  <2> QED BY <2>1, <2>2, <2>3
<1> HIDE DEF row
<1>4. \A b \in lots : /\ Quantities(t)[b] \in Int /\ k.left[b] \in Int /\ Basis(t, k)[b] \in Int
                      /\ Counts(t, k)[b] \in Int /\ Net(t, k, cost)[b] \in Int
  <2>1. \A b \in D : /\ Quantities(t)[b] \in Nat /\ k.left[b] \in Nat /\ Basis(t, k)[b] \in Int
                     /\ Counts(t, k)[b] \in Nat /\ Net(t, k, cost)[b] \in Int
    BY LotsAreIntegers
  <2> QED BY <1>1, <2>1
<1>5. /\ row.bought = SumFunctionOnSet(Quantities(t), lots)
      /\ row.left = SumFunctionOnSet(k.left, lots)
  BY <1>1, <1>3, <1>4, TotalOver
<1>6. /\ row.basis = SumFunctionOnSet(Basis(t, k), lots)
      /\ row.closed = SumFunctionOnSet(Counts(t, k), lots)
      /\ row.net = SumFunctionOnSet(Net(t, k, cost), lots)
  BY <1>1, <1>3, <1>4, TotalOver
<1> QED BY <1>5, <1>6 DEF row, lots

\* The sums of the entries are that of all their lots.
LEMMA EntriesAddUp ==
  ASSUME NEW t, Trades(t), NEW E \in SUBSET Paper!Entries(t), NEW f, \A b \in DOMAIN t : f[b] \in Int
  PROVE  /\ IsFiniteSet(E) /\ IsFiniteSet(Paper!LotsOf(t, E)) /\ Paper!LotsOf(t, E) \in SUBSET Bought(t, DOMAIN t)
         /\ SumFunctionOnSet([e \in E |-> SumFunctionOnSet(f, Paper!LotsOf(t, {e}))], E)
              = SumFunctionOnSet(f, Paper!LotsOf(t, E))
<1> DEFINE S == Bought(t, DOMAIN t)
           by == [b \in DOMAIN t |-> t[b].entry]
<1>1. S \in SUBSET DOMAIN t /\ IsFiniteSet(S)
  BY FS_Subset DEF Bought, Trades
<1>2. IsFiniteSet(E)
  <2> DEFINE images == {by[b] : b \in S}
  <2>1. IsFiniteSet(images)
    BY <1>1, ImagesAreFinite
  <2>2. E \subseteq images
    BY DEF Paper!Entries, Bought
  <2> QED BY <2>1, <2>2, FS_Subset
<1>3. \A K : Paper!LotsOf(t, K) = Grouped(S, by, K)
  BY DEF Paper!LotsOf, Grouped, Bought
<1>4. Paper!LotsOf(t, E) \in SUBSET S /\ IsFiniteSet(Paper!LotsOf(t, E))
  <2>1. Paper!LotsOf(t, E) \in SUBSET S
    BY <1>3 DEF Grouped
  <2> QED BY <1>1, <2>1, FS_Subset
<1>5. \A b \in S : f[b] \in Int
  BY <1>1
<1>6. [e \in E |-> SumFunctionOnSet(f, Paper!LotsOf(t, {e}))] = SumsBy(f, S, by, E)
  BY <1>3 DEF SumsBy
<1> HIDE DEF by
<1>7. SumFunctionOnSet(SumsBy(f, S, by, E), E) = SumFunctionOnSet(f, Grouped(S, by, E))
  BY <1>1, <1>2, <1>5, SumOfGroups
<1> QED BY <1>2, <1>3, <1>4, <1>6, <1>7

-----------------------------------------------------------------------------
(* Part 13: the curve. *)

\* A total by rows is a sum of the sums of the columns.
RowTotal(m, S, L) == Paper!Total([i \in S |-> Paper!Total([b \in L |-> m[i][b]])])
ColumnSum(m, S, b) == SumFunctionOnSet([i \in S |-> m[i][b]], S)

LEMMA TotalByColumns ==
  ASSUME NEW S, IsFiniteSet(S), NEW L, IsFiniteSet(L), NEW m, Table(m, S, L), NEW g,
         \A b \in L : g[b] = ColumnSum(m, S, b)
  PROVE  RowTotal(m, S, L) = SumFunctionOnSet(g, L)
<1> DEFINE rows == [i \in S |-> Paper!Total([b \in L |-> m[i][b]])]
           columns == ColumnSums(m, S, L)
<1>1. \A i \in S : rows[i] = RowSums(m, S, L)[i] /\ RowSums(m, S, L)[i] \in Int
  <2> SUFFICES ASSUME NEW i \in S PROVE rows[i] = RowSums(m, S, L)[i] /\ RowSums(m, S, L)[i] \in Int
    OBVIOUS
  <2> DEFINE r == m[i]
  <2>1. rows[i] = Paper!Total([b \in L |-> r[b]]) /\ RowSums(m, S, L)[i] = SumFunctionOnSet(r, L)
    BY DEF RowSums
  <2>2. \A b \in L : r[b] \in Int
    BY DEF Table
  <2> HIDE DEF r, rows
  <2>3. Paper!Total([b \in L |-> r[b]]) = SumFunctionOnSet(r, L) /\ SumFunctionOnSet(r, L) \in Int
    BY <2>2, TotalOver, SumIsInt
  <2> QED BY <2>1, <2>3
<1>2. DOMAIN rows = S
  OBVIOUS
<1> HIDE DEF rows
<1>3. Paper!Total(rows) = SumFunctionOnSet(RowSums(m, S, L), S)
  <2>1. SumFunctionOnSet(RowSums(m, S, L), S) = SumFunctionOnSet(rows, S)
    BY <1>1, SumSame
  <2> QED BY <1>2, <2>1, ResultsAreSums
<1>4. \A b \in L : columns[b] = g[b] /\ columns[b] \in Int
  <2> SUFFICES ASSUME NEW b \in L PROVE columns[b] = g[b] /\ columns[b] \in Int
    OBVIOUS
  <2> DEFINE c == [i \in S |-> m[i][b]]
  <2>1. columns[b] = SumFunctionOnSet(c, S) /\ g[b] = SumFunctionOnSet(c, S)
    BY DEF ColumnSums, ColumnSum
  <2>2. \A i \in S : c[i] \in Int
    BY DEF Table
  <2> HIDE DEF c, columns
  <2> QED BY <2>1, <2>2, SumIsInt
<1>5. SumFunctionOnSet(g, L) = SumFunctionOnSet(columns, L)
  <2> HIDE DEF columns
  <2>1. \A b \in L : g[b] \in Int /\ columns[b] = g[b]
    BY <1>4
  <2> QED BY <2>1, SumSame
<1>6. SumFunctionOnSet(RowSums(m, S, L), S) = SumFunctionOnSet(columns, L)
  BY SumByColumns
<1> QED BY <1>3, <1>5, <1>6 DEF rows, RowTotal

\* What the sales of S took of each lot, and for how much.
Drawn(t, k, S) == [b \in DOMAIN t |-> SumFunctionOnSet(Column(t, k, b), S)]
EarnedBy(t, k, cost, S) == [b \in DOMAIN t |-> SumFunctionOnSet(Proceeds(t, k, cost, b), S)]

LotsBy(t, E, day) == {b \in Paper!LotsOf(t, E) : t[b].time <= day}
SalesBy(t, day) == {i \in DOMAIN t : t[i].time <= day}

\* The cash and the shares of the strategy, by lots.
LEMMA StrategyIs ==
  ASSUME NEW t, NEW k, Whole(t, k), NEW cost \in Int, NEW capital, NEW day, NEW E
  PROVE  LET lots == Paper!LotsOf(t, E)
             sales == SalesBy(t, day)
             strategy == Paper!Strategy(t, k, E, cost, capital, day)
         IN /\ IsFiniteSet(lots) /\ IsFiniteSet(sales)
            /\ lots \in SUBSET Bought(t, DOMAIN t) /\ lots \in SUBSET DOMAIN t /\ sales \in SUBSET DOMAIN t
            /\ LotsBy(t, E, day) \in SUBSET lots
            /\ strategy = [cash |-> 100 * capital - SumFunctionOnSet(Spent(t, cost), LotsBy(t, E, day))
                                      + SumFunctionOnSet(EarnedBy(t, k, cost, sales), lots),
                           shares |-> SumFunctionOnSet(Quantities(t), LotsBy(t, E, day))
                                        - SumFunctionOnSet(Drawn(t, k, sales), lots)]
            /\ \A b \in lots : EarnedBy(t, k, cost, sales)[b] \in Int /\ Drawn(t, k, sales)[b] \in Int
<1> DEFINE D == DOMAIN t
           lots == Paper!LotsOf(t, E)
           bought == LotsBy(t, E, day)
           sales == SalesBy(t, day)
           taken == [i \in D |-> [b \in D |-> k.used[i][b] * 1]]
           gained == [i \in D |-> [b \in D |-> k.used[i][b] * (t[i].price * (100 - cost))]]
<1>1. /\ lots \in SUBSET Bought(t, D) /\ lots \in SUBSET D /\ sales \in SUBSET D /\ bought \in SUBSET lots
      /\ bought \in SUBSET D
  BY DEF Paper!LotsOf, Bought, SalesBy, LotsBy
<1>2. IsFiniteSet(D) /\ IsFiniteSet(lots) /\ IsFiniteSet(sales) /\ IsFiniteSet(bought)
  BY <1>1, LotsAreIntegers, FS_Subset
<1>3. Paper!Strategy(t, k, E, cost, capital, day)
        = [cash |-> 100 * capital - Paper!Total([b \in bought |-> t[b].quantity * t[b].price * (100 + cost)])
                      + Paper!Total([i \in sales |-> Paper!Total([b \in lots |->
                                       k.used[i][b] * (t[i].price * (100 - cost))])]),
           shares |-> Paper!Total([b \in bought |-> t[b].quantity])
                        - Paper!Total([i \in sales |-> Paper!Total([b \in lots |-> k.used[i][b] * 1])])]
  BY DEF Paper!Strategy, LotsBy, SalesBy
<1> HIDE DEF lots, bought, sales
<1>4. /\ Paper!Total([b \in bought |-> t[b].quantity * t[b].price * (100 + cost)])
           = SumFunctionOnSet(Spent(t, cost), bought)
      /\ Paper!Total([b \in bought |-> t[b].quantity]) = SumFunctionOnSet(Quantities(t), bought)
  <2>1. \A b \in bought : Spent(t, cost)[b] \in Int /\ Quantities(t)[b] \in Int
    <3>1. \A b \in D : Spent(t, cost)[b] \in Int /\ Quantities(t)[b] \in Nat
      BY LotsAreIntegers
    <3> QED BY <1>1, <3>1
  <2>2. /\ Paper!Total([b \in bought |-> Spent(t, cost)[b]]) = SumFunctionOnSet(Spent(t, cost), bought)
        /\ Paper!Total([b \in bought |-> Quantities(t)[b]]) = SumFunctionOnSet(Quantities(t), bought)
    BY <1>2, <2>1, TotalOver
  <2>3. /\ [b \in bought |-> Spent(t, cost)[b]] = [b \in bought |-> t[b].quantity * t[b].price * (100 + cost)]
        /\ [b \in bought |-> Quantities(t)[b]] = [b \in bought |-> t[b].quantity]
    BY <1>1 DEF Spent, Quantities
  <2> QED BY <2>2, <2>3
<1>5. \A i, b \in D : /\ taken[i][b] = Column(t, k, b)[i] /\ taken[i][b] \in Int
                      /\ gained[i][b] = Proceeds(t, k, cost, b)[i] /\ gained[i][b] \in Int
  <2> SUFFICES ASSUME NEW i \in D, NEW b \in D
               PROVE  /\ taken[i][b] = Column(t, k, b)[i] /\ taken[i][b] \in Int
                      /\ gained[i][b] = Proceeds(t, k, cost, b)[i] /\ gained[i][b] \in Int
    OBVIOUS
  <2>1. /\ k.used[i][b] \in Nat /\ Column(t, k, b)[i] = k.used[i][b]
        /\ Proceeds(t, k, cost, b)[i] = k.used[i][b] * (t[i].price * (100 - cost))
        /\ Proceeds(t, k, cost, b)[i] \in Int
    BY LotsAreIntegers
  <2>2. taken[i][b] = k.used[i][b] * 1 /\ gained[i][b] = k.used[i][b] * (t[i].price * (100 - cost))
    OBVIOUS
  <2> HIDE DEF taken, gained
  <2> QED BY <2>1, <2>2
<1>6. ASSUME NEW b \in lots
      PROVE  /\ Drawn(t, k, sales)[b] = ColumnSum(taken, sales, b)
             /\ EarnedBy(t, k, cost, sales)[b] = ColumnSum(gained, sales, b)
             /\ Drawn(t, k, sales)[b] \in Int /\ EarnedBy(t, k, cost, sales)[b] \in Int
  <2> DEFINE c == [i \in sales |-> taken[i][b]]
             p == [i \in sales |-> gained[i][b]]
  <2>1. \A i \in sales : /\ Column(t, k, b)[i] \in Int /\ c[i] = Column(t, k, b)[i]
                         /\ Proceeds(t, k, cost, b)[i] \in Int /\ p[i] = Proceeds(t, k, cost, b)[i]
    <3> HIDE DEF taken, gained
    <3> QED BY <1>1, <1>5
  <2> HIDE DEF c, p
  <2>2. /\ SumFunctionOnSet(Column(t, k, b), sales) = SumFunctionOnSet(c, sales)
        /\ SumFunctionOnSet(Column(t, k, b), sales) \in Int
    BY <1>2, <2>1, SumSame
  <2>3. /\ SumFunctionOnSet(Proceeds(t, k, cost, b), sales) = SumFunctionOnSet(p, sales)
        /\ SumFunctionOnSet(Proceeds(t, k, cost, b), sales) \in Int
    BY <1>2, <2>1, SumSame
  <2>4. b \in D
    BY <1>1
  <2>5. /\ Drawn(t, k, sales)[b] = SumFunctionOnSet(Column(t, k, b), sales)
        /\ EarnedBy(t, k, cost, sales)[b] = SumFunctionOnSet(Proceeds(t, k, cost, b), sales)
    BY <2>4 DEF Drawn, EarnedBy
  <2>6. /\ Drawn(t, k, sales)[b] = SumFunctionOnSet(c, sales) /\ Drawn(t, k, sales)[b] \in Int
        /\ EarnedBy(t, k, cost, sales)[b] = SumFunctionOnSet(p, sales) /\ EarnedBy(t, k, cost, sales)[b] \in Int
    BY <2>2, <2>3, <2>5
  <2> QED BY <2>6 DEF c, p, ColumnSum
<1>7. Table(taken, sales, lots) /\ Table(gained, sales, lots)
  <2> HIDE DEF taken, gained
  <2> QED BY <1>1, <1>5 DEF Table
<1>8. [i \in sales |-> Paper!Total([b \in lots |-> k.used[i][b] * 1])]
        = [i \in sales |-> Paper!Total([b \in lots |-> taken[i][b]])]
  <2>1. \A i \in sales : [b \in lots |-> k.used[i][b] * 1] = [b \in lots |-> taken[i][b]]
    BY <1>1
  <2> HIDE DEF taken
  <2> QED BY <2>1
<1>9. [i \in sales |-> Paper!Total([b \in lots |-> k.used[i][b] * (t[i].price * (100 - cost))])]
        = [i \in sales |-> Paper!Total([b \in lots |-> gained[i][b]])]
  <2>1. \A i \in sales : [b \in lots |-> k.used[i][b] * (t[i].price * (100 - cost))] = [b \in lots |-> gained[i][b]]
    BY <1>1
  <2> HIDE DEF gained
  <2> QED BY <2>1
<1> HIDE DEF taken, gained
<1>10. Paper!Total([i \in sales |-> Paper!Total([b \in lots |-> k.used[i][b] * 1])])
         = SumFunctionOnSet(Drawn(t, k, sales), lots)
  <2>1. RowTotal(taken, sales, lots) = SumFunctionOnSet(Drawn(t, k, sales), lots)
    BY <1>2, <1>6, <1>7, TotalByColumns
  <2> QED BY <1>8, <2>1 DEF RowTotal
<1>11. Paper!Total([i \in sales |-> Paper!Total([b \in lots |-> k.used[i][b] * (t[i].price * (100 - cost))])])
         = SumFunctionOnSet(EarnedBy(t, k, cost, sales), lots)
  <2>1. RowTotal(gained, sales, lots) = SumFunctionOnSet(EarnedBy(t, k, cost, sales), lots)
    BY <1>2, <1>6, <1>7, TotalByColumns
  <2> QED BY <1>9, <2>1 DEF RowTotal
<1> QED BY <1>1, <1>2, <1>3, <1>4, <1>6, <1>10, <1>11 DEF lots, bought, sales

\* No day has sold what was bought later.
LEMMA NothingIsSoldBefore ==
  ASSUME NEW t, NEW k, Whole(t, k), NEW cost \in Int, NEW capital, NEW day \in Int, NEW E
  PROVE  Paper!Strategy(t, k, E, cost, capital, day).shares >= 0
<1> DEFINE D == DOMAIN t
           lots == Paper!LotsOf(t, E)
           bought == LotsBy(t, E, day)
           sales == SalesBy(t, day)
           drawn == Drawn(t, k, sales)
<1>1. /\ IsFiniteSet(lots) /\ IsFiniteSet(sales) /\ lots \in SUBSET Bought(t, D) /\ lots \in SUBSET D
      /\ sales \in SUBSET D /\ bought \in SUBSET lots /\ \A b \in lots : drawn[b] \in Int
      /\ Paper!Strategy(t, k, E, cost, capital, day).shares
           = SumFunctionOnSet(Quantities(t), bought) - SumFunctionOnSet(drawn, lots)
  <2> DEFINE strategy == Paper!Strategy(t, k, E, cost, capital, day)
             cash == 100 * capital - SumFunctionOnSet(Spent(t, cost), bought)
                       + SumFunctionOnSet(EarnedBy(t, k, cost, sales), lots)
             shares == SumFunctionOnSet(Quantities(t), bought) - SumFunctionOnSet(drawn, lots)
  <2>1. /\ IsFiniteSet(lots) /\ IsFiniteSet(sales) /\ lots \in SUBSET Bought(t, D) /\ lots \in SUBSET D
        /\ sales \in SUBSET D /\ bought \in SUBSET lots
        /\ strategy = [cash |-> cash, shares |-> shares]
        /\ \A b \in lots : drawn[b] \in Int
    BY StrategyIs
  <2> HIDE DEF strategy, cash, shares, lots, bought, sales, drawn
  <2>2. strategy.shares = shares
    BY <2>1
  <2> QED BY <2>1, <2>2 DEF strategy, shares
<1>2. Trades(t) /\ BookInv(t, D, k) /\ IsFiniteSet(D) /\ IsFiniteSet(bought)
  BY <1>1, LotsAreIntegers, FS_Subset DEF Whole
<1>3. ASSUME NEW b \in lots \ bought
      PROVE  drawn[b] = 0
  <2>1. b \in D /\ ~(t[b].time <= day)
    BY <1>1 DEF LotsBy
  <2>2. ASSUME NEW i \in sales
        PROVE  Column(t, k, b)[i] = 0
    <3>1. i \in D /\ t[i].time <= day
      BY DEF SalesBy
    <3>2. k.used[i][b] # 0 => Paper!Precedes(Paper!Times(t), b, i)
      BY <1>2, <2>1, <3>1 DEF BookInv
    <3>3. Paper!Precedes(Paper!Times(t), b, i) => t[b].time <= t[i].time
      BY <1>2, <2>1, <3>1, TradesInOrder
    <3>4. t[b].time \in Int /\ t[i].time \in Int /\ Column(t, k, b)[i] = k.used[i][b]
      BY <2>1, <3>1, LotsAreIntegers
    <3> QED BY <2>1, <3>1, <3>2, <3>3, <3>4
  <2>3. SumFunctionOnSet(Column(t, k, b), sales) = 0
    BY <1>1, <2>2, SumIsNothing
  <2> QED BY <2>1, <2>3 DEF Drawn
<1>4. ASSUME NEW b \in lots
      PROVE  drawn[b] <= Quantities(t)[b] /\ Quantities(t)[b] \in Int
  <2>1. b \in D /\ b \in Bought(t, D)
    BY <1>1
  <2> DEFINE c == Column(t, k, b)
  <2>2. \A i \in D : c[i] \in Nat
    <3>1. \A i \in D : k.used[i][b] \in Nat /\ Column(t, k, b)[i] = k.used[i][b]
      BY <2>1, LotsAreIntegers
    <3> QED BY <3>1
  <2>3. IsFiniteSet(D \ sales) /\ sales \cap (D \ sales) = {} /\ sales \cup (D \ sales) = D
    BY <1>1, <1>2, FS_Subset
  <2>4. Counts(t, k)[b] = SumFunctionOnSet(c, D) /\ drawn[b] = SumFunctionOnSet(c, sales)
    BY <2>1 DEF Counts, Drawn
  <2> HIDE DEF c
  <2>5. SumFunctionOnSet(c, D) = SumFunctionOnSet(c, sales) + SumFunctionOnSet(c, D \ sales)
    BY <1>1, <2>2, <2>3, SumOfBoth
  <2>6. SumFunctionOnSet(c, D \ sales) \in Nat
    BY <2>2, <2>3, SumIsNat
  <2>7. k.left[b] + Counts(t, k)[b] = t[b].quantity
    BY <2>1, LotIsWorth
  <2>8. k.left[b] \in Nat /\ Counts(t, k)[b] \in Nat /\ t[b].quantity \in Nat /\ Quantities(t)[b] = t[b].quantity
    BY <2>1, LotsAreIntegers
  <2>9. drawn[b] \in Int
    BY <1>1
  <2> HIDE DEF drawn
  <2> QED BY <2>4, <2>5, <2>6, <2>7, <2>8, <2>9
<1>5. SumFunctionOnSet(drawn, lots) = SumFunctionOnSet(drawn, bought)
  <2> HIDE DEF drawn, lots, bought
  <2> QED BY <1>1, <1>3, SumOfZeros
<1>6. /\ SumFunctionOnSet(drawn, bought) \in Int /\ SumFunctionOnSet(Quantities(t), bought) \in Int
      /\ SumFunctionOnSet(drawn, bought) * 1 <= SumFunctionOnSet(Quantities(t), bought)
  <2>1. \A b \in bought : /\ drawn[b] \in Int /\ Quantities(t)[b] \in Int
                          /\ drawn[b] * 1 <= Quantities(t)[b]
    <3> HIDE DEF drawn
    <3> QED BY <1>1, <1>4
  <2> HIDE DEF drawn, bought
  <2> QED BY <1>2, <2>1, SumIsCovered
<1> HIDE DEF drawn, lots, bought, sales
<1> QED BY <1>1, <1>5, <1>6

\* What an entry left in the account: what it made of what it closed, less the
\* basis of what is open.
Kept(t, k, cost) == [b \in DOMAIN t |-> Net(t, k, cost)[b] - Basis(t, k)[b] * (100 + cost)]

LEMMA EntryIsKept ==
  ASSUME NEW t, NEW k, Whole(t, k), NEW cost \in Int, NEW lots \in SUBSET DOMAIN t
  PROVE  /\ \A b \in DOMAIN t : Kept(t, k, cost)[b] \in Int
         /\ SumFunctionOnSet(Kept(t, k, cost), lots)
              = SumFunctionOnSet(Net(t, k, cost), lots) - SumFunctionOnSet(Basis(t, k), lots) * (100 + cost)
         /\ SumFunctionOnSet(Kept(t, k, cost), lots) \in Int
<1> DEFINE D == DOMAIN t
           net == Net(t, k, cost)
           basis == Basis(t, k)
           kept == Kept(t, k, cost)
           invested == [b \in D |-> basis[b] * (100 + cost)]
<1>1. IsFiniteSet(lots) /\ \A b \in D : net[b] \in Int /\ basis[b] \in Int
  BY LotsAreIntegers, FS_Subset
<1>2. \A b \in D : kept[b] = net[b] - basis[b] * (100 + cost) /\ invested[b] = basis[b] * (100 + cost)
  BY DEF Kept
<1>3. 100 + cost \in Int /\ \A a \in Int : a * (100 + cost) \in Int
  OBVIOUS
<1> HIDE DEF net, basis, kept, invested
<1>4. \A b \in D : kept[b] \in Int /\ invested[b] \in Int /\ net[b] = kept[b] + invested[b]
  BY <1>1, <1>2, <1>3
<1>5. SumFunctionOnSet(net, lots) = SumFunctionOnSet(kept, lots) + SumFunctionOnSet(invested, lots)
  BY <1>1, <1>4, SumOfSums
<1>6. SumFunctionOnSet(invested, lots) = SumFunctionOnSet(basis, lots) * (100 + cost)
  BY <1>1, <1>2, <1>3, SumTimes
<1>7. SumFunctionOnSet(kept, lots) \in Int
  BY <1>1, <1>4, SumIsInt
<1>8. SumFunctionOnSet(invested, lots) \in Int
  BY <1>1, <1>4, SumIsInt
<1> QED BY <1>4, <1>5, <1>6, <1>7, <1>8 DEF net, basis, kept

\* After the last trade the strategy has what its entries left and what is open.
LEMMA StrategyAtTheEnd ==
  ASSUME NEW t, NEW k, Whole(t, k), NEW cost \in Int, NEW capital \in Int, NEW day, NEW E,
         \A i \in DOMAIN t : t[i].time <= day
  PROVE  LET lots == Paper!LotsOf(t, E)
             strategy == Paper!Strategy(t, k, E, cost, capital, day)
         IN /\ strategy.cash = 100 * capital + SumFunctionOnSet(Kept(t, k, cost), lots)
            /\ strategy.shares = SumFunctionOnSet(k.left, lots)
<1> DEFINE D == DOMAIN t
           lots == Paper!LotsOf(t, E)
           strategy == Paper!Strategy(t, k, E, cost, capital, day)
<1>1. LotsBy(t, E, day) = lots /\ SalesBy(t, day) = D
  BY DEF LotsBy, SalesBy, Paper!LotsOf
<1>2. Drawn(t, k, D) = Counts(t, k) /\ EarnedBy(t, k, cost, D) = Earned(t, k, cost)
  BY DEF Drawn, Counts, EarnedBy, Earned
<1>3. /\ IsFiniteSet(lots) /\ lots \in SUBSET Bought(t, D) /\ lots \in SUBSET D
      /\ strategy.cash = 100 * capital - SumFunctionOnSet(Spent(t, cost), lots)
                           + SumFunctionOnSet(Earned(t, k, cost), lots)
      /\ strategy.shares = SumFunctionOnSet(Quantities(t), lots) - SumFunctionOnSet(Counts(t, k), lots)
  <2>1. strategy = [cash |-> 100 * capital - SumFunctionOnSet(Spent(t, cost), lots)
                               + SumFunctionOnSet(Earned(t, k, cost), lots),
                    shares |-> SumFunctionOnSet(Quantities(t), lots) - SumFunctionOnSet(Counts(t, k), lots)]
    BY <1>1, <1>2, StrategyIs
  <2>2. IsFiniteSet(lots) /\ lots \in SUBSET Bought(t, D) /\ lots \in SUBSET D
    BY StrategyIs
  <2> HIDE DEF strategy, lots
  <2> QED BY <2>1, <2>2
<1> HIDE DEF strategy, lots
<1>4. ASSUME NEW b \in lots
      PROVE  /\ k.left[b] \in Int /\ Counts(t, k)[b] \in Int /\ Kept(t, k, cost)[b] \in Int
             /\ Spent(t, cost)[b] \in Int /\ Earned(t, k, cost)[b] \in Int
             /\ Quantities(t)[b] = k.left[b] + Counts(t, k)[b]
             /\ Earned(t, k, cost)[b] = Kept(t, k, cost)[b] + Spent(t, cost)[b]
  <2>1. b \in D /\ b \in Bought(t, D)
    BY <1>3
  <2>2. /\ k.left[b] \in Nat /\ Counts(t, k)[b] \in Nat /\ Spent(t, cost)[b] \in Int
        /\ Earned(t, k, cost)[b] \in Int /\ Quantities(t)[b] = t[b].quantity
    BY <2>1, LotsAreIntegers
  <2>3. /\ k.left[b] + Counts(t, k)[b] = t[b].quantity
        /\ Net(t, k, cost)[b] - Basis(t, k)[b] * (100 + cost) = Earned(t, k, cost)[b] - Spent(t, cost)[b]
    BY <2>1, LotIsWorth
  <2>4. Kept(t, k, cost)[b] = Net(t, k, cost)[b] - Basis(t, k)[b] * (100 + cost)
    BY <2>1 DEF Kept
  <2> QED BY <2>2, <2>3, <2>4
<1>5. SumFunctionOnSet(Quantities(t), lots) = SumFunctionOnSet(k.left, lots) + SumFunctionOnSet(Counts(t, k), lots)
  BY <1>3, <1>4, SumOfSums
<1>6. SumFunctionOnSet(Earned(t, k, cost), lots)
        = SumFunctionOnSet(Kept(t, k, cost), lots) + SumFunctionOnSet(Spent(t, cost), lots)
  BY <1>3, <1>4, SumOfSums
<1>7. SumFunctionOnSet(k.left, lots) \in Int /\ SumFunctionOnSet(Counts(t, k), lots) \in Int
  BY <1>3, <1>4, SumIsInt
<1>8. SumFunctionOnSet(Kept(t, k, cost), lots) \in Int /\ SumFunctionOnSet(Spent(t, cost), lots) \in Int
  BY <1>3, <1>4, SumIsInt
<1> QED BY <1>3, <1>5, <1>6, <1>7, <1>8 DEF strategy, lots

\* Until something is sold or another entry is bought, the strategy is to hold
\* the first one.
LEMMA StrategyHolds ==
  ASSUME NEW t, NEW k, Whole(t, k), NEW cost \in Int, NEW capital \in Int, NEW day, NEW E,
         NEW first \in E,
         \A i \in DOMAIN t : t[i].time <= day => t[i].side = "buy" /\ (t[i].entry \in E => t[i].entry = first)
  PROVE  LET strategy == Paper!Strategy(t, k, E, cost, capital, day)
             bought == {b \in Paper!LotsOf(t, {first}) : t[b].time <= day}
         IN strategy = [cash |-> 100 * capital
                                   - Paper!Total([b \in bought |-> t[b].quantity * t[b].price * (100 + cost)]),
                        shares |-> Paper!Total([b \in bought |-> t[b].quantity])]
<1> DEFINE D == DOMAIN t
           lots == Paper!LotsOf(t, E)
           sales == SalesBy(t, day)
           bought == {b \in Paper!LotsOf(t, {first}) : t[b].time <= day}
<1>1. LotsBy(t, E, day) = bought /\ bought \in SUBSET D
  BY DEF LotsBy, Paper!LotsOf
<1>2. /\ IsFiniteSet(lots) /\ IsFiniteSet(sales) /\ lots \in SUBSET D /\ sales \in SUBSET D
      /\ bought \in SUBSET lots
      /\ Paper!Strategy(t, k, E, cost, capital, day)
           = [cash |-> 100 * capital - SumFunctionOnSet(Spent(t, cost), bought)
                         + SumFunctionOnSet(EarnedBy(t, k, cost, sales), lots),
              shares |-> SumFunctionOnSet(Quantities(t), bought) - SumFunctionOnSet(Drawn(t, k, sales), lots)]
  <2> DEFINE by == LotsBy(t, E, day)
  <2>1. /\ IsFiniteSet(lots) /\ IsFiniteSet(sales) /\ lots \in SUBSET D /\ sales \in SUBSET D
        /\ by \in SUBSET lots
        /\ Paper!Strategy(t, k, E, cost, capital, day)
             = [cash |-> 100 * capital - SumFunctionOnSet(Spent(t, cost), by)
                           + SumFunctionOnSet(EarnedBy(t, k, cost, sales), lots),
                shares |-> SumFunctionOnSet(Quantities(t), by) - SumFunctionOnSet(Drawn(t, k, sales), lots)]
    BY StrategyIs
  <2>2. by = bought
    BY <1>1
  <2> HIDE DEF by, bought, lots
  <2> QED BY <2>1, <2>2
<1>3. BookInv(t, D, k) /\ IsFiniteSet(bought)
  BY <1>2, FS_Subset DEF Whole
<1> HIDE DEF lots, bought
<1>4. \A b \in lots : Drawn(t, k, sales)[b] = 0 /\ EarnedBy(t, k, cost, sales)[b] = 0
  <2> SUFFICES ASSUME NEW b \in lots
               PROVE  Drawn(t, k, sales)[b] = 0 /\ EarnedBy(t, k, cost, sales)[b] = 0
    OBVIOUS
  <2>1. ASSUME NEW i \in sales
        PROVE  Column(t, k, b)[i] = 0 /\ Proceeds(t, k, cost, b)[i] = 0
    <3>1. i \in D /\ b \in D /\ t[i].side = "buy"
      BY <1>2 DEF SalesBy
    <3>2. i \notin Sold(t, D)
      BY <3>1 DEF Sold
    <3>3. k.used[i][b] = 0
      BY <1>3, <3>1, <3>2 DEF BookInv
    <3> DEFINE w == t[i].price * (100 - cost)
    <3>4. w \in Int
      <4>1. t[i].price \in Int
        BY <3>1, LotsAreIntegers
      <4> QED BY <4>1
    <3>5. Column(t, k, b)[i] = k.used[i][b] /\ Proceeds(t, k, cost, b)[i] = k.used[i][b] * w
      BY <3>1 DEF Column, Proceeds
    <3> HIDE DEF w
    <3> QED BY <3>3, <3>4, <3>5
  <2>2. SumFunctionOnSet(Column(t, k, b), sales) = 0 /\ SumFunctionOnSet(Proceeds(t, k, cost, b), sales) = 0
    BY <1>2, <2>1, SumIsNothing
  <2>3. b \in D
    BY <1>2
  <2> QED BY <2>2, <2>3 DEF Drawn, EarnedBy
<1>5. /\ SumFunctionOnSet(Drawn(t, k, sales), lots) = 0
      /\ SumFunctionOnSet(EarnedBy(t, k, cost, sales), lots) = 0
  BY <1>2, <1>4, SumIsNothing
<1>6. /\ Paper!Total([b \in bought |-> t[b].quantity * t[b].price * (100 + cost)])
           = SumFunctionOnSet(Spent(t, cost), bought)
      /\ Paper!Total([b \in bought |-> t[b].quantity]) = SumFunctionOnSet(Quantities(t), bought)
      /\ SumFunctionOnSet(Spent(t, cost), bought) \in Int /\ SumFunctionOnSet(Quantities(t), bought) \in Int
  <2>1. \A b \in bought : Spent(t, cost)[b] \in Int /\ Quantities(t)[b] \in Int
    <3>1. \A b \in D : Spent(t, cost)[b] \in Int /\ Quantities(t)[b] \in Nat
      BY LotsAreIntegers
    <3> QED BY <1>1, <3>1
  <2>2. /\ Paper!Total([b \in bought |-> Spent(t, cost)[b]]) = SumFunctionOnSet(Spent(t, cost), bought)
        /\ Paper!Total([b \in bought |-> Quantities(t)[b]]) = SumFunctionOnSet(Quantities(t), bought)
    BY <1>3, <2>1, TotalOver
  <2>3. /\ [b \in bought |-> Spent(t, cost)[b]] = [b \in bought |-> t[b].quantity * t[b].price * (100 + cost)]
        /\ [b \in bought |-> Quantities(t)[b]] = [b \in bought |-> t[b].quantity]
    BY <1>1 DEF Spent, Quantities
  <2>4. SumFunctionOnSet(Spent(t, cost), bought) \in Int /\ SumFunctionOnSet(Quantities(t), bought) \in Int
    BY <1>3, <2>1, SumIsInt
  <2> QED BY <2>2, <2>3, <2>4
<1>7. /\ 100 * capital - SumFunctionOnSet(Spent(t, cost), bought) + 0
           = 100 * capital - SumFunctionOnSet(Spent(t, cost), bought)
      /\ SumFunctionOnSet(Quantities(t), bought) - 0 = SumFunctionOnSet(Quantities(t), bought)
  BY <1>6
<1> QED BY <1>2, <1>5, <1>6, <1>7 DEF bought

\* What is left in all is what was bought less what was sold.
LEMMA PositionIs ==
  ASSUME NEW t, NEW k, Whole(t, k)
  PROVE  Paper!Total(k.left) = SumFunctionOnSet(Quantities(t), Bought(t, DOMAIN t))
                                 - SumFunctionOnSet(Quantities(t), Sold(t, DOMAIN t))
<1> DEFINE D == DOMAIN t
           B == Bought(t, D)
           S == Sold(t, D)
           drawn == RowSums(k.used, D, D)
<1>1. /\ IsFiniteSet(D) /\ B \in SUBSET D /\ S \in SUBSET D /\ IsFiniteSet(B) /\ IsFiniteSet(S)
      /\ BookInv(t, D, k) /\ ~k.missing
  <2>1. IsFiniteSet(D) /\ B \in SUBSET D /\ S \in SUBSET D
    BY DEF Bought, Sold, Whole, Trades
  <2> QED BY <2>1, FS_Subset DEF Whole
<1>2. \A b \in D : /\ k.left[b] \in Int /\ Quantities(t)[b] \in Int /\ Quantities(t)[b] = t[b].quantity
                   /\ Counts(t, k)[b] \in Int
  <2>1. \A b \in D : /\ k.left[b] \in Nat /\ t[b].quantity \in Nat /\ Quantities(t)[b] = t[b].quantity
                     /\ Counts(t, k)[b] \in Nat
    <3>1. 0 \in Int
      OBVIOUS
    <3> QED BY <3>1, LotsAreIntegers
  <2> QED BY <2>1
<1>3. \A i, b \in D : k.used[i][b] \in Nat /\ Column(t, k, b)[i] = k.used[i][b]
  <2>1. 0 \in Int
    OBVIOUS
  <2> QED BY <2>1, LotsAreIntegers
<1>4. Paper!Total(k.left) = SumFunctionOnSet(k.left, D)
  <2>1. DOMAIN k.left = D
    BY <1>1 DEF BookInv, BookRecords
  <2> QED BY <2>1, ResultsAreSums
<1>5. SumFunctionOnSet(k.left, D) = SumFunctionOnSet(k.left, B)
  <2>1. \A b \in D \ B : k.left[b] = 0
    BY <1>1 DEF BookInv
  <2> QED BY <1>1, <1>2, <2>1, SumOfZeros
<1>6. SumFunctionOnSet(Quantities(t), B) = SumFunctionOnSet(k.left, B) + SumFunctionOnSet(Counts(t, k), B)
  <2>1. \A b \in B : Quantities(t)[b] = k.left[b] + Counts(t, k)[b]
    <3>1. \A b \in B : k.left[b] + Counts(t, k)[b] = t[b].quantity
      BY <1>1 DEF BookInv, Counts
    <3> QED BY <1>1, <1>2, <3>1
  <2> QED BY <1>1, <1>2, <2>1, SumOfSums
<1>7. SumFunctionOnSet(Counts(t, k), D) = SumFunctionOnSet(Counts(t, k), B)
  <2>1. ASSUME NEW b \in D \ B
        PROVE  Counts(t, k)[b] = 0
    <3>1. \A i \in D : Column(t, k, b)[i] = 0
      BY <1>1, <1>3 DEF BookInv
    <3>2. SumFunctionOnSet(Column(t, k, b), D) = 0
      BY <1>1, <3>1, SumIsNothing
    <3> QED BY <3>2 DEF Counts
  <2> QED BY <1>1, <1>2, <2>1, SumOfZeros
<1>8. SumFunctionOnSet(drawn, D) = SumFunctionOnSet(Counts(t, k), D)
  <2>1. Table(k.used, D, D)
    BY <1>3 DEF Table
  <2>2. \A b \in D : ColumnSums(k.used, D, D)[b] = Counts(t, k)[b]
    BY DEF ColumnSums, Counts, Column
  <2>3. SumFunctionOnSet(Counts(t, k), D) = SumFunctionOnSet(ColumnSums(k.used, D, D), D)
    BY <1>1, <1>2, <2>2, SumSame
  <2> QED BY <1>1, <2>1, <2>3, SumByColumns
<1>9. \A i \in D : drawn[i] \in Int /\ (i \in S => drawn[i] = Quantities(t)[i]) /\ (i \notin S => drawn[i] = 0)
  <2> SUFFICES ASSUME NEW i \in D
               PROVE  drawn[i] \in Int /\ (i \in S => drawn[i] = Quantities(t)[i]) /\ (i \notin S => drawn[i] = 0)
    OBVIOUS
  <2> DEFINE u == k.used[i]
  <2>1. drawn[i] = SumFunctionOnSet(u, D)
    BY DEF RowSums
  <2>2. \A b \in D : u[b] \in Int
    BY <1>3
  <2>3. ASSUME i \in S PROVE SumFunctionOnSet(u, D) = Quantities(t)[i]
    BY <1>1, <1>2, <2>3 DEF BookInv
  <2>4. ASSUME i \notin S PROVE \A b \in D : u[b] = 0
    BY <1>1, <2>4 DEF BookInv
  <2> HIDE DEF u, drawn
  <2>5. ASSUME i \notin S PROVE SumFunctionOnSet(u, D) = 0
    BY <1>1, <2>4, <2>5, SumIsNothing
  <2>6. SumFunctionOnSet(u, D) \in Int
    BY <1>1, <2>2, SumIsInt
  <2> QED BY <2>1, <2>3, <2>5, <2>6
<1> HIDE DEF drawn
<1>10. SumFunctionOnSet(drawn, D) = SumFunctionOnSet(drawn, S)
  <2>1. \A i \in D \ S : drawn[i] = 0
    BY <1>9
  <2> QED BY <1>1, <1>9, <2>1, SumOfZeros
<1>11. SumFunctionOnSet(Quantities(t), S) = SumFunctionOnSet(drawn, S)
  <2>1. \A i \in S : Quantities(t)[i] \in Int /\ drawn[i] = Quantities(t)[i]
    BY <1>1, <1>2, <1>9
  <2> QED BY <1>1, <2>1, SumSame
<1>12. SumFunctionOnSet(k.left, B) \in Int /\ SumFunctionOnSet(Counts(t, k), B) \in Int
  <2>1. \A b \in B : k.left[b] \in Int /\ Counts(t, k)[b] \in Int
    BY <1>1, <1>2
  <2> QED BY <1>1, <2>1, SumIsInt
<1> HIDE DEF B, S, D
<1>13. Paper!Total(k.left) = SumFunctionOnSet(Quantities(t), B) - SumFunctionOnSet(Quantities(t), S)
  BY <1>4, <1>5, <1>6, <1>7, <1>8, <1>10, <1>11, <1>12
<1> QED BY <1>13 DEF B, S, D

\* Of some trades, one is the first.
LEMMA FirstIs ==
  ASSUME NEW t, Trades(t), NEW rows \in SUBSET DOMAIN t, rows # {}
  PROVE  \E b \in rows : \A c \in rows \ {b} : Paper!Precedes(Paper!Times(t), b, c)
<1> DEFINE First(s, i) == i \in s /\ \A j \in s \ {i} : Paper!Precedes(Paper!Times(t), i, j)
           T == {s \in SUBSET rows : s = {} \/ \E i \in s : First(s, i)}
<1>1. {} \in T
  OBVIOUS
<1>2. ASSUME NEW s \in T, NEW x \in rows \ s
      PROVE  s \cup {x} \in T
  <2>1. CASE s = {}
    <3>1. First(s \cup {x}, x)
      BY <2>1
    <3> QED BY <3>1
  <2>2. CASE \E i \in s : First(s, i)
    <3>1. PICK i \in s : First(s, i)
      BY <2>2
    <3>2. i \in DOMAIN t /\ x \in DOMAIN t /\ i # x /\ \A j \in s : j \in DOMAIN t
      OBVIOUS
    <3>3. CASE Paper!Precedes(Paper!Times(t), i, x)
      <4>1. First(s \cup {x}, i)
        BY <3>1, <3>3
      <4> QED BY <4>1
    <3>4. CASE Paper!Precedes(Paper!Times(t), x, i)
      <4>1. ASSUME NEW j \in (s \cup {x}) \ {x}
            PROVE  Paper!Precedes(Paper!Times(t), x, j)
        <5>1. j \in DOMAIN t /\ (j = i \/ Paper!Precedes(Paper!Times(t), i, j))
          BY <3>1, <3>2
        <5> QED BY <3>2, <3>4, <5>1, TradesInOrder
      <4>2. First(s \cup {x}, x)
        BY <4>1
      <4> QED BY <4>2
    <3> QED BY <3>2, <3>3, <3>4, TradesInOrder
  <2> QED BY <2>1, <2>2
<1>3. T = SUBSET rows
  <2>1. T \in SUBSET SUBSET rows /\ IsFiniteSet(rows)
    BY TradesAreDated
  <2> HIDE DEF T
  <2> QED BY <1>1, <1>2, <2>1, SetInduction
<1>4. \E i \in rows : First(rows, i)
  BY <1>3
<1> QED BY <1>4

\* A case of the results: an attempt has its own identity and its own order.
IsCase(x) ==
  /\ IsFiniteSet(DOMAIN x.fills) /\ DOMAIN x.fills \subseteq Int /\ x.fills \in [DOMAIN x.fills -> Fills]
  /\ IsFiniteSet(DOMAIN x.attempts) /\ DOMAIN x.attempts \subseteq Int
  /\ x.attempts \in [DOMAIN x.attempts -> Attempts]
  /\ \A a, b \in DOMAIN x.attempts :
       \/ x.attempts[a].id = x.attempts[b].id
       \/ x.attempts[a].order = x.attempts[b].order /\ x.attempts[a].order # NoOrder
       => a = b
  /\ x.held \in Int /\ x.cost \in 0..10 /\ x.capital \in Nat /\ x.bars \subseteq Int

\* The executions as trades.
LEMMA ExecutionsAre ==
  ASSUME NEW x, IsCase(x)
  PROVE  LET t == Paper!Executions(x.attempts, x.fills)
         IN /\ Trades(t) /\ DOMAIN t = DOMAIN x.fills
            /\ \A f \in DOMAIN x.fills :
                 /\ x.fills[f].side \in {"buy", "sell"} /\ x.fills[f].quantity \in Nat \ {0}
                 /\ x.fills[f].price \in Nat /\ x.fills[f].time \in Int /\ x.fills[f].order \in Int
                 /\ t[f].side = x.fills[f].side /\ t[f].quantity = x.fills[f].quantity
                 /\ t[f].price = x.fills[f].price /\ t[f].time = x.fills[f].time
                 /\ t[f].entry = Paper!EntryOf(x.attempts, x.fills[f])
<1> DEFINE t == Paper!Executions(x.attempts, x.fills)
<1>1. DOMAIN t = DOMAIN x.fills
  BY DEF Paper!Executions
<1>2. ASSUME NEW f \in DOMAIN x.fills
      PROVE  /\ x.fills[f].side \in {"buy", "sell"} /\ x.fills[f].quantity \in Nat \ {0}
             /\ x.fills[f].price \in Nat /\ x.fills[f].time \in Int /\ x.fills[f].order \in Int
  <2>1. x.fills[f] \in Fills
    BY DEF IsCase
  <2> QED BY <2>1 DEF Fills
<1>3. ASSUME NEW f \in DOMAIN x.fills
      PROVE  /\ t[f].side = x.fills[f].side /\ t[f].quantity = x.fills[f].quantity
             /\ t[f].price = x.fills[f].price /\ t[f].time = x.fills[f].time
             /\ t[f].entry = Paper!EntryOf(x.attempts, x.fills[f])
  <2>1. t[f] = [side |-> x.fills[f].side, quantity |-> x.fills[f].quantity, price |-> x.fills[f].price,
                time |-> x.fills[f].time, entry |-> Paper!EntryOf(x.attempts, x.fills[f])]
    BY DEF Paper!Executions
  <2> QED BY <2>1
<1> HIDE DEF t
<1>4. Trades(t)
  <2>1. IsFiniteSet(DOMAIN t) /\ DOMAIN t \subseteq Int
    BY <1>1 DEF IsCase
  <2>2. \A i \in DOMAIN t : /\ t[i].side \in {"buy", "sell"} /\ t[i].quantity \in Nat
                            /\ t[i].price \in Int /\ t[i].time \in Int
    BY <1>1, <1>2, <1>3
  <2> QED BY <2>1, <2>2 DEF Trades
<1> QED BY <1>1, <1>2, <1>3, <1>4 DEF t

\* What the curve says of a day.
LEMMA CurveIs ==
  ASSUME NEW t, NEW k, Whole(t, k), NEW cost, NEW capital, NEW bars, NEW E,
         Paper!Curve(t, k, E, cost, capital, bars) # Refused,
         NEW d \in DOMAIN Paper!Curve(t, k, E, cost, capital, bars)
  PROVE  LET point == Paper!Curve(t, k, E, cost, capital, bars)[d]
             first == t[Paper!Opening(t, E)].entry
         IN /\ d \in bars /\ first \in E
            /\ point.strategy = Paper!Strategy(t, k, E, cost, capital, d)
            /\ point.hold = Paper!Hold(t, E, cost, capital, d)
<1> DEFINE curve == Paper!Curve(t, k, E, cost, capital, bars)
           days == {c \in bars : c >= t[Paper!Opening(t, E)].time}
           lots == Paper!LotsOf(t, E)
           points == [c \in days |-> [strategy |-> Paper!Strategy(t, k, E, cost, capital, c),
                                      hold |-> Paper!Hold(t, E, cost, capital, c)]]
<1>1. lots # {} /\ curve = points
  BY DEF Paper!Curve
<1>2. d \in days
  BY <1>1
<1>3. /\ points[d].strategy = Paper!Strategy(t, k, E, cost, capital, d)
      /\ points[d].hold = Paper!Hold(t, E, cost, capital, d)
  BY <1>2
<1>4. Paper!Opening(t, E) \in lots
  <2>1. lots \in SUBSET DOMAIN t /\ Trades(t)
    BY DEF Paper!LotsOf, Whole
  <2>2. \E b \in lots : \A c \in lots \ {b} : Paper!Precedes(Paper!Times(t), b, c)
    BY <1>1, <2>1, FirstIs
  <2> QED BY <2>2 DEF Paper!Opening
<1>5. t[Paper!Opening(t, E)].entry \in E
  BY <1>4 DEF Paper!LotsOf
<1> QED BY <1>1, <1>2, <1>3, <1>5

LEMMA RowsAddUpFor ==
  ASSUME NEW x, IsCase(x)
  PROVE  Paper!RowsAddUp(x)
<1> DEFINE answer == Paper!Results(x.attempts, x.fills, x.held, x.cost)
           t == Paper!Executions(x.attempts, x.fills)
           k == Paper!Fifo(t)
           E == DOMAIN answer.rows \cap x.entries
           curve == Paper!Curve(t, k, E, x.cost, x.capital, x.bars)
           traded(side) == Paper!Total([f \in {g \in DOMAIN x.fills : x.fills[g].side = side} |-> x.fills[f].quantity])
<1>1. /\ Trades(t) /\ DOMAIN t = DOMAIN x.fills
      /\ \A f \in DOMAIN x.fills : t[f].side = x.fills[f].side /\ t[f].quantity = x.fills[f].quantity
  BY ExecutionsAre
<1>2. x.cost \in Int /\ x.capital \in Int /\ x.bars \subseteq Int
  BY DEF IsCase
<1> SUFFICES ASSUME answer # Refused
             PROVE  /\ answer.reconciled <=> traded("buy") - traded("sell") = x.held
                    /\ \A e \in DOMAIN answer.rows :
                         answer.rows[e].left + answer.rows[e].closed = answer.rows[e].bought
                    /\ \A day \in x.bars : Paper!Strategy(t, k, E, x.cost, x.capital, day).shares >= 0
                    /\ curve # Refused =>
                         \A d \in DOMAIN curve :
                           /\ (\A f \in DOMAIN x.fills : x.fills[f].time <= d) =>
                                /\ curve[d].strategy.cash
                                     = 100 * x.capital
                                         + Paper!Total([e \in E |-> answer.rows[e].net
                                                                      - answer.rows[e].basis * (100 + x.cost)])
                                /\ curve[d].strategy.shares = Paper!Total([e \in E |-> answer.rows[e].left])
                           /\ (\A f \in DOMAIN t : t[f].time <= d =>
                                 t[f].side = "buy" /\ (t[f].entry \in E => t[f].entry = t[Paper!Opening(t, E)].entry))
                                => curve[d].strategy = curve[d].hold
  BY DEF Paper!RowsAddUp
<1>3. answer = Paper!Answer(t, x.held, x.cost)
  BY DEF Paper!Results
<1>4. /\ ~k.missing
      /\ answer.rows = [e \in Paper!Entries(t) |-> Paper!Row(t, k, e, x.cost)]
      /\ answer.reconciled <=> Paper!Total(k.left) = x.held
  <2> DEFINE given == [rows |-> [e \in Paper!Entries(t) |-> Paper!Row(t, k, e, x.cost)],
                       reconciled |-> Paper!Total(k.left) = x.held]
  <2>1. answer = IF k.missing THEN Refused ELSE given
    BY <1>3 DEF Paper!Answer
  <2>2. ~k.missing /\ answer = given
    BY <2>1
  <2> HIDE DEF answer, k, t
  <2> QED BY <2>2
<1>5. Whole(t, k)
  <2>1. BookInv(t, DOMAIN t, k)
    BY <1>1, BookIsKept DEF Paper!Fifo
  <2> QED BY <1>1, <1>4, <2>1 DEF Whole
<1>6. E \in SUBSET Paper!Entries(t) /\ DOMAIN answer.rows = Paper!Entries(t)
  BY <1>4
<1>7. \A e \in Paper!Entries(t) : answer.rows[e] = Paper!Row(t, k, e, x.cost)
  BY <1>4
<1> DEFINE first == t[Paper!Opening(t, E)].entry
<1> HIDE DEF answer, t, k, E
<1>8. \A b \in DOMAIN t : /\ k.left[b] \in Int /\ Counts(t, k)[b] \in Int /\ Quantities(t)[b] \in Int
                          /\ Quantities(t)[b] = t[b].quantity /\ t[b].quantity \in Nat
  <2>1. \A b \in DOMAIN t : /\ k.left[b] \in Nat /\ Counts(t, k)[b] \in Nat
                            /\ Quantities(t)[b] = t[b].quantity /\ t[b].quantity \in Nat
    BY <1>2, <1>5, LotsAreIntegers
  <2> QED BY <2>1
<1>9. answer.reconciled <=> traded("buy") - traded("sell") = x.held
  <2>1. ASSUME NEW side, NEW S, S = {f \in DOMAIN t : t[f].side = side}
        PROVE  traded(side) = SumFunctionOnSet(Quantities(t), S)
    <3>1. {g \in DOMAIN x.fills : x.fills[g].side = side} = S /\ S \in SUBSET DOMAIN t /\ IsFiniteSet(S)
      <4>1. S \in SUBSET DOMAIN t
        BY <2>1
      <4> QED BY <1>1, <2>1, <4>1, TradesAreDated
    <3>2. \A f \in S : Quantities(t)[f] = x.fills[f].quantity /\ Quantities(t)[f] \in Int
      BY <1>1, <1>8, <3>1
    <3>3. [f \in S |-> x.fills[f].quantity] = [f \in S |-> Quantities(t)[f]]
      BY <3>2
    <3>4. Paper!Total([f \in S |-> Quantities(t)[f]]) = SumFunctionOnSet(Quantities(t), S)
      BY <3>1, <3>2, TotalOver
    <3> QED BY <3>1, <3>3, <3>4
  <2>2. /\ traded("buy") = SumFunctionOnSet(Quantities(t), Bought(t, DOMAIN t))
        /\ traded("sell") = SumFunctionOnSet(Quantities(t), Sold(t, DOMAIN t))
    BY <2>1 DEF Bought, Sold
  <2>3. Paper!Total(k.left) = SumFunctionOnSet(Quantities(t), Bought(t, DOMAIN t))
                                - SumFunctionOnSet(Quantities(t), Sold(t, DOMAIN t))
    BY <1>5, PositionIs
  <2> QED BY <1>4, <2>2, <2>3
<1>10. ASSUME NEW e \in DOMAIN answer.rows
       PROVE  answer.rows[e].left + answer.rows[e].closed = answer.rows[e].bought
  <2> DEFINE lots == Paper!LotsOf(t, {e})
  <2>1. {e} \in SUBSET Paper!Entries(t)
    BY <1>6
  <2>2. IsFiniteSet(lots) /\ lots \in SUBSET Bought(t, DOMAIN t)
    BY <1>1, <1>8, <2>1, EntriesAddUp
  <2>3. /\ answer.rows[e].bought = SumFunctionOnSet(Quantities(t), lots)
        /\ answer.rows[e].left = SumFunctionOnSet(k.left, lots)
        /\ answer.rows[e].closed = SumFunctionOnSet(Counts(t, k), lots)
    <3> DEFINE row == Paper!Row(t, k, e, x.cost)
    <3>1. answer.rows[e] = row
      BY <1>6, <1>7
    <3>2. x.cost \in Int
      BY <1>2
    <3>3. /\ row.bought = SumFunctionOnSet(Quantities(t), lots)
          /\ row.left = SumFunctionOnSet(k.left, lots)
          /\ row.closed = SumFunctionOnSet(Counts(t, k), lots)
      BY <1>5, <3>2, RowIsSums
    <3> HIDE DEF row, lots
    <3> QED BY <3>1, <3>3
  <2>4. \A b \in lots : /\ k.left[b] \in Int /\ Counts(t, k)[b] \in Int
                        /\ Quantities(t)[b] = k.left[b] + Counts(t, k)[b]
    <3>1. \A b \in lots : b \in DOMAIN t /\ b \in Bought(t, DOMAIN t)
      BY <2>2 DEF Bought
    <3>2. \A b \in lots : k.left[b] + Counts(t, k)[b] = t[b].quantity
      BY <1>2, <1>5, <3>1, LotIsWorth
    <3> QED BY <1>8, <3>1, <3>2
  <2> HIDE DEF lots
  <2> QED BY <2>2, <2>3, <2>4, SumOfSums
<1>11. ASSUME NEW day \in x.bars
       PROVE  Paper!Strategy(t, k, E, x.cost, x.capital, day).shares >= 0
  <2>1. day \in Int
    BY <1>2
  <2> QED BY <1>2, <1>5, <2>1, NothingIsSoldBefore
<1>12. ASSUME curve # Refused, NEW d \in DOMAIN curve
       PROVE  /\ curve[d].strategy = Paper!Strategy(t, k, E, x.cost, x.capital, d)
              /\ curve[d].hold = Paper!Hold(t, E, x.cost, x.capital, d) /\ first \in E
  BY <1>5, <1>12, CurveIs
<1>13. ASSUME NEW d, \A f \in DOMAIN x.fills : x.fills[f].time <= d
       PROVE  LET strategy == Paper!Strategy(t, k, E, x.cost, x.capital, d)
              IN /\ strategy.cash = 100 * x.capital
                      + Paper!Total([e \in E |-> answer.rows[e].net - answer.rows[e].basis * (100 + x.cost)])
                 /\ strategy.shares = Paper!Total([e \in E |-> answer.rows[e].left])
  <2> DEFINE strategy == Paper!Strategy(t, k, E, x.cost, x.capital, d)
             kept == Kept(t, k, x.cost)
             keptBy == [e \in E |-> SumFunctionOnSet(kept, Paper!LotsOf(t, {e}))]
             leftBy == [e \in E |-> SumFunctionOnSet(k.left, Paper!LotsOf(t, {e}))]
  <2>1. \A i \in DOMAIN t : t[i].time <= d
    BY <1>13, ExecutionsAre DEF t
  <2>2. /\ strategy.cash = 100 * x.capital + SumFunctionOnSet(kept, Paper!LotsOf(t, E))
        /\ strategy.shares = SumFunctionOnSet(k.left, Paper!LotsOf(t, E))
    BY <1>2, <1>5, <2>1, StrategyAtTheEnd
  <2>3. \A b \in DOMAIN t : kept[b] \in Int
    <3>1. {} \in SUBSET DOMAIN t
      OBVIOUS
    <3> QED BY <1>2, <1>5, <3>1, EntryIsKept
  <2> HIDE DEF kept
  <2>4. /\ SumFunctionOnSet(keptBy, E) = SumFunctionOnSet(kept, Paper!LotsOf(t, E))
        /\ SumFunctionOnSet(leftBy, E) = SumFunctionOnSet(k.left, Paper!LotsOf(t, E))
    BY <1>1, <1>6, <1>8, <2>3, EntriesAddUp
  <2>5. ASSUME NEW e \in E
        PROVE  /\ answer.rows[e].net - answer.rows[e].basis * (100 + x.cost) = keptBy[e]
               /\ answer.rows[e].left = leftBy[e]
    <3> DEFINE lots == Paper!LotsOf(t, {e})
    <3>1. answer.rows[e] = Paper!Row(t, k, e, x.cost)
      BY <1>6, <1>7
    <3>2. /\ answer.rows[e].left = SumFunctionOnSet(k.left, lots)
          /\ answer.rows[e].basis = SumFunctionOnSet(Basis(t, k), lots)
          /\ answer.rows[e].net = SumFunctionOnSet(Net(t, k, x.cost), lots)
      BY <1>2, <1>5, <3>1, RowIsSums
    <3>3. lots \in SUBSET DOMAIN t
      BY DEF Paper!LotsOf
    <3>4. SumFunctionOnSet(kept, lots)
            = SumFunctionOnSet(Net(t, k, x.cost), lots) - SumFunctionOnSet(Basis(t, k), lots) * (100 + x.cost)
      <4> DEFINE cost == x.cost
      <4>1. cost \in Int
        BY <1>2
      <4> HIDE DEF cost, lots
      <4>2. SumFunctionOnSet(Kept(t, k, cost), lots)
              = SumFunctionOnSet(Net(t, k, cost), lots) - SumFunctionOnSet(Basis(t, k), lots) * (100 + cost)
        BY <1>5, <3>3, <4>1, EntryIsKept
      <4> QED BY <4>2 DEF kept, cost
    <3> QED BY <3>2, <3>4
  <2>6. /\ [e \in E |-> answer.rows[e].net - answer.rows[e].basis * (100 + x.cost)] = [e \in E |-> keptBy[e]]
        /\ [e \in E |-> answer.rows[e].left] = [e \in E |-> leftBy[e]]
    <3> HIDE DEF keptBy, leftBy
    <3> QED BY <2>5
  <2>7. keptBy = [e \in E |-> keptBy[e]] /\ leftBy = [e \in E |-> leftBy[e]] /\ DOMAIN keptBy = E /\ DOMAIN leftBy = E
    OBVIOUS
  <2> HIDE DEF keptBy, leftBy, strategy
  <2>8. Paper!Total(keptBy) = SumFunctionOnSet(keptBy, E) /\ Paper!Total(leftBy) = SumFunctionOnSet(leftBy, E)
    BY <2>7, ResultsAreSums
  <2>9. /\ Paper!Total([e \in E |-> answer.rows[e].net - answer.rows[e].basis * (100 + x.cost)])
             = SumFunctionOnSet(kept, Paper!LotsOf(t, E))
        /\ Paper!Total([e \in E |-> answer.rows[e].left]) = SumFunctionOnSet(k.left, Paper!LotsOf(t, E))
    BY <2>4, <2>6, <2>7, <2>8
  <2> QED BY <2>2, <2>9 DEF strategy
<1>14. ASSUME NEW d, first \in E,
              \A f \in DOMAIN t : t[f].time <= d => t[f].side = "buy" /\ (t[f].entry \in E => t[f].entry = first)
       PROVE  Paper!Strategy(t, k, E, x.cost, x.capital, d) = Paper!Hold(t, E, x.cost, x.capital, d)
  <2> HIDE DEF first
  <2>1. Paper!Strategy(t, k, E, x.cost, x.capital, d)
          = LET bought == {b \in Paper!LotsOf(t, {first}) : t[b].time <= d}
            IN [cash |-> 100 * x.capital
                           - Paper!Total([b \in bought |-> t[b].quantity * t[b].price * (100 + x.cost)]),
                shares |-> Paper!Total([b \in bought |-> t[b].quantity])]
    BY <1>2, <1>5, <1>14, StrategyHolds
  <2> QED BY <2>1 DEF Paper!Hold, first
<1> HIDE DEF curve, first
<1> QED BY <1>9, <1>10, <1>11, <1>12, <1>13, <1>14 DEF first

-----------------------------------------------------------------------------
(* Part 14: the two readings.  Trades of different hours under other names    *)
(* are kept by the same book, and give the same rows.                        *)

Corresponds(r, t, u) ==
  /\ Trades(t) /\ Trades(u) /\ Renames(r, DOMAIN t, DOMAIN u)
  /\ \A i \in DOMAIN t :
       /\ u[r[i]].side = t[i].side /\ u[r[i]].quantity = t[i].quantity
       /\ u[r[i]].price = t[i].price /\ u[r[i]].time = t[i].time
       /\ t[i].side = "buy" => u[r[i]].entry = t[i].entry
  /\ \A i, j \in DOMAIN t : t[i].time = t[j].time => i = j

Image(r, s) == {r[i] : i \in s}

\* The order is the same.
LEMMA SameOrder ==
  ASSUME NEW r, NEW t, NEW u, Corresponds(r, t, u)
  PROVE  \A i, j \in DOMAIN t : /\ r[i] \in DOMAIN u
                                /\ r[i] = r[j] => i = j
                                /\ Paper!Precedes(Paper!Times(t), i, j)
                                     <=> Paper!Precedes(Paper!Times(u), r[i], r[j])
<1> SUFFICES ASSUME NEW i \in DOMAIN t, NEW j \in DOMAIN t
             PROVE  /\ r[i] \in DOMAIN u
                    /\ r[i] = r[j] => i = j
                    /\ Paper!Precedes(Paper!Times(t), i, j) <=> Paper!Precedes(Paper!Times(u), r[i], r[j])
  OBVIOUS
<1>1. r[i] \in DOMAIN u /\ r[j] \in DOMAIN u /\ (r[i] = r[j] => i = j)
  BY DEF Corresponds, Renames
<1>2. /\ Paper!Times(u)[r[i]] = t[i].time /\ Paper!Times(u)[r[j]] = t[j].time
      /\ Paper!Times(t)[i] = t[i].time /\ Paper!Times(t)[j] = t[j].time
  BY <1>1 DEF Corresponds, Paper!Times
<1>3. i \in Int /\ j \in Int /\ r[i] \in Int /\ r[j] \in Int /\ t[i].time \in Int /\ t[j].time \in Int
  BY <1>1 DEF Corresponds, Trades
<1>4. t[i].time = t[j].time => i = j
  BY DEF Corresponds
<1> DEFINE a == t[i].time
           b == t[j].time
<1>5. /\ Paper!Precedes(Paper!Times(t), i, j) <=> a < b \/ (a = b /\ i < j)
      /\ Paper!Precedes(Paper!Times(u), r[i], r[j]) <=> a < b \/ (a = b /\ r[i] < r[j])
  BY <1>2 DEF Paper!Precedes
<1>6. a = b /\ i < j => FALSE
  BY <1>3, <1>4
<1>7. a = b /\ r[i] < r[j] => FALSE
  <2>1. ASSUME a = b PROVE r[i] = r[j]
    BY <1>4, <2>1
  <2> HIDE DEF a, b
  <2> QED BY <1>3, <2>1
<1> HIDE DEF a, b
<1> QED BY <1>1, <1>5, <1>6, <1>7

\* The last of some trades is the last of their images.
LEMMA SameLast ==
  ASSUME NEW r, NEW t, NEW u, Corresponds(r, t, u), NEW s \in SUBSET DOMAIN t, s # {}
  PROVE  /\ Image(r, s) \in SUBSET DOMAIN u /\ Image(r, s) # {}
         /\ LastTrade(u, Image(r, s)) = r[LastTrade(t, s)]
         /\ Image(r, s) \ {r[LastTrade(t, s)]} = Image(r, s \ {LastTrade(t, s)})
<1> DEFINE z == LastTrade(t, s)
           w == LastTrade(u, Image(r, s))
<1>1. Trades(t) /\ Trades(u)
  BY DEF Corresponds
<1>2. Image(r, s) \in SUBSET DOMAIN u /\ Image(r, s) # {}
  BY SameOrder DEF Image
<1>3. z \in s /\ \A j \in s \ {z} : Paper!Precedes(Paper!Times(t), j, z)
  BY <1>1, LastOfTrades
<1>4. w \in Image(r, s) /\ \A j \in Image(r, s) \ {w} : Paper!Precedes(Paper!Times(u), j, w)
  BY <1>1, <1>2, LastOfTrades
<1> HIDE DEF z, w
<1>5. PICK y \in s : w = r[y]
  BY <1>4 DEF Image
<1>6. y = z
  <2> SUFFICES ASSUME y # z PROVE FALSE
    OBVIOUS
  <2>1. y \in DOMAIN t /\ z \in DOMAIN t /\ r[z] \in Image(r, s)
    BY <1>3 DEF Image
  <2>2. Paper!Precedes(Paper!Times(t), y, z)
    BY <1>3
  <2>3. r[z] # w
    BY <1>5, <2>1, SameOrder
  <2>4. Paper!Precedes(Paper!Times(u), r[z], r[y])
    BY <1>4, <1>5, <2>1, <2>3
  <2>5. Paper!Precedes(Paper!Times(t), z, y)
    BY <2>1, <2>4, SameOrder
  <2> QED BY <1>1, <2>1, <2>2, <2>5, TradesInOrder
<1>7. Image(r, s) \ {r[z]} = Image(r, s \ {z})
  <2>1. \A j \in s : j # z => r[j] # r[z]
    <3>1. \A j \in s : j \in DOMAIN t
      OBVIOUS
    <3> QED BY <1>3, <3>1, SameOrder
  <2> QED BY <2>1 DEF Image
<1> QED BY <1>2, <1>5, <1>6, <1>7 DEF z, w

\* Two books are the same under other names.
Matches(r, t, k, n) ==
  /\ n.missing = k.missing
  /\ \A b \in DOMAIN t : n.left[r[b]] = k.left[b]
  /\ \A i, b \in DOMAIN t : n.used[r[i]][r[b]] = k.used[i][b]

\* The totals of what is left.
LEMMA SameTotals ==
  ASSUME NEW r, NEW t, NEW u, Corresponds(r, t, u), NEW k \in BookRecords(t), NEW n \in BookRecords(u),
         Matches(r, t, k, n)
  PROVE  Paper!Total(k.left) = Paper!Total(n.left) /\ Paper!Total(k.left) \in Int
<1>1. /\ k.left \in [DOMAIN t -> Nat] /\ n.left \in [DOMAIN u -> Nat] /\ IsFiniteSet(DOMAIN t)
      /\ Renames(r, DOMAIN t, DOMAIN u)
  BY DEF BookRecords, Corresponds, Trades
<1>2. Carries(r, DOMAIN t, k.left, n.left)
  BY <1>1 DEF Carries, Matches
<1>3. SumFunctionOnSet(k.left, DOMAIN t) = SumFunctionOnSet(n.left, DOMAIN u)
  BY <1>1, <1>2, SumRenamed
<1>4. SumFunctionOnSet(k.left, DOMAIN t) \in Int
  <2>1. \A b \in DOMAIN t : k.left[b] \in Int
    BY <1>1
  <2> QED BY <1>1, <2>1, SumIsInt
<1>5. DOMAIN k.left = DOMAIN t /\ DOMAIN n.left = DOMAIN u
  BY <1>1
<1> QED BY <1>3, <1>4, <1>5, ResultsAreSums

\* A sale uses the same of each lot.
LEMMA SameUses ==
  ASSUME NEW r, NEW t, NEW u, Corresponds(r, t, u), NEW k \in BookRecords(t), NEW n \in BookRecords(u),
         Matches(r, t, k, n), NEW i \in DOMAIN t, NEW b \in DOMAIN t
  PROVE  Paper!Used(u, n.left, r[i])[r[b]] = Paper!Used(t, k.left, i)[b]
<1> DEFINE older == {c \in DOMAIN t : Paper!Precedes(Paper!Times(t), c, b)}
           old == {c \in DOMAIN u : Paper!Precedes(Paper!Times(u), c, r[b])}
<1>1. /\ k.left \in [DOMAIN t -> Nat] /\ n.left \in [DOMAIN u -> Nat]
      /\ Renames(r, DOMAIN t, DOMAIN u) /\ Trades(t) /\ Trades(u)
      /\ u[r[i]].quantity = t[i].quantity /\ n.left[r[b]] = k.left[b]
  BY DEF BookRecords, Corresponds, Matches
<1>2. older \in SUBSET DOMAIN t /\ old \in SUBSET DOMAIN u /\ IsFiniteSet(older) /\ IsFiniteSet(old)
  <2>1. older \in SUBSET DOMAIN t /\ old \in SUBSET DOMAIN u
    OBVIOUS
  <2> HIDE DEF older, old
  <2> QED BY <1>1, <2>1, TradesAreDated
<1>3. Renames(r, older, old)
  <2>1. \A x, y \in older : r[x] = r[y] => x = y
    BY <1>1 DEF Renames
  <2>2. \A x \in older : r[x] \in old
    BY SameOrder
  <2>3. ASSUME NEW y \in old
        PROVE  \E x \in older : y = r[x]
    <3>1. PICK x \in DOMAIN t : y = r[x]
      BY <1>1 DEF Renames
    <3>2. Paper!Precedes(Paper!Times(t), x, b)
      BY <3>1, SameOrder
    <3> QED BY <3>1, <3>2
  <2> HIDE DEF older, old
  <2> QED BY <2>1, <2>2, <2>3 DEF Renames
<1> HIDE DEF older, old
<1>4. /\ \A c \in older : k.left[c] \in Int /\ n.left[r[c]] = k.left[c]
      /\ \A c \in old : n.left[c] \in Int
  BY <1>1, <1>2 DEF Matches
<1>5. Carries(r, older, k.left, n.left)
  BY <1>4 DEF Carries
<1>6. SumFunctionOnSet(k.left, older) = SumFunctionOnSet(n.left, old)
  BY <1>2, <1>3, <1>5, SumRenamed
<1>7. /\ Paper!Total([c \in older |-> k.left[c]]) = SumFunctionOnSet(k.left, older)
      /\ Paper!Total([c \in old |-> n.left[c]]) = SumFunctionOnSet(n.left, old)
  BY <1>2, <1>4, TotalOver
<1>8. r[b] \in DOMAIN u
  BY <1>1 DEF Renames
<1>9. Paper!Used(t, k.left, i)[b]
        = Paper!Smaller(k.left[b], t[i].quantity
                          - Paper!Smaller(t[i].quantity, Paper!Total([c \in older |-> k.left[c]])))
  BY DEF Paper!Used, older
<1>10. Paper!Used(u, n.left, r[i])[r[b]]
         = Paper!Smaller(n.left[r[b]], u[r[i]].quantity
                           - Paper!Smaller(u[r[i]].quantity, Paper!Total([c \in old |-> n.left[c]])))
  BY <1>8 DEF Paper!Used, old
<1> QED BY <1>1, <1>6, <1>7, <1>9, <1>10

\* The books stay the same with the same trade.
LEMMA SameTaken ==
  ASSUME NEW r, NEW t, NEW u, Corresponds(r, t, u), NEW k \in BookRecords(t), NEW n \in BookRecords(u),
         Matches(r, t, k, n), NEW z \in DOMAIN t
  PROVE  Matches(r, t, Paper!Taken(t, k, z), Paper!Taken(u, n, r[z]))
<1> DEFINE D == DOMAIN t
           w == r[z]
           v == Paper!Used(t, k.left, z)
           y == Paper!Used(u, n.left, w)
           kk == Paper!Taken(t, k, z)
           nn == Paper!Taken(u, n, w)
<1>1. /\ k.left \in [D -> Nat] /\ n.left \in [DOMAIN u -> Nat]
      /\ k.used \in [D -> [D -> Nat]] /\ n.used \in [DOMAIN u -> [DOMAIN u -> Nat]]
  BY DEF BookRecords
<1>2. \A b \in D : r[b] \in DOMAIN u /\ (r[b] = w => b = z)
  BY SameOrder
<1>3. w \in DOMAIN u /\ u[w].side = t[z].side /\ u[w].quantity = t[z].quantity
  BY <1>2 DEF Corresponds
<1>4. /\ n.missing = k.missing
      /\ \A b \in D : n.left[r[b]] = k.left[b]
      /\ \A i, b \in D : n.used[r[i]][r[b]] = k.used[i][b]
  BY DEF Matches
<1>5. Paper!Total(k.left) = Paper!Total(n.left)
  BY SameTotals
<1>6. \A b \in D : y[r[b]] = v[b]
  BY SameUses
<1>7. CASE k.missing
  BY <1>4, <1>7 DEF Paper!Taken, Matches
<1>8. CASE ~k.missing /\ t[z].side = "buy"
  <2>1. kk = [k EXCEPT !.left[z] = t[z].quantity] /\ nn = [n EXCEPT !.left[w] = u[w].quantity]
    BY <1>3, <1>4, <1>8 DEF Paper!Taken
  <2>2. /\ kk.left = [k.left EXCEPT ![z] = t[z].quantity] /\ kk.used = k.used /\ kk.missing = k.missing
        /\ nn.left = [n.left EXCEPT ![w] = u[w].quantity] /\ nn.used = n.used /\ nn.missing = n.missing
    BY <2>1 DEF BookRecords
  <2>3. \A b \in D : nn.left[r[b]] = kk.left[b]
    <3> SUFFICES ASSUME NEW b \in D PROVE nn.left[r[b]] = kk.left[b]
      OBVIOUS
    <3> HIDE DEF kk, nn
    <3>1. CASE b = z
      BY <1>1, <1>3, <2>2, <3>1
    <3>2. CASE b # z
      <4>1. r[b] # w /\ r[b] \in DOMAIN u
        BY <1>2, <3>2
      <4>2. nn.left[r[b]] = n.left[r[b]] /\ kk.left[b] = k.left[b]
        <5> HIDE DEF w
        <5> QED BY <1>1, <2>2, <3>2, <4>1
      <4> QED BY <1>4, <4>2
    <3> QED BY <3>1, <3>2
  <2> HIDE DEF kk, nn
  <2>4. Matches(r, t, kk, nn)
    BY <1>4, <2>2, <2>3 DEF Matches
  <2> QED BY <2>4 DEF kk, nn
<1>9. CASE ~k.missing /\ t[z].side # "buy" /\ Paper!Total(k.left) < t[z].quantity
  <2>1. kk = [k EXCEPT !.missing = TRUE] /\ nn = [n EXCEPT !.missing = TRUE]
    BY <1>3, <1>4, <1>5, <1>9 DEF Paper!Taken
  <2>2. /\ kk.left = k.left /\ kk.used = k.used /\ kk.missing
        /\ nn.left = n.left /\ nn.used = n.used /\ nn.missing
        /\ kk.missing = TRUE /\ nn.missing = TRUE
    BY <2>1 DEF BookRecords
  <2> HIDE DEF kk, nn
  <2>3. Matches(r, t, kk, nn)
    BY <1>4, <2>2 DEF Matches
  <2> QED BY <2>3 DEF kk, nn
<1>10. CASE ~k.missing /\ t[z].side # "buy" /\ ~(Paper!Total(k.left) < t[z].quantity)
  <2>1. /\ kk = [left |-> [b \in D |-> k.left[b] - v[b]], used |-> [k.used EXCEPT ![z] = v], missing |-> FALSE]
        /\ nn = [left |-> [b \in DOMAIN u |-> n.left[b] - y[b]], used |-> [n.used EXCEPT ![w] = y], missing |-> FALSE]
    BY <1>3, <1>4, <1>5, <1>10 DEF Paper!Taken
  <2> HIDE DEF kk, nn, v, y, w
  <2>2. /\ \A b \in D : kk.left[b] = k.left[b] - v[b]
        /\ \A b \in DOMAIN u : nn.left[b] = n.left[b] - y[b]
        /\ kk.used[z] = v /\ nn.used[w] = y
        /\ \A i \in D \ {z} : kk.used[i] = k.used[i]
        /\ \A i \in DOMAIN u \ {w} : nn.used[i] = n.used[i]
        /\ kk.missing = FALSE /\ nn.missing = FALSE
    BY <1>1, <1>3, <2>1
  <2>3. \A b \in D : nn.left[r[b]] = kk.left[b]
    BY <1>2, <1>4, <1>6, <2>2
  <2>4. \A i, b \in D : nn.used[r[i]][r[b]] = kk.used[i][b]
    <3> SUFFICES ASSUME NEW i \in D, NEW b \in D PROVE nn.used[r[i]][r[b]] = kk.used[i][b]
      OBVIOUS
    <3>1. CASE i = z
      BY <1>6, <2>2, <3>1 DEF w
    <3>2. CASE i # z
      <4>1. r[i] \in DOMAIN u \ {w} /\ i \in D \ {z}
        BY <1>2, <3>2
      <4> QED BY <1>4, <2>2, <4>1
    <3> QED BY <3>1, <3>2
  <2>5. Matches(r, t, kk, nn)
    BY <2>2, <2>3, <2>4 DEF Matches
  <2> QED BY <2>5 DEF kk, nn, w
<1> QED BY <1>7, <1>8, <1>9, <1>10

\* The books of corresponding trades are the same.
LEMMA SameBooks ==
  ASSUME NEW r, NEW t, NEW u, Corresponds(r, t, u)
  PROVE  \A s \in SUBSET DOMAIN t : Matches(r, t, Paper!Book(t, s), Paper!Book(u, Image(r, s)))
<1> DEFINE Same(s) == Matches(r, t, Paper!Book(t, s), Paper!Book(u, Image(r, s)))
           N == {n \in Nat : \A s \in SUBSET DOMAIN t : Cardinality(s) = n => Same(s)}
<1>0. Trades(t) /\ Trades(u)
  BY DEF Corresponds
<1>1. \A s \in SUBSET DOMAIN t : IsFiniteSet(s) /\ Cardinality(s) \in Nat
  BY <1>0, TradesAreDated
<1>2. 0 \in N
  <2>1. ASSUME NEW s \in SUBSET DOMAIN t, Cardinality(s) = 0
        PROVE  s = {}
    BY <1>1, <2>1, FS_EmptySet
  <2>2. Image(r, {}) = {} /\ Paper!Book(t, {}) = Paper!Start(t) /\ Paper!Book(u, {}) = Paper!Start(u)
    <3>1. {} \in SUBSET DOMAIN t /\ {} \in SUBSET DOMAIN u
      OBVIOUS
    <3> QED BY <1>0, <3>1, BookUnfolds DEF Image
  <2>3. \A b \in DOMAIN t : r[b] \in DOMAIN u
    BY SameOrder
  <2>4. Matches(r, t, Paper!Start(t), Paper!Start(u))
    BY <2>3 DEF Matches, Paper!Start
  <2>5. Same({})
    BY <2>2, <2>4
  <2> HIDE DEF Same
  <2> QED BY <2>1, <2>5
<1>3. ASSUME NEW n \in N
      PROVE  n + 1 \in N
  <2> SUFFICES ASSUME NEW s \in SUBSET DOMAIN t, Cardinality(s) = n + 1
               PROVE  Same(s)
    OBVIOUS
  <2> DEFINE z == LastTrade(t, s)
             p == s \ {z}
             k == Paper!Book(t, p)
             m == Paper!Book(u, Image(r, p))
  <2>1. s # {} /\ n \in Nat
    BY <1>1, FS_EmptySet
  <2>2. z \in s /\ Cardinality(p) = n /\ z \in DOMAIN t
    BY <1>0, <2>1, LastOfTrades
  <2>3. /\ Image(r, s) \in SUBSET DOMAIN u /\ Image(r, s) # {} /\ LastTrade(u, Image(r, s)) = r[z]
        /\ Image(r, s) \ {r[z]} = Image(r, p)
    <3> HIDE DEF z, p, k, m, Same, N
    <3>1. /\ Image(r, s) \in SUBSET DOMAIN u /\ Image(r, s) # {}
          /\ LastTrade(u, Image(r, s)) = r[LastTrade(t, s)]
          /\ Image(r, s) \ {r[LastTrade(t, s)]} = Image(r, s \ {LastTrade(t, s)})
      BY <2>1, SameLast
    <3> QED BY <3>1 DEF z, p
  <2>4. Paper!Book(t, s) = Paper!Taken(t, k, z)
    BY <1>0, <2>1, BookUnfolds
  <2>5. Paper!Book(u, Image(r, s)) = Paper!Taken(u, m, r[z])
    <3> DEFINE q == Image(r, s)
    <3>1. q \in SUBSET DOMAIN u /\ q # {} /\ LastTrade(u, q) = r[z] /\ q \ {r[z]} = Image(r, p)
      BY <2>3
    <3> HIDE DEF q, z, p
    <3>2. Paper!Book(u, q) = Paper!Taken(u, Paper!Book(u, q \ {LastTrade(u, q)}), LastTrade(u, q))
      BY <1>0, <3>1, BookUnfolds
    <3>3. Paper!Book(u, q) = Paper!Taken(u, m, r[z])
      BY <3>1, <3>2
    <3> QED BY <3>3 DEF q
  <2>6. p \in SUBSET DOMAIN t /\ Image(r, p) \in SUBSET DOMAIN u
    BY <2>3 DEF Image
  <2>7. k \in BookRecords(t) /\ m \in BookRecords(u)
    BY <1>0, <2>6, BookIsKept DEF BookInv
  <2>8. Matches(r, t, k, m)
    BY <2>2, <2>6
  <2> HIDE DEF z, p, k, m
  <2>9. Matches(r, t, Paper!Taken(t, k, z), Paper!Taken(u, m, r[z]))
    BY <2>2, <2>7, <2>8, SameTaken
  <2> QED BY <2>4, <2>5, <2>9
<1>4. N = Nat
  <2> HIDE DEF Same
  <2> QED BY <1>2, <1>3, NatSetInduction
<1> QED BY <1>1, <1>4

\* Totals under other names.
LEMMA TotalRenamed ==
  ASSUME NEW S, IsFiniteSet(S), NEW R, NEW r, Renames(r, S, R), NEW f, NEW g, Carries(r, S, f, g)
  PROVE  Paper!Total([x \in S |-> f[x]]) = Paper!Total([y \in R |-> g[y]])
<1>1. IsFiniteSet(R) /\ SumFunctionOnSet(f, S) = SumFunctionOnSet(g, R)
  BY SumRenamed
<1>2. \A x \in S : f[x] \in Int
  BY DEF Carries
<1>3. \A y \in R : g[y] \in Int
  BY DEF Carries, Renames
<1>4. Paper!Total([x \in S |-> f[x]]) = SumFunctionOnSet(f, S)
  BY <1>2, TotalOver
<1>5. Paper!Total([y \in R |-> g[y]]) = SumFunctionOnSet(g, R)
  BY <1>1, <1>3, TotalOver
<1> QED BY <1>1, <1>4, <1>5

LotTotal(m, L, S) == Paper!Total([b \in L |-> Paper!Total([i \in S |-> m[b][i]])])

LEMMA LotTotalRenamed ==
  ASSUME NEW S, IsFiniteSet(S), NEW R, NEW r, Renames(r, S, R), NEW L, IsFiniteSet(L), NEW M, Renames(r, L, M),
         NEW f, NEW g, \A b \in L : \A i \in S : f[b][i] \in Int /\ g[r[b]][r[i]] = f[b][i]
  PROVE  LotTotal(f, L, S) = LotTotal(g, M, R)
<1> DEFINE a == [b \in L |-> Paper!Total([i \in S |-> f[b][i]])]
           c == [b \in M |-> Paper!Total([i \in R |-> g[b][i]])]
<1>1. ASSUME NEW b \in L
      PROVE  a[b] \in Int /\ c[r[b]] = a[b]
  <2> DEFINE x == f[b]
             y == g[r[b]]
  <2>1. r[b] \in M
    BY DEF Renames
  <2>2. a[b] = Paper!Total([i \in S |-> x[i]]) /\ c[r[b]] = Paper!Total([i \in R |-> y[i]])
    BY <2>1
  <2>3. Carries(r, S, x, y) /\ \A i \in S : x[i] \in Int
    BY DEF Carries
  <2> HIDE DEF x, y, a, c
  <2>4. Paper!Total([i \in S |-> x[i]]) = Paper!Total([i \in R |-> y[i]])
    BY <2>3, TotalRenamed
  <2>5. Paper!Total([i \in S |-> x[i]]) = SumFunctionOnSet(x, S) /\ SumFunctionOnSet(x, S) \in Int
    BY <2>3, TotalOver, SumIsInt
  <2> QED BY <2>2, <2>4, <2>5
<1>2. a = [b \in L |-> a[b]] /\ c = [b \in M |-> c[b]]
  OBVIOUS
<1> HIDE DEF a, c
<1>3. Carries(r, L, a, c)
  BY <1>1 DEF Carries
<1>4. Paper!Total([b \in L |-> a[b]]) = Paper!Total([b \in M |-> c[b]])
  BY <1>3, TotalRenamed
<1>5. Paper!Total(a) = Paper!Total(c)
  BY <1>2, <1>4
<1> QED BY <1>5 DEF a, c, LotTotal

\* What each sale used of each lot, and what it made of it.
UsedMatrix(t, k) == [b \in DOMAIN t |-> [i \in DOMAIN t |-> k.used[i][b] * 1]]
GrossMatrix(t, k) == [b \in DOMAIN t |-> [i \in DOMAIN t |-> k.used[i][b] * (t[i].price - t[b].price)]]
NetMatrix(t, k, cost) ==
  [b \in DOMAIN t |-> [i \in DOMAIN t |->
     k.used[i][b] * (t[i].price * (100 - cost) - t[b].price * (100 + cost))]]

LEMMA RowInFull ==
  ASSUME NEW t, NEW k, NEW e, NEW cost
  PROVE  LET lots == Paper!LotsOf(t, {e})
         IN /\ lots \in SUBSET DOMAIN t
            /\ Paper!Row(t, k, e, cost)
                 = [bought |-> Paper!Total([b \in lots |-> Quantities(t)[b]]),
                    left |-> Paper!Total([b \in lots |-> k.left[b]]),
                    basis |-> Paper!Total([b \in lots |-> Basis(t, k)[b]]),
                    closed |-> LotTotal(UsedMatrix(t, k), lots, DOMAIN t),
                    gross |-> LotTotal(GrossMatrix(t, k), lots, DOMAIN t),
                    net |-> LotTotal(NetMatrix(t, k, cost), lots, DOMAIN t)]
<1> DEFINE D == DOMAIN t
           lots == Paper!LotsOf(t, {e})
           row == Paper!Row(t, k, e, cost)
           used == [b \in lots |-> Paper!Total([i \in D |-> k.used[i][b] * 1])]
           gross == [b \in lots |-> Paper!Total([i \in D |-> k.used[i][b] * (t[i].price - t[b].price)])]
           net == [b \in lots |-> Paper!Total([i \in D |->
                     k.used[i][b] * (t[i].price * (100 - cost) - t[b].price * (100 + cost))])]
<1>1. row = [bought |-> Paper!Total([b \in lots |-> t[b].quantity]),
             left |-> Paper!Total([b \in lots |-> k.left[b]]),
             basis |-> Paper!Total([b \in lots |-> k.left[b] * t[b].price]),
             closed |-> Paper!Total(used), gross |-> Paper!Total(gross), net |-> Paper!Total(net)]
  BY DEF Paper!Row
<1>2. lots \in SUBSET D
  BY DEF Paper!LotsOf
<1> HIDE DEF lots, row
<1>3. /\ [b \in lots |-> Quantities(t)[b]] = [b \in lots |-> t[b].quantity]
      /\ [b \in lots |-> Basis(t, k)[b]] = [b \in lots |-> k.left[b] * t[b].price]
  BY <1>2 DEF Quantities, Basis
<1>4. \A b \in lots : /\ UsedMatrix(t, k)[b] = [i \in D |-> k.used[i][b] * 1]
                      /\ GrossMatrix(t, k)[b] = [i \in D |-> k.used[i][b] * (t[i].price - t[b].price)]
                      /\ NetMatrix(t, k, cost)[b] = [i \in D |->
                           k.used[i][b] * (t[i].price * (100 - cost) - t[b].price * (100 + cost))]
  BY <1>2 DEF UsedMatrix, GrossMatrix, NetMatrix
<1>5. used = [b \in lots |-> Paper!Total([i \in D |-> UsedMatrix(t, k)[b][i]])]
  <2>1. \A b \in lots : [i \in D |-> UsedMatrix(t, k)[b][i]] = [i \in D |-> k.used[i][b] * 1]
    BY <1>4
  <2> QED BY <2>1
<1>6. gross = [b \in lots |-> Paper!Total([i \in D |-> GrossMatrix(t, k)[b][i]])]
  <2>1. \A b \in lots : [i \in D |-> GrossMatrix(t, k)[b][i]]
                          = [i \in D |-> k.used[i][b] * (t[i].price - t[b].price)]
    BY <1>4
  <2> QED BY <2>1
<1>7. net = [b \in lots |-> Paper!Total([i \in D |-> NetMatrix(t, k, cost)[b][i]])]
  <2>1. \A b \in lots : [i \in D |-> NetMatrix(t, k, cost)[b][i]]
                          = [i \in D |-> k.used[i][b] * (t[i].price * (100 - cost) - t[b].price * (100 + cost))]
    BY <1>4
  <2> QED BY <2>1
<1> HIDE DEF used, gross, net
<1>8. row = [bought |-> Paper!Total([b \in lots |-> Quantities(t)[b]]),
             left |-> Paper!Total([b \in lots |-> k.left[b]]),
             basis |-> Paper!Total([b \in lots |-> Basis(t, k)[b]]),
             closed |-> LotTotal(UsedMatrix(t, k), lots, D),
             gross |-> LotTotal(GrossMatrix(t, k), lots, D),
             net |-> LotTotal(NetMatrix(t, k, cost), lots, D)]
  BY <1>1, <1>3, <1>5, <1>6, <1>7 DEF LotTotal
<1> QED BY <1>2, <1>8 DEF lots, row

\* The same row.
LEMMA SameRow ==
  ASSUME NEW r, NEW t, NEW u, Corresponds(r, t, u), NEW k \in BookRecords(t), NEW n \in BookRecords(u),
         Matches(r, t, k, n), NEW cost \in Int, NEW e
  PROVE  Paper!Row(t, k, e, cost) = Paper!Row(u, n, e, cost)
<1> DEFINE D == DOMAIN t
           lots == Paper!LotsOf(t, {e})
           lotsOf == Paper!LotsOf(u, {e})
<1>1. /\ IsFiniteSet(D) /\ Renames(r, D, DOMAIN u) /\ lots \in SUBSET D
      /\ k.left \in [D -> Nat] /\ k.used \in [D -> [D -> Nat]]
      /\ \A b \in D : t[b].quantity \in Nat /\ t[b].price \in Int
  BY DEF Corresponds, Trades, BookRecords, Paper!LotsOf
<1>2. \A b \in D : r[b] \in DOMAIN u
  BY SameOrder
<1>3. IsFiniteSet(lots) /\ Renames(r, lots, lotsOf)
  <2>1. IsFiniteSet(lots)
    BY <1>1, FS_Subset
  <2>2. \A x, y \in lots : r[x] = r[y] => x = y
    BY <1>1 DEF Renames
  <2>3. \A x \in lots : r[x] \in lotsOf
    BY <1>2 DEF Paper!LotsOf, Corresponds
  <2>4. ASSUME NEW y \in lotsOf
        PROVE  \E x \in lots : y = r[x]
    <3>1. y \in DOMAIN u /\ u[y].side = "buy" /\ u[y].entry \in {e}
      BY DEF Paper!LotsOf
    <3>2. PICK x \in D : y = r[x]
      BY <1>1, <3>1 DEF Renames
    <3>3. t[x].side = "buy" /\ t[x].entry = u[y].entry
      BY <3>1, <3>2 DEF Corresponds
    <3> QED BY <3>1, <3>2, <3>3 DEF Paper!LotsOf
  <2> HIDE DEF lots, lotsOf
  <2> QED BY <2>1, <2>2, <2>3, <2>4 DEF Renames
<1> HIDE DEF lots, lotsOf
<1>4. \A b \in D : /\ t[b].quantity = u[r[b]].quantity /\ t[b].price = u[r[b]].price
                   /\ n.left[r[b]] = k.left[b]
  BY DEF Corresponds, Matches
<1>5. \A i, b \in D : n.used[r[i]][r[b]] = k.used[i][b]
  BY DEF Matches
<1>6. Carries(r, lots, Quantities(t), Quantities(u))
  BY <1>1, <1>2, <1>4 DEF Carries, Quantities
<1>7. Carries(r, lots, k.left, n.left)
  BY <1>1, <1>4 DEF Carries
<1>8. Carries(r, lots, Basis(t, k), Basis(u, n))
  <2>1. \A a \in Nat : \A p \in Int : a * p \in Int
    OBVIOUS
  <2>2. \A b \in lots : /\ Basis(t, k)[b] = k.left[b] * t[b].price
                        /\ Basis(u, n)[r[b]] = n.left[r[b]] * u[r[b]].price
                        /\ k.left[b] \in Nat /\ t[b].price \in Int
    BY <1>1, <1>2 DEF Basis
  <2>3. \A b \in lots : n.left[r[b]] = k.left[b] /\ t[b].price = u[r[b]].price
    BY <1>1, <1>4
  <2> QED BY <2>1, <2>2, <2>3 DEF Carries
<1>9. ASSUME NEW b \in lots, NEW i \in D
      PROVE  /\ UsedMatrix(t, k)[b][i] \in Int /\ UsedMatrix(u, n)[r[b]][r[i]] = UsedMatrix(t, k)[b][i]
             /\ GrossMatrix(t, k)[b][i] \in Int /\ GrossMatrix(u, n)[r[b]][r[i]] = GrossMatrix(t, k)[b][i]
             /\ NetMatrix(t, k, cost)[b][i] \in Int
             /\ NetMatrix(u, n, cost)[r[b]][r[i]] = NetMatrix(t, k, cost)[b][i]
  <2> DEFINE a == k.used[i][b]
             p == t[i].price
             q == t[b].price
  <2>1. b \in D /\ i \in D /\ r[b] \in DOMAIN u /\ r[i] \in DOMAIN u
    BY <1>1, <1>2
  <2>2. a \in Nat /\ p \in Int /\ q \in Int /\ n.used[r[i]][r[b]] = a /\ u[r[i]].price = p /\ u[r[b]].price = q
    BY <1>1, <1>4, <1>5, <2>1
  <2>3. /\ UsedMatrix(t, k)[b][i] = a * 1 /\ GrossMatrix(t, k)[b][i] = a * (p - q)
        /\ NetMatrix(t, k, cost)[b][i] = a * (p * (100 - cost) - q * (100 + cost))
    BY <2>1 DEF UsedMatrix, GrossMatrix, NetMatrix
  <2>4. /\ UsedMatrix(u, n)[r[b]][r[i]] = a * 1 /\ GrossMatrix(u, n)[r[b]][r[i]] = a * (p - q)
        /\ NetMatrix(u, n, cost)[r[b]][r[i]] = a * (p * (100 - cost) - q * (100 + cost))
    <3> HIDE DEF a, p, q
    <3> QED BY <2>1, <2>2 DEF UsedMatrix, GrossMatrix, NetMatrix
  <2> HIDE DEF a, p, q
  <2>5. a * 1 \in Int /\ p - q \in Int /\ p * (100 - cost) - q * (100 + cost) \in Int
    BY <2>2
  <2>6. \A c \in Int : a * c \in Int
    BY <2>2
  <2> QED BY <2>3, <2>4, <2>5, <2>6
<1>10. /\ LotTotal(UsedMatrix(t, k), lots, D) = LotTotal(UsedMatrix(u, n), lotsOf, DOMAIN u)
       /\ LotTotal(GrossMatrix(t, k), lots, D) = LotTotal(GrossMatrix(u, n), lotsOf, DOMAIN u)
       /\ LotTotal(NetMatrix(t, k, cost), lots, D) = LotTotal(NetMatrix(u, n, cost), lotsOf, DOMAIN u)
  <2>1. LotTotal(UsedMatrix(t, k), lots, D) = LotTotal(UsedMatrix(u, n), lotsOf, DOMAIN u)
    BY <1>1, <1>3, <1>9, LotTotalRenamed
  <2>2. LotTotal(GrossMatrix(t, k), lots, D) = LotTotal(GrossMatrix(u, n), lotsOf, DOMAIN u)
    BY <1>1, <1>3, <1>9, LotTotalRenamed
  <2>3. LotTotal(NetMatrix(t, k, cost), lots, D) = LotTotal(NetMatrix(u, n, cost), lotsOf, DOMAIN u)
    BY <1>1, <1>3, <1>9, LotTotalRenamed
  <2> QED BY <2>1, <2>2, <2>3
<1>11. Paper!Total([b \in lots |-> Quantities(t)[b]]) = Paper!Total([b \in lotsOf |-> Quantities(u)[b]])
  BY <1>3, <1>6, TotalRenamed
<1>12. Paper!Total([b \in lots |-> k.left[b]]) = Paper!Total([b \in lotsOf |-> n.left[b]])
  BY <1>3, <1>7, TotalRenamed
<1>13. Paper!Total([b \in lots |-> Basis(t, k)[b]]) = Paper!Total([b \in lotsOf |-> Basis(u, n)[b]])
  BY <1>3, <1>8, TotalRenamed
<1>14. Paper!Row(t, k, e, cost)
         = [bought |-> Paper!Total([b \in lots |-> Quantities(t)[b]]),
            left |-> Paper!Total([b \in lots |-> k.left[b]]),
            basis |-> Paper!Total([b \in lots |-> Basis(t, k)[b]]),
            closed |-> LotTotal(UsedMatrix(t, k), lots, D),
            gross |-> LotTotal(GrossMatrix(t, k), lots, D),
            net |-> LotTotal(NetMatrix(t, k, cost), lots, D)]
  BY RowInFull DEF lots
<1>15. Paper!Row(u, n, e, cost)
         = [bought |-> Paper!Total([b \in lotsOf |-> Quantities(u)[b]]),
            left |-> Paper!Total([b \in lotsOf |-> n.left[b]]),
            basis |-> Paper!Total([b \in lotsOf |-> Basis(u, n)[b]]),
            closed |-> LotTotal(UsedMatrix(u, n), lotsOf, DOMAIN u),
            gross |-> LotTotal(GrossMatrix(u, n), lotsOf, DOMAIN u),
            net |-> LotTotal(NetMatrix(u, n, cost), lotsOf, DOMAIN u)]
  BY RowInFull DEF lotsOf
<1> QED BY <1>10, <1>11, <1>12, <1>13, <1>14, <1>15

\* The same answer.
LEMMA SameAnswer ==
  ASSUME NEW r, NEW t, NEW u, Corresponds(r, t, u), NEW cost \in Int, NEW position
  PROVE  Paper!Answer(t, position, cost) = Paper!Answer(u, position, cost)
<1> DEFINE k == Paper!Fifo(t)
           n == Paper!Fifo(u)
<1>1. Trades(t) /\ Trades(u) /\ Renames(r, DOMAIN t, DOMAIN u)
  BY DEF Corresponds
<1>2. Image(r, DOMAIN t) = DOMAIN u
  BY <1>1 DEF Image, Renames
<1>3. k \in BookRecords(t) /\ n \in BookRecords(u)
  <2>1. DOMAIN t \in SUBSET DOMAIN t /\ DOMAIN u \in SUBSET DOMAIN u
    OBVIOUS
  <2> QED BY <1>1, <2>1, BookIsKept DEF BookInv, Paper!Fifo
<1>4. Matches(r, t, k, n)
  <2>1. DOMAIN t \in SUBSET DOMAIN t
    OBVIOUS
  <2>2. Matches(r, t, Paper!Book(t, DOMAIN t), Paper!Book(u, Image(r, DOMAIN t)))
    BY <2>1, SameBooks
  <2> QED BY <1>2, <2>2 DEF Paper!Fifo
<1> HIDE DEF k, n
<1>5. Paper!Total(k.left) = Paper!Total(n.left) /\ n.missing = k.missing
  BY <1>3, <1>4, SameTotals DEF Matches
<1>6. \A e : Paper!Row(t, k, e, cost) = Paper!Row(u, n, e, cost)
  BY <1>3, <1>4, SameRow
<1>7. Paper!Entries(t) = Paper!Entries(u)
  <2>1. ASSUME NEW b \in DOMAIN t, t[b].side = "buy"
        PROVE  r[b] \in DOMAIN u /\ u[r[b]].side = "buy" /\ u[r[b]].entry = t[b].entry
    BY <1>1, <2>1 DEF Corresponds, Renames
  <2>2. ASSUME NEW y \in DOMAIN u, u[y].side = "buy"
        PROVE  \E b \in DOMAIN t : t[b].side = "buy" /\ t[b].entry = u[y].entry
    <3>1. PICK b \in DOMAIN t : y = r[b]
      BY <1>1 DEF Renames
    <3> QED BY <2>2, <3>1 DEF Corresponds
  <2> QED BY <2>1, <2>2 DEF Paper!Entries
<1>8. [e \in Paper!Entries(t) |-> Paper!Row(t, k, e, cost)] = [e \in Paper!Entries(u) |-> Paper!Row(u, n, e, cost)]
  BY <1>6, <1>7
<1> QED BY <1>5, <1>8 DEF Paper!Answer, k, n

\* Every order was executed whole, at once and by this program, at an hour of
\* its own, and something was sold.
Plain(x) ==
  /\ \A a \in DOMAIN x.attempts : Paper!Explained(x.attempts[a], x.fills)
  /\ \A a \in Paper!Executed(x.attempts) :
       /\ x.attempts[a].whole
       /\ \E f \in DOMAIN x.fills : Paper!Of(x.fills, x.attempts[a].order) = {f} /\ x.fills[f].time = x.attempts[a].at
  /\ \A f \in DOMAIN x.fills : \E a \in DOMAIN x.attempts : x.attempts[a].order = x.fills[f].order
  /\ \A f, g \in DOMAIN x.fills : x.fills[f].time = x.fills[g].time => f = g
  /\ \E a \in Paper!Executed(x.attempts) : x.attempts[a].side = "sell"

\* The only execution of an order is what its receipt says.
LEMMA OnlyFill ==
  ASSUME NEW x, IsCase(x), Plain(x), NEW a \in Paper!Executed(x.attempts), NEW f \in DOMAIN x.fills,
         Paper!Of(x.fills, x.attempts[a].order) = {f}, x.fills[f].time = x.attempts[a].at
  PROVE  LET t == Paper!Orders(x.attempts)
             u == Paper!Executions(x.attempts, x.fills)
         IN /\ x.fills[f].order = x.attempts[a].order /\ x.attempts[a].order # NoOrder
            /\ u[f].side = t[a].side /\ u[f].quantity = t[a].quantity /\ u[f].price = t[a].price
            /\ u[f].time = t[a].time /\ (t[a].side = "buy" => u[f].entry = t[a].entry)
            /\ t[a].side \in {"buy", "sell"} /\ t[a].quantity \in Nat /\ t[a].price \in Int /\ t[a].time \in Int
<1> DEFINE t == Paper!Orders(x.attempts)
           u == Paper!Executions(x.attempts, x.fills)
           p == x.attempts[a]
           own == Paper!Of(x.fills, p.order)
<1>1. a \in DOMAIN x.attempts /\ p.order # NoOrder /\ p.filled > 0 /\ p \in Attempts
  BY DEF Paper!Executed, IsCase
<1>2. /\ x.fills[f].side \in {"buy", "sell"} /\ x.fills[f].quantity \in Nat \ {0}
      /\ x.fills[f].price \in Nat /\ x.fills[f].time \in Int
      /\ u[f].side = x.fills[f].side /\ u[f].quantity = x.fills[f].quantity
      /\ u[f].price = x.fills[f].price /\ u[f].time = x.fills[f].time
      /\ u[f].entry = Paper!EntryOf(x.attempts, x.fills[f])
  BY ExecutionsAre
<1>3. f \in own /\ x.fills[f].order = p.order
  BY DEF Paper!Of
<1>4. /\ Paper!Total([g \in own |-> x.fills[g].quantity]) = p.filled
      /\ Paper!Total([g \in own |-> x.fills[g].quantity * x.fills[g].price]) = p.notional
      /\ x.fills[f].side = p.side
  <2>1. Paper!Explained(p, x.fills)
    BY <1>1 DEF Plain
  <2> HIDE DEF p
  <2> QED BY <1>1, <1>3, <2>1 DEF Paper!Explained
<1>5. ASSUME NEW q, q[f] \in Int, DOMAIN q = {f}
      PROVE  Paper!Total(q) = q[f]
  <2>1. IsFiniteSet({f}) /\ (\A g \in {f} : q[g] \in Int) /\ {f} \ {f} = {}
    BY <1>5, FS_Singleton
  <2>2. SumFunctionOnSet(q, {f}) = q[f] + SumFunctionOnSet(q, {f} \ {f})
    BY <2>1, SumTakesOut
  <2>3. SumFunctionOnSet(q, {f}) = q[f]
    BY <1>5, <2>1, <2>2, SumOfNothing
  <2> QED BY <1>5, <2>3, ResultsAreSums
<1>6. p.filled = x.fills[f].quantity
  <2> DEFINE q == [g \in own |-> x.fills[g].quantity]
  <2>1. q[f] = x.fills[f].quantity /\ q[f] \in Int /\ DOMAIN q = {f}
    BY <1>2, <1>3
  <2> HIDE DEF q
  <2>2. Paper!Total(q) = q[f]
    BY <1>5, <2>1
  <2> QED BY <1>4, <2>1, <2>2 DEF q
<1>7. p.notional = x.fills[f].quantity * x.fills[f].price
  <2> DEFINE q == [g \in own |-> x.fills[g].quantity * x.fills[g].price]
  <2>1. \A m, n \in Nat : m * n \in Int
    OBVIOUS
  <2>2. q[f] = x.fills[f].quantity * x.fills[f].price /\ DOMAIN q = {f}
    BY <1>3
  <2>3. q[f] \in Int
    BY <1>2, <2>1, <2>2
  <2> HIDE DEF q
  <2>4. Paper!Total(q) = q[f]
    BY <1>5, <2>2, <2>3
  <2> QED BY <1>4, <2>2, <2>4 DEF q
<1>8. \A m \in Nat \ {0} : \A n \in Nat : (m * n) \div m = n
  <2> SUFFICES ASSUME NEW m \in Nat \ {0}, NEW n \in Nat PROVE (m * n) \div m = n
    OBVIOUS
  <2>1. (m * n) \div m \in Int /\ m * ((m * n) \div m) <= m * n /\ m * n < m * (((m * n) \div m) + 1)
    BY SMT
  <2> DEFINE d == (m * n) \div m
  <2>2. d \in Int /\ m * d <= m * n /\ m * n < m * (d + 1)
    BY <2>1
  <2> HIDE DEF d
  <2>3. ~(d < n)
    <3> SUFFICES ASSUME d + 1 <= n PROVE FALSE
      BY <2>2
    <3>1. m * (d + 1) <= m * n
      BY <2>2
    <3> QED BY <2>2, <3>1
  <2>4. ~(n < d)
    <3> SUFFICES ASSUME n + 1 <= d PROVE FALSE
      BY <2>2
    <3>1. m * (n + 1) <= m * d /\ m * (n + 1) = m * n + m
      BY <2>2
    <3> QED BY <2>2, <3>1
  <2>5. d = n
    BY <2>2, <2>3, <2>4
  <2> QED BY <2>5 DEF d
<1>9. p.notional \div p.filled = x.fills[f].price
  BY <1>2, <1>6, <1>7, <1>8
<1>10. t[a] = [side |-> p.side, quantity |-> p.filled, price |-> p.notional \div p.filled,
               time |-> Paper!When(x.attempts, a), entry |-> p.id]
  BY DEF Paper!Orders
<1>11. Paper!When(x.attempts, a) = p.at
  BY DEF Paper!When, Plain
<1>12. ASSUME p.side = "buy"
       PROVE  Paper!EntryOf(x.attempts, x.fills[f]) = p.id
  <2> DEFINE of == {b \in DOMAIN x.attempts : x.attempts[b].order = x.fills[f].order /\ x.attempts[b].side = "buy"}
  <2>1. a \in of
    BY <1>1, <1>3, <1>12
  <2>2. \A b \in of : b = a
    <3>1. \A b \in of : b \in DOMAIN x.attempts /\ x.attempts[b].order = p.order
      BY <1>3
    <3> HIDE DEF of
    <3> QED BY <1>1, <3>1 DEF IsCase
  <2>3. (CHOOSE b \in of : TRUE) = a
    <3> HIDE DEF of
    <3> QED BY <2>1, <2>2
  <2> QED BY <2>1, <2>3 DEF Paper!EntryOf
<1>13. p.side \in {"buy", "sell"}
  BY <1>1 DEF Attempts
<1> HIDE DEF t, u, p, own
<1>14. /\ t[a].side = p.side /\ t[a].quantity = p.filled /\ t[a].price = p.notional \div p.filled
       /\ t[a].time = p.at /\ t[a].entry = p.id
  BY <1>10, <1>11
<1>15. x.fills[f].time = p.at
  BY DEF p
<1> QED BY <1>1, <1>2, <1>3, <1>4, <1>6, <1>9, <1>12, <1>13, <1>14, <1>15 DEF t, u, p

LEMMA OrdersCorrespond ==
  ASSUME NEW x, IsCase(x), Plain(x)
  PROVE  \E r : Corresponds(r, Paper!Orders(x.attempts), Paper!Executions(x.attempts, x.fills))
<1> DEFINE t == Paper!Orders(x.attempts)
           u == Paper!Executions(x.attempts, x.fills)
           E == Paper!Executed(x.attempts)
           only(a, f) == /\ f \in DOMAIN x.fills
                         /\ Paper!Of(x.fills, x.attempts[a].order) = {f} /\ x.fills[f].time = x.attempts[a].at
           r == [a \in E |-> CHOOSE f : only(a, f)]
<1>1. DOMAIN t = E /\ DOMAIN u = DOMAIN x.fills /\ Trades(u) /\ E \in SUBSET DOMAIN x.attempts
  BY ExecutionsAre DEF Paper!Orders, Paper!Executed
<1>2. \A a \in E : only(a, r[a])
  BY DEF Plain
<1> HIDE DEF r, t, u
<1>3. ASSUME NEW a \in E
      PROVE  /\ r[a] \in DOMAIN x.fills
             /\ x.fills[r[a]].order = x.attempts[a].order /\ x.attempts[a].order # NoOrder
             /\ u[r[a]].side = t[a].side /\ u[r[a]].quantity = t[a].quantity /\ u[r[a]].price = t[a].price
             /\ u[r[a]].time = t[a].time /\ (t[a].side = "buy" => u[r[a]].entry = t[a].entry)
             /\ t[a].side \in {"buy", "sell"} /\ t[a].quantity \in Nat /\ t[a].price \in Int /\ t[a].time \in Int
  <2> DEFINE f == r[a]
  <2>1. f \in DOMAIN x.fills /\ Paper!Of(x.fills, x.attempts[a].order) = {f} /\ x.fills[f].time = x.attempts[a].at
    BY <1>2
  <2> HIDE DEF f
  <2>2. /\ x.fills[f].order = x.attempts[a].order /\ x.attempts[a].order # NoOrder
        /\ u[f].side = t[a].side /\ u[f].quantity = t[a].quantity /\ u[f].price = t[a].price
        /\ u[f].time = t[a].time /\ (t[a].side = "buy" => u[f].entry = t[a].entry)
        /\ t[a].side \in {"buy", "sell"} /\ t[a].quantity \in Nat /\ t[a].price \in Int /\ t[a].time \in Int
    BY <2>1, OnlyFill DEF t, u
  <2> QED BY <2>1, <2>2 DEF f
<1>4. Trades(t)
  <2>1. IsFiniteSet(E) /\ E \subseteq Int
    BY <1>1, FS_Subset DEF IsCase
  <2> QED BY <1>1, <1>3, <2>1 DEF Trades
<1>5. \A a, b \in E : r[a] = r[b] => a = b
  <2> SUFFICES ASSUME NEW a \in E, NEW b \in E, r[a] = r[b] PROVE a = b
    OBVIOUS
  <2>1. x.attempts[a].order = x.attempts[b].order /\ x.attempts[a].order # NoOrder
    BY <1>3
  <2>2. a \in DOMAIN x.attempts /\ b \in DOMAIN x.attempts
    BY <1>1
  <2> QED BY <2>1, <2>2 DEF IsCase
<1>6. ASSUME NEW f \in DOMAIN x.fills
      PROVE  \E a \in E : f = r[a]
  <2>1. PICK a \in DOMAIN x.attempts : x.attempts[a].order = x.fills[f].order
    BY DEF Plain
  <2> DEFINE p == x.attempts[a]
             own == Paper!Of(x.fills, p.order)
  <2>2. \A g \in DOMAIN x.fills : x.fills[g].quantity \in Nat \ {0} /\ x.fills[g].order \in Int
    BY ExecutionsAre
  <2>3. p.order # NoOrder /\ f \in own /\ own \in SUBSET DOMAIN x.fills
    <3>1. p.order \in Int
      BY <2>1, <2>2
    <3>2. NoOrder \notin Int
      BY ResultsAssumption
    <3> QED BY <2>1, <3>1, <3>2 DEF Paper!Of
  <2>4. Paper!Total([g \in own |-> x.fills[g].quantity]) = p.filled
    <3>1. Paper!Explained(p, x.fills)
      BY DEF Plain
    <3> HIDE DEF p
    <3> QED BY <2>3, <3>1 DEF Paper!Explained
  <2>5. p.filled > 0
    <3> DEFINE q == [g \in own |-> x.fills[g].quantity]
    <3>1. IsFiniteSet(own)
      BY <2>3, FS_Subset DEF IsCase
    <3>2. \A g \in own : q[g] \in Nat \ {0}
      BY <2>2, <2>3
    <3>3. DOMAIN q = own
      OBVIOUS
    <3> HIDE DEF q, own
    <3>4. \A g \in own : q[g] \in Int
      BY <3>2
    <3>5. SumFunctionOnSet(q, own) = q[f] + SumFunctionOnSet(q, own \ {f})
      BY <2>3, <3>1, <3>4, SumTakesOut
    <3>6. IsFiniteSet(own \ {f}) /\ \A g \in own \ {f} : q[g] \in Nat
      BY <3>1, <3>2, FS_Subset
    <3>7. SumFunctionOnSet(q, own \ {f}) \in Nat
      BY <3>6, SumIsNat
    <3>8. q[f] \in Nat \ {0}
      BY <2>3, <3>2
    <3>9. Paper!Total(q) = SumFunctionOnSet(q, own)
      BY <3>3, ResultsAreSums
    <3> HIDE DEF p
    <3> QED BY <2>4, <3>5, <3>7, <3>8, <3>9 DEF q
  <2>6. a \in E
    BY <2>3, <2>5 DEF Paper!Executed
  <2>7. own = {r[a]}
    BY <1>2, <2>6
  <2> QED BY <2>3, <2>6, <2>7
<1>7. Renames(r, DOMAIN t, DOMAIN u)
  BY <1>1, <1>3, <1>5, <1>6 DEF Renames
<1>8. ASSUME NEW a \in E, NEW b \in E, t[a].time = t[b].time
      PROVE  a = b
  <2>1. u[r[a]].time = u[r[b]].time /\ r[a] \in DOMAIN x.fills /\ r[b] \in DOMAIN x.fills
    BY <1>3, <1>8
  <2>2. x.fills[r[a]].time = x.fills[r[b]].time
    <3>1. \A f \in DOMAIN x.fills : u[f].time = x.fills[f].time
      BY ExecutionsAre DEF u
    <3> QED BY <2>1, <3>1
  <2>3. r[a] = r[b]
    BY <2>1, <2>2 DEF Plain
  <2> QED BY <1>5, <2>3
<1>9. Corresponds(r, t, u)
  BY <1>1, <1>3, <1>4, <1>7, <1>8 DEF Corresponds
<1> QED BY <1>9 DEF t, u

LEMMA ReadingsAgreeFor ==
  ASSUME NEW x, IsCase(x)
  PROVE  Paper!ReadingsAgree(x)
<1> SUFFICES ASSUME Plain(x)
             PROVE  Paper!Results(x.attempts, x.fills, x.held, x.cost)
                      = Paper!OrderResults(x.attempts, x.held, x.cost)
  BY DEF Paper!ReadingsAgree, Plain
<1> DEFINE t == Paper!Orders(x.attempts)
           u == Paper!Executions(x.attempts, x.fills)
<1>1. PICK r : Corresponds(r, t, u)
  BY OrdersCorrespond
<1>2. x.cost \in Int
  BY DEF IsCase
<1>3. Paper!Answer(t, x.held, x.cost) = Paper!Answer(u, x.held, x.cost)
  <2> HIDE DEF t, u
  <2> QED BY <1>1, <1>2, SameAnswer
<1>4. Paper!Results(x.attempts, x.fills, x.held, x.cost) = Paper!Answer(u, x.held, x.cost)
  BY DEF Paper!Results, Plain
<1>5. Paper!OrderResults(x.attempts, x.held, x.cost) = Paper!Answer(t, x.held, x.cost)
  BY DEF Paper!OrderResults, Plain
<1> QED BY <1>3, <1>4, <1>5

-----------------------------------------------------------------------------
(* The question. *)

\* For any executions, attempts, costs and days: each entry is what it still
\* holds and what was closed, the cash and the shares of the curve are those of
\* the rows, no day has sold what was bought later, the position is what was
\* traded; and where every order was filled whole, at once and by this program,
\* its receipts and its executions give the same rows.
THEOREM ResultsAreKept == EstimatesSpec => []ResultsAddUp
<1>1. ASSUME EstimatesInv
      PROVE  ResultsAddUp
  <2> SUFFICES ASSUME Answered("results")
               PROVE  Paper!RowsAddUp(input) /\ Paper!ReadingsAgree(input)
    BY DEF ResultsAddUp
  <2>1. input \in ResultCases
    BY <1>1 DEF EstimatesInv, Questions, Answered
  <2>2. IsCase(input)
    BY <2>1, ResultsAssumption DEF IsCase
  <2> QED BY <2>2, RowsAddUpFor, ReadingsAgreeFor
<1> QED BY <1>1, EstimatesAreAnswers, PTL
=============================================================================
