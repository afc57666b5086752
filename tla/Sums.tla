-------------------------------- MODULE Sums --------------------------------
(***************************************************************************)
(* Facts about the sums that the conservation of money is stated with.     *)
(* A sum is MapThenSumSet of an amount per row.  Where the definition      *)
(* recurs on subsets, the proofs look at a smallest counterexample: the    *)
(* strict inclusion of finite sets is well founded.                        *)
(***************************************************************************)
EXTENDS Integers, FiniteSetsExt, FiniteSetTheorems, TLAPS

Total(A, S) == MapThenSumSet(LAMBDA x : A[x], S)

(* The element that the definition takes next, and its table of the sums   *)
(* of all subsets.                                                         *)
Next1(S) == CHOOSE x \in S : TRUE

IsTable(A, S, g) ==
    g = [T \in SUBSET S |-> IF T = {} THEN 0 ELSE A[Next1(T)] + g[T \ {Next1(T)}]]

Table(A, S) == CHOOSE g : IsTable(A, S, g)

(* The sum is what its table says of the whole set.                        *)
LEMMA TotalIs == ASSUME NEW A, NEW S PROVE Total(A, S) = Table(A, S)[S]
BY DEF Total, MapThenSumSet, MapThenFoldSet, Table, IsTable, Next1

(* A set of subsets of a finite set has a smallest one: no smaller subset  *)
(* of it is in the set.                                                    *)
LEMMA Smallest ==
    ASSUME NEW S, IsFiniteSet(S), NEW B, B \subseteq SUBSET S, S \in B
    PROVE  \E T \in B : /\ IsFiniteSet(T) /\ T \in SUBSET S
                        /\ \A U \in SUBSET T : U # T => U \notin B
<1>1. IsWellFoundedOn(StrictSubsetOrdering(S), SUBSET S)
    BY FS_StrictSubsetOrderingWellFounded, FS_FiniteSubsetsOfFinite
<1>2. B \in SUBSET (SUBSET S) /\ B # {}
    OBVIOUS
<1>3. PICK T \in B : \A U \in B : <<U, T>> \notin StrictSubsetOrdering(S)
    BY <1>1, <1>2, WFMin
<1>4. IsFiniteSet(T) /\ T \in SUBSET S
    BY FS_Subset
<1>5. ASSUME NEW U \in SUBSET T, U # T, U \in B
      PROVE  FALSE
    <2>1. <<U, T>> \in StrictSubsetOrdering(S)
        BY <1>4, <1>5 DEF StrictSubsetOrdering
    <2>2. QED
        BY <1>3, <1>5, <2>1
<1>6. QED
    BY <1>4, <1>5

(* The element taken next is one of the set.                               *)
LEMMA Next1In == ASSUME NEW S, S # {} PROVE Next1(S) \in S
BY DEF Next1

(* What a table says of one of the subsets.                                *)
LEMMA TableAt ==
    ASSUME NEW A, NEW S, NEW g, IsTable(A, S, g), NEW T \in SUBSET S
    PROVE  g[T] = IF T = {} THEN 0 ELSE A[Next1(T)] + g[T \ {Next1(T)}]
BY DEF IsTable

(* Tables agree where both say something. *)
LEMMA TablesAgree ==
    ASSUME NEW A, NEW S, IsFiniteSet(S), NEW R, S \subseteq R,
           NEW g, IsTable(A, S, g), NEW h, IsTable(A, R, h)
    PROVE  g[S] = h[S]
<1> DEFINE B == {T \in SUBSET S : g[T] # h[T]}
<1>1. SUFFICES ASSUME g[S] # h[S] PROVE FALSE
    OBVIOUS
<1>2. B \subseteq SUBSET S /\ S \in B
    BY <1>1
<1> HIDE DEF B
<1>3. PICK T \in B : /\ IsFiniteSet(T) /\ T \in SUBSET S
                     /\ \A U \in SUBSET T : U # T => U \notin B
    BY <1>2, Smallest
<1> USE DEF B
<1>4. T \in SUBSET R /\ g[T] # h[T]
    BY <1>3
<1>5. T # {}
    BY <1>3, <1>4, TableAt
<1>6. Next1(T) \in T
    BY <1>5, Next1In
<1>7. g[T \ {Next1(T)}] = h[T \ {Next1(T)}]
    BY <1>3, <1>6
<1>8. QED
    BY <1>3, <1>4, <1>5, <1>7, TableAt

(* There is a table: built from those of the smaller sets. *)
LEMMA TableExists ==
    ASSUME NEW A, NEW S, IsFiniteSet(S)
    PROVE  IsTable(A, S, Table(A, S))
<1> DEFINE B == {T \in SUBSET S : ~IsTable(A, T, Table(A, T))}
<1>1. SUFFICES ASSUME ~IsTable(A, S, Table(A, S)) PROVE FALSE
    OBVIOUS
<1>2. B \subseteq SUBSET S /\ S \in B
    BY <1>1
<1> HIDE DEF B
<1>3. PICK T \in B : /\ IsFiniteSet(T) /\ T \in SUBSET S
                     /\ \A U \in SUBSET T : U # T => U \notin B
    BY <1>2, Smallest
<1> USE DEF B
<1>4. \A U \in SUBSET T : U # T => IsTable(A, U, Table(A, U)) /\ IsFiniteSet(U)
    BY <1>3, FS_Subset
<1> DEFINE val(U) == Table(A, U)[U]
           g == [U \in SUBSET T |-> IF U = {} THEN 0 ELSE A[Next1(U)] + val(U \ {Next1(U)})]
<1>5. ASSUME NEW U \in SUBSET T, U # T
      PROVE  g[U] = val(U)
    <2>1. val(U) = IF U = {} THEN 0 ELSE A[Next1(U)] + Table(A, U)[U \ {Next1(U)}]
        BY <1>4, <1>5, TableAt
    <2>2. CASE U = {}
        BY <2>1, <2>2
    <2>3. CASE U # {}
        <3> DEFINE V == U \ {Next1(U)}
        <3>1. V \in SUBSET T /\ V # T /\ V \subseteq U
            BY <1>5
        <3>2. Table(A, V)[V] = Table(A, U)[V]
            BY <1>4, <1>5, <3>1, TablesAgree
        <3>3. QED
            BY <2>1, <2>3, <3>2
    <2>4. QED
        BY <2>2, <2>3
<1>6. IsTable(A, T, g)
    <2>1. ASSUME NEW U \in SUBSET T, U # {}
          PROVE  val(U \ {Next1(U)}) = g[U \ {Next1(U)}]
        <3>1. U \ {Next1(U)} \in SUBSET T /\ U \ {Next1(U)} # T
            BY <2>1, Next1In
        <3>2. QED
            BY <1>5, <3>1
    <2>2. g = [U \in SUBSET T |-> IF U = {} THEN 0 ELSE A[Next1(U)] + g[U \ {Next1(U)}]]
        BY <2>1
    <2> HIDE DEF g
    <2>3. QED
        BY <2>2 DEF IsTable
<1> HIDE DEF g
<1>7. IsTable(A, T, Table(A, T))
    BY <1>6 DEF Table
<1>8. QED
    BY <1>3, <1>7

(* The sum over nothing is 0.                                              *)
LEMMA TotalEmpty == ASSUME NEW A PROVE Total(A, {}) = 0
<1>1. IsTable(A, {}, Table(A, {}))
    BY TableExists, FS_EmptySet
<1>2. QED
    BY <1>1, TableAt, TotalIs

(* The sum, one element after the other.                                   *)
LEMMA TotalStep ==
    ASSUME NEW A, NEW S, IsFiniteSet(S), S # {}
    PROVE  Total(A, S) = A[Next1(S)] + Total(A, S \ {Next1(S)})
<1> DEFINE T == S \ {Next1(S)}
<1>1. IsTable(A, S, Table(A, S)) /\ IsFiniteSet(T) /\ T \subseteq S
    BY TableExists, FS_Subset
<1>2. Table(A, T)[T] = Table(A, S)[T]
    BY <1>1, TableExists, TablesAgree
<1>3. Table(A, S)[S] = A[Next1(S)] + Table(A, S)[T]
    BY <1>1, TableAt
<1>4. QED
    BY <1>2, <1>3, TotalIs

(* The sum of integers is one. *)
LEMMA TotalInt ==
    ASSUME NEW A, NEW S, IsFiniteSet(S), \A x \in S : A[x] \in Int
    PROVE  Total(A, S) \in Int
<1> DEFINE B == {T \in SUBSET S : Total(A, T) \notin Int}
<1>1. SUFFICES ASSUME Total(A, S) \notin Int PROVE FALSE
    OBVIOUS
<1>2. B \subseteq SUBSET S /\ S \in B
    BY <1>1
<1> HIDE DEF B
<1>3. PICK T \in B : /\ IsFiniteSet(T) /\ T \in SUBSET S
                     /\ \A U \in SUBSET T : U # T => U \notin B
    BY <1>2, Smallest
<1> USE DEF B
<1>4. T # {}
    <2>1. Total(A, T) \notin Int
        BY <1>3
    <2>2. QED
        BY <2>1, TotalEmpty
<1>5. Next1(T) \in T /\ A[Next1(T)] \in Int
    BY <1>3, <1>4, Next1In
<1>6. Total(A, T \ {Next1(T)}) \in Int
    BY <1>3, <1>5
<1>7. Total(A, T) = A[Next1(T)] + Total(A, T \ {Next1(T)})
    BY <1>3, <1>4, TotalStep
<1>8. QED
    BY <1>3, <1>5, <1>6, <1>7

(* Any element can be taken first. *)
LEMMA TotalTake ==
    ASSUME NEW A, NEW S, IsFiniteSet(S), \A x \in S : A[x] \in Int, NEW x \in S
    PROVE  Total(A, S) = A[x] + Total(A, S \ {x})
<1> DEFINE Bad(T) == \E y \in T : Total(A, T) # A[y] + Total(A, T \ {y})
           B == {T \in SUBSET S : Bad(T)}
<1>1. SUFFICES ASSUME Total(A, S) # A[x] + Total(A, S \ {x}) PROVE FALSE
    OBVIOUS
<1>2. B \subseteq SUBSET S /\ S \in B
    BY <1>1
<1> HIDE DEF B
<1>3. PICK T \in B : /\ IsFiniteSet(T) /\ T \in SUBSET S
                     /\ \A U \in SUBSET T : U # T => U \notin B
    BY <1>2, Smallest
<1> USE DEF B
<1>4. PICK y \in T : Total(A, T) # A[y] + Total(A, T \ {y})
    BY <1>3
<1> DEFINE z == Next1(T)
<1>5. z \in T
    BY <1>4, Next1In
<1>6. Total(A, T) = A[z] + Total(A, T \ {z})
    BY <1>3, <1>4, TotalStep
<1>7. y # z
    BY <1>4, <1>6
<1> HIDE DEF z
<1>8. ASSUME NEW v \in T, NEW w \in T, v # w
      PROVE  Total(A, T \ {v}) = A[w] + Total(A, (T \ {v}) \ {w})
    <2>1. T \ {v} \in SUBSET S /\ T \ {v} \notin B
        BY <1>3
    <2>2. ~Bad(T \ {v})
        BY <2>1
    <2>3. QED
        BY <2>2, <1>8
<1> DEFINE R == (T \ {y}) \ {z}
<1>9. /\ Total(A, T \ {z}) = A[y] + Total(A, R)
      /\ Total(A, T \ {y}) = A[z] + Total(A, R)
    <2>1. (T \ {z}) \ {y} = R
        OBVIOUS
    <2>2. QED
        BY <1>4, <1>5, <1>7, <1>8, <2>1
<1>10. IsFiniteSet(R) /\ (\A v \in R : A[v] \in Int) /\ A[y] \in Int /\ A[z] \in Int
    BY <1>3, <1>4, <1>5, FS_Subset
<1>11. Total(A, R) \in Int
    BY <1>10, TotalInt
<1> HIDE DEF R
<1>12. QED
    BY <1>4, <1>6, <1>9, <1>10, <1>11

(* A sum with one more element. *)
LEMMA TotalAdd ==
    ASSUME NEW A, NEW S, IsFiniteSet(S), \A x \in S : A[x] \in Int, NEW x, x \notin S, A[x] \in Int
    PROVE  Total(A, S \cup {x}) = Total(A, S) + A[x]
<1>1. IsFiniteSet(S \cup {x}) /\ (S \cup {x}) \ {x} = S
    BY FS_AddElement
<1>2. Total(A, S \cup {x}) = A[x] + Total(A, S)
    BY <1>1, TotalTake
<1>3. QED
    BY <1>2, TotalInt

(* A sum with one element less. *)
LEMMA TotalDrop ==
    ASSUME NEW A, NEW S, IsFiniteSet(S), \A x \in S : A[x] \in Int, NEW x \in S
    PROVE  Total(A, S \ {x}) = Total(A, S) - A[x]
<1>1. Total(A, S) = A[x] + Total(A, S \ {x})
    BY TotalTake
<1>2. Total(A, S \ {x}) \in Int
    BY FS_Subset, TotalInt
<1>3. QED
    BY <1>1, <1>2

(* The sum of natural numbers is one. *)
LEMMA TotalNat ==
    ASSUME NEW A, NEW S, IsFiniteSet(S), \A x \in S : A[x] \in Nat
    PROVE  Total(A, S) \in Nat
<1> DEFINE B == {T \in SUBSET S : Total(A, T) \notin Nat}
<1>1. SUFFICES ASSUME Total(A, S) \notin Nat PROVE FALSE
    OBVIOUS
<1>2. B \subseteq SUBSET S /\ S \in B
    BY <1>1
<1> HIDE DEF B
<1>3. PICK T \in B : /\ IsFiniteSet(T) /\ T \in SUBSET S
                     /\ \A U \in SUBSET T : U # T => U \notin B
    BY <1>2, Smallest
<1> USE DEF B
<1>4. T # {}
    <2>1. Total(A, T) \notin Nat
        BY <1>3
    <2>2. QED
        BY <2>1, TotalEmpty
<1>5. Next1(T) \in T /\ A[Next1(T)] \in Nat
    BY <1>3, <1>4, Next1In
<1>6. Total(A, T \ {Next1(T)}) \in Nat
    BY <1>3, <1>5
<1>7. Total(A, T) = A[Next1(T)] + Total(A, T \ {Next1(T)})
    BY <1>3, <1>4, TotalStep
<1>8. QED
    BY <1>3, <1>5, <1>6, <1>7

(* A part of natural numbers sums up to no more than the whole. *)
LEMMA TotalMore ==
    ASSUME NEW A, NEW S, IsFiniteSet(S), \A x \in S : A[x] \in Nat, NEW T \in SUBSET S
    PROVE  Total(A, T) <= Total(A, S)
<1> DEFINE Rest == S \ T
           B == {U \in SUBSET Rest : ~(Total(A, T) <= Total(A, T \cup U))}
<1>1. T \cup Rest = S /\ IsFiniteSet(Rest) /\ IsFiniteSet(T)
    BY FS_Subset
<1>2. SUFFICES ASSUME ~(Total(A, T) <= Total(A, S)) PROVE FALSE
    OBVIOUS
<1>3. B \subseteq SUBSET Rest /\ Rest \in B
    BY <1>1, <1>2
<1> HIDE DEF B
<1>4. PICK U \in B : /\ IsFiniteSet(U) /\ U \in SUBSET Rest
                     /\ \A V \in SUBSET U : V # U => V \notin B
    BY <1>1, <1>3, Smallest
<1> USE DEF B
<1>5. Total(A, T) \in Nat
    BY <1>1, TotalNat
<1>6. U # {}
    <2>1. ~(Total(A, T) <= Total(A, T \cup U))
        BY <1>4
    <2>2. T \cup {} = T
        OBVIOUS
    <2>3. QED
        BY <1>5, <2>1, <2>2
<1>7. PICK x \in U : TRUE
    BY <1>6
<1> DEFINE W == T \cup (U \ {x})
<1>8. Total(A, T) <= Total(A, W)
    BY <1>4, <1>7
<1>9. W \in SUBSET S /\ x \notin W /\ A[x] \in Nat /\ W \cup {x} = T \cup U
    BY <1>4, <1>7
<1>10. IsFiniteSet(W) /\ (\A y \in W : A[y] \in Int) /\ Total(A, W) \in Nat
    BY <1>9, FS_Subset, TotalNat
<1>11. Total(A, T \cup U) = Total(A, W) + A[x]
    <2> HIDE DEF W
    <2>1. Total(A, W \cup {x}) = Total(A, W) + A[x]
        BY <1>9, <1>10, TotalAdd
    <2>2. QED
        BY <1>9, <2>1
<1>12. ~(Total(A, T) <= Total(A, T \cup U))
    BY <1>4
<1> HIDE DEF W
<1>13. QED
    BY <1>5, <1>8, <1>9, <1>10, <1>11, <1>12

(* More elements add at most their number times their bound. *)
LEMMA TotalUpTo ==
    ASSUME NEW A, NEW S, IsFiniteSet(S), NEW T, IsFiniteSet(T),
           \A x \in S \cup T : A[x] \in Nat,
           NEW m \in Nat, \A x \in T : A[x] <= m
    PROVE  Total(A, S \cup T) <= Total(A, S) + Cardinality(T) * m
<1> DEFINE Fits(U) == Total(A, S \cup U) <= Total(A, S) + Cardinality(U) * m
           B == {U \in SUBSET T : ~Fits(U)}
<1>1. SUFFICES ASSUME ~Fits(T) PROVE FALSE
    OBVIOUS
<1>2. B \subseteq SUBSET T /\ T \in B
    BY <1>1
<1> HIDE DEF B
<1>3. PICK U \in B : /\ IsFiniteSet(U) /\ U \in SUBSET T
                     /\ \A V \in SUBSET U : V # U => V \notin B
    BY <1>2, Smallest
<1> USE DEF B
<1>4. Total(A, S) \in Nat
    BY TotalNat
<1>5. ~Fits(U)
    BY <1>3
<1>6. U # {}
    <2>1. Total(A, S \cup {}) = Total(A, S) /\ Cardinality({}) * m = 0
        BY FS_EmptySet
    <2>2. Fits({})
        BY <1>4, <2>1
    <2>3. QED
        BY <1>5, <2>2
<1>7. PICK x \in U : TRUE
    BY <1>6
<1> DEFINE V == U \ {x}
           W == S \cup V
<1>8. Fits(V)
    BY <1>3, <1>7
<1>9. /\ IsFiniteSet(V) /\ Cardinality(V) \in Nat
      /\ Cardinality(U) = Cardinality(V) + 1
    <2>1. IsFiniteSet(U) /\ x \in U
        BY <1>3, <1>7
    <2>2. IsFiniteSet(V) /\ Cardinality(V) = Cardinality(U) - 1
        BY <2>1, FS_RemoveElement
    <2>3. Cardinality(V) \in Nat /\ Cardinality(U) \in Nat
        BY <2>1, <2>2, FS_CardinalityType
    <2>4. QED
        BY <2>2, <2>3
<1>10. IsFiniteSet(W) /\ (\A y \in W : A[y] \in Nat) /\ Total(A, W) \in Nat
    <2>1. IsFiniteSet(W)
        BY <1>9, FS_Union
    <2>2. \A y \in W : A[y] \in Nat
        BY <1>3
    <2>3. QED
        BY <2>1, <2>2, TotalNat
<1>11. A[x] \in Nat /\ A[x] <= m
    BY <1>3, <1>7
<1>12. Total(A, S \cup U) <= Total(A, W) + m
    <2>1. CASE x \in W
        <3>1. S \cup U = W
            BY <1>7, <2>1
        <3>2. Total(A, S \cup U) = Total(A, W)
            BY <3>1
        <3> HIDE DEF W
        <3>3. QED
            BY <1>10, <3>2
    <2>2. CASE x \notin W
        <3>1. S \cup U = W \cup {x}
            BY <1>7
        <3> HIDE DEF W
        <3>2. Total(A, W \cup {x}) = Total(A, W) + A[x]
            BY <1>10, <1>11, <2>2, TotalAdd
        <3>3. Total(A, S \cup U) = Total(A, W) + A[x]
            BY <3>1, <3>2
        <3>4. QED
            BY <1>10, <1>11, <3>3
    <2>3. QED
        BY <2>1, <2>2
<1>13. Total(A, S \cup U) \in Nat
    BY <1>3, FS_Union, TotalNat
<1>14. Total(A, W) <= Total(A, S) + Cardinality(V) * m
    BY <1>8
<1> HIDE DEF V, W
<1>15. (Cardinality(V) + 1) * m = Cardinality(V) * m + m /\ Cardinality(V) * m \in Nat
    BY <1>9
<1>16. Fits(U)
    BY <1>4, <1>9, <1>10, <1>12, <1>13, <1>14, <1>15
<1>17. QED
    BY <1>5, <1>16

(* A finite set of integers has a greatest element. *)
LEMMA GreatestIn ==
    ASSUME NEW S, IsFiniteSet(S), S # {}, \A x \in S : x \in Int
    PROVE  \E x \in S : \A y \in S : x >= y
<1> DEFINE Has(T) == \E x \in T : \A y \in T : x >= y
           B == {T \in SUBSET S : ~(T = {} \/ Has(T))}
<1>1. SUFFICES ASSUME ~Has(S) PROVE FALSE
    OBVIOUS
<1>2. B \subseteq SUBSET S /\ S \in B
    BY <1>1
<1> HIDE DEF B
<1>3. PICK T \in B : /\ IsFiniteSet(T) /\ T \in SUBSET S
                     /\ \A U \in SUBSET T : U # T => U \notin B
    BY <1>2, Smallest
<1> USE DEF B
<1>4. T # {} /\ ~Has(T)
    BY <1>3
<1>5. PICK x \in T : TRUE
    BY <1>4
<1>6. CASE T \ {x} = {}
    <2>1. T = {x} /\ x \in Int
        BY <1>3, <1>5, <1>6
    <2>2. QED
        BY <1>4, <2>1
<1>7. CASE T \ {x} # {}
    <2>1. Has(T \ {x})
        BY <1>3, <1>5, <1>7
    <2>2. PICK y \in T \ {x} : \A z \in T \ {x} : y >= z
        BY <2>1
    <2>3. x \in Int /\ \A z \in T : z \in Int
        BY <1>3, <1>5
    <2>4. CASE x >= y
        <3>1. \A z \in T : x >= z
            BY <2>2, <2>3, <2>4
        <3>2. QED
            BY <1>4, <1>5, <3>1
    <2>5. CASE ~(x >= y)
        <3>1. \A z \in T : y >= z
            BY <2>2, <2>3, <2>5
        <3>2. QED
            BY <1>4, <2>2, <3>1
    <2>6. QED
        BY <2>4, <2>5
<1>8. QED
    BY <1>6, <1>7

(* The greatest element of a finite set of integers is what Max chooses. *)
LEMMA MaxIs ==
    ASSUME NEW S, IsFiniteSet(S), S # {}, \A x \in S : x \in Int
    PROVE  Max(S) \in S /\ \A x \in S : x <= Max(S)
<1>1. Max(S) \in S /\ \A y \in S : Max(S) >= y
    BY GreatestIn DEF Max
<1>2. QED
    BY <1>1
=============================================================================
