--------------------------- MODULE TotalsProofs ---------------------------
(***************************************************************************)
(* Facts about Total, each proved by counting unit pairs.                  *)
(***************************************************************************)
EXTENDS Totals, FiniteSetTheorems, TLAPS

LEMMA UnitsOfOne ==
  ASSUME NEW x, NEW n \in Nat
  PROVE  IsFiniteSet({x} \X (1 .. n)) /\ Cardinality({x} \X (1 .. n)) = n
<1>1. IsFiniteSet({x}) /\ Cardinality({x}) = 1
  BY FS_Singleton
<1>2. IsFiniteSet(1 .. n) /\ Cardinality(1 .. n) = n
  BY FS_Interval
<1>3. /\ IsFiniteSet({x} \X (1 .. n))
      /\ Cardinality({x} \X (1 .. n)) = Cardinality({x}) * Cardinality(1 .. n)
  BY <1>1, <1>2, FS_Product
<1>. QED  BY <1>1, <1>2, <1>3

LEMMA UnitsFinite ==
  ASSUME NEW S, IsFiniteSet(S), NEW f, \A x \in S : f[x] \in Nat
  PROVE  IsFiniteSet(UnitsOf(f, S))
<1>. DEFINE pairs == [x \in S |-> {x} \X (1 .. f[x])]
            P == {{x} \X (1 .. f[x]) : x \in S}
<1>1. IsFiniteSet(P)
  <2>1. pairs \in Surjection(S, P)
    BY DEF Surjection
  <2>. QED  BY <2>1, FS_Surjection
<1>2. ASSUME NEW T \in P PROVE IsFiniteSet(T)
  <2>1. PICK x \in S : T = {x} \X (1 .. f[x])
    OBVIOUS
  <2>. QED  BY <2>1, UnitsOfOne
<1>3. IsFiniteSet(UNION P)
  <2>. HIDE DEF P
  <2>. QED  BY <1>1, <1>2, FS_UNION
<1>. QED  BY <1>3 DEF UnitsOf

(* A total of natural numbers over finitely many keys is a natural number. *)
LEMMA TotalType ==
  ASSUME NEW S, IsFiniteSet(S), NEW f, \A x \in S : f[x] \in Nat
  PROVE  Total(f, S) \in Nat
BY UnitsFinite, FS_CardinalityType DEF Total

LEMMA TotalEmpty ==
  ASSUME NEW f
  PROVE  Total(f, {}) = 0
<1>1. UnitsOf(f, {}) = {}
  BY DEF UnitsOf
<1>. QED  BY <1>1, FS_EmptySet DEF Total

(* One key can be taken out of a total: what is left plus its own amount.  *)
LEMMA TotalSplit ==
  ASSUME NEW S, IsFiniteSet(S), NEW f, \A y \in S : f[y] \in Nat, NEW x \in S
  PROVE  Total(f, S) = Total(f, S \ {x}) + f[x]
<1>. DEFINE T == S \ {x}
            U == UnitsOf(f, T)
            V == {x} \X (1 .. f[x])
<1>1. IsFiniteSet(T)
  BY FS_RemoveElement
<1>2. IsFiniteSet(U)
  BY <1>1, UnitsFinite
<1>3. IsFiniteSet(V) /\ Cardinality(V) = f[x]
  BY UnitsOfOne
<1>4. U \cap V = {}
  BY DEF UnitsOf
<1>5. UnitsOf(f, S) = U \cup V
  BY DEF UnitsOf
<1>6. Cardinality(U \cup V) = Cardinality(U) + Cardinality(V) - Cardinality(U \cap V)
  <2>. HIDE DEF U, V
  <2>. QED  BY <1>2, <1>3, FS_Union
<1>7. Cardinality(U) \in Nat
  BY <1>2, FS_CardinalityType
<1>8. Cardinality(U \cap V) = 0
  BY <1>4, FS_EmptySet
<1>. QED  BY <1>3, <1>5, <1>6, <1>7, <1>8 DEF Total

(* A total depends only on the amounts of its own keys.                    *)
LEMMA TotalAgree ==
  ASSUME NEW S, NEW f, NEW g, \A x \in S : f[x] = g[x]
  PROVE  Total(f, S) = Total(g, S)
<1>1. UnitsOf(f, S) = UnitsOf(g, S)
  BY DEF UnitsOf
<1>. QED  BY <1>1 DEF Total

(* Lowering amounts and dropping keys never raises a total.                *)
LEMMA TotalMonotone ==
  ASSUME NEW S, IsFiniteSet(S), NEW R \in SUBSET S, NEW f, NEW g,
         \A x \in S : g[x] \in Nat,
         \A x \in R : f[x] \in Nat /\ f[x] <= g[x]
  PROVE  Total(f, R) <= Total(g, S)
<1>1. UnitsOf(f, R) \subseteq UnitsOf(g, S)
  BY DEF UnitsOf
<1>2. IsFiniteSet(UnitsOf(g, S))
  BY UnitsFinite
<1>. QED  BY <1>1, <1>2, FS_Subset DEF Total
=============================================================================
