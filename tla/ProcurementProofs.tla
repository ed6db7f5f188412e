------------------------- MODULE ProcurementProofs -------------------------
(***************************************************************************)
(* Proofs about asset requests and purchase orders, for every table of     *)
(* requests, groups, orders, lines, forms and quantities.                  *)
(*                                                                         *)
(* Part 1: asset requests on their own.  RequestInv is inductive: its      *)
(* parts are the properties the runs check, and they are proved together   *)
(* because the guards of one level (parent or unit) only exclude a bad     *)
(* step given the other level's part.                                      *)
(*                                                                         *)
(* Part 2: purchase orders implement what AssetRequests says of            *)
(* procurement.  Receiving and cancelling an order map to Release, which   *)
(* no group parent may take.  That needs an invariant about the link       *)
(* table: only units and single requests are linked                        *)
(* (_lock_fulfillment_targets links the units of a group, never its        *)
(* parent).                                                                *)
(*                                                                         *)
(* Part 3: the order's own books.  BookInv holds whatever is edited and    *)
(* deleted by hand; on top of it, what is credited stays, nothing is       *)
(* booked twice and the ledger of a line balances while nobody edits lines *)
(* by hand, and waiting units are supplied while nobody deletes lines.     *)
(*                                                                         *)
(* Part 0 is about sums over finite sets.  SumFunctionOnSet of the         *)
(* community modules is a recursive function on the subsets of a set;      *)
(* these lemmas are what the books use of it.  Induction is over the       *)
(* subsets of a finite set, by a smallest counterexample.                  *)
(***************************************************************************)
EXTENDS Procurement, FiniteSetTheorems, TLAPS

(* Part 0: sums *)

(* A set of subsets of a finite set that is not empty has a smallest one.   *)
LEMMA SmallestSubset ==
    ASSUME NEW U, IsFiniteSet(U), NEW T, T \subseteq SUBSET U, T # {}
    PROVE  \E x \in T : \A y \in T : y \subseteq x => y = x
  <1>1. IsWellFoundedOn(StrictSubsetOrdering(U), FiniteSubsetsOf(U))
    BY FS_StrictSubsetOrderingWellFounded
  <1>2. FiniteSubsetsOf(U) = SUBSET U
    BY FS_FiniteSubsetsOfFinite
  <1>3. PICK x \in T : \A y \in T : ~ (<<y, x>> \in StrictSubsetOrdering(U))
    BY <1>1, <1>2, WFMin
  <1>4. ASSUME NEW y \in T, y \subseteq x, y # x PROVE FALSE
    <2>1. <<y, x>> \in (SUBSET U) \X (SUBSET U)
      OBVIOUS
    <2>2. <<y, x>> \in StrictSubsetOrdering(U)
      BY <2>1, <1>4 DEF StrictSubsetOrdering
    <2> QED BY <2>2, <1>3
  <1> QED BY <1>3, <1>4

Any(s) == CHOOSE x \in s : TRUE

LEMMA AnyIsIn == ASSUME NEW s, s # {} PROVE Any(s) \in s
  BY DEF Any

IsSum(g, f, u) ==
    /\ g \in [SUBSET u -> Int]
    /\ \A s \in SUBSET u : g[s] = IF s = {} THEN 0 ELSE f[Any(s)] + g[s \ {Any(s)}]

LEMMA OneSum ==
    ASSUME NEW f, NEW u, NEW v, IsFiniteSet(u), NEW g, NEW h, IsSum(g, f, u), IsSum(h, f, v)
    PROVE  \A s \in SUBSET (u \cap v) : g[s] = h[s]
  <1> DEFINE T == {s \in SUBSET (u \cap v) : g[s] # h[s]}
  <1> SUFFICES ASSUME T # {} PROVE FALSE
    OBVIOUS
  <1>1. PICK s \in T : \A y \in T : y \subseteq s => y = s
    <2>1. T \subseteq SUBSET u
      OBVIOUS
    <2> HIDE DEF T
    <2> QED BY <2>1, SmallestSubset
  <1>2. s # {}
    BY DEF IsSum
  <1>3. Any(s) \in s
    BY <1>2, AnyIsIn
  <1>4. s \ {Any(s)} \notin T
    BY <1>1, <1>3
  <1>5. g[s \ {Any(s)}] = h[s \ {Any(s)}]
    BY <1>4
  <1>6. g[s] = h[s]
    BY <1>2, <1>5 DEF IsSum
  <1> QED BY <1>6

LEMMA SumExists ==
    ASSUME NEW U, IsFiniteSet(U), NEW f \in [U -> Int]
    PROVE  \A u \in SUBSET U : \E g : IsSum(g, f, u)
  <1> DEFINE T == {u \in SUBSET U : \A g : ~IsSum(g, f, u)}
  <1> SUFFICES ASSUME T # {} PROVE FALSE
    OBVIOUS
  <1>1. PICK t \in T : \A y \in T : y \subseteq t => y = t
    <2>1. T \subseteq SUBSET U
      OBVIOUS
    <2> HIDE DEF T
    <2> QED BY <2>1, SmallestSubset
  <1> DEFINE H(s) == CHOOSE g : IsSum(g, f, s)
  <1>2. ASSUME NEW s \in SUBSET t, s # t PROVE IsSum(H(s), f, s)
    <2>1. s \notin T
      BY <1>1, <1>2
    <2>2. \E g : IsSum(g, f, s)
      BY <2>1
    <2> QED BY <2>2
  <1>3. ASSUME NEW s \in SUBSET t, s # t, s # {}
        PROVE  /\ H(s)[s] = f[Any(s)] + H(s \ {Any(s)})[s \ {Any(s)}]
    <2>1. Any(s) \in s
      BY <1>3, AnyIsIn
    <2>2. s \ {Any(s)} \in SUBSET t /\ s \ {Any(s)} # t
      BY <2>1
    <2>3. IsFiniteSet(s)
      BY FS_Subset
    <2> HIDE DEF H
    <2>4. H(s)[s \ {Any(s)}] = H(s \ {Any(s)})[s \ {Any(s)}]
      <3>1. IsSum(H(s), f, s) /\ IsSum(H(s \ {Any(s)}), f, s \ {Any(s)})
        BY <1>2, <1>3, <2>2
      <3>2. \A r \in SUBSET (s \cap (s \ {Any(s)})) : H(s)[r] = H(s \ {Any(s)})[r]
        <4> DEFINE v == s \ {Any(s)}
        <4> HIDE DEF v
        <4>1. IsSum(H(v), f, v)
          BY <3>1 DEF v
        <4>2. \A r \in SUBSET (s \cap v) : H(s)[r] = H(v)[r]
          BY <2>3, <3>1, <4>1, OneSum
        <4> QED BY <4>2 DEF v
      <3>3. s \ {Any(s)} \in SUBSET (s \cap (s \ {Any(s)}))
        OBVIOUS
      <3> QED BY <3>2, <3>3
    <2>5. H(s)[s] = f[Any(s)] + H(s)[s \ {Any(s)}]
      BY <1>2, <1>3 DEF IsSum
    <2> QED BY <2>4, <2>5
  <1>4. ASSUME NEW s \in SUBSET t, s # t PROVE H(s)[s] \in Int /\ (s = {} => H(s)[s] = 0)
    <2> HIDE DEF H
    <2> QED BY <1>2, <1>4 DEF IsSum
  <1> HIDE DEF H
  <1> DEFINE total == IF t = {} THEN 0 ELSE f[Any(t)] + H(t \ {Any(t)})[t \ {Any(t)}]
             g == [s \in SUBSET t |-> IF s = t THEN total ELSE H(s)[s]]
  <1>5. total \in Int
    <2>1. CASE t = {}
      BY <2>1
    <2>2. CASE t # {}
      <3>1. Any(t) \in t
        BY <2>2, AnyIsIn
      <3>2. t \ {Any(t)} \in SUBSET t /\ t \ {Any(t)} # t
        BY <3>1
      <3> QED BY <3>1, <3>2, <1>4
    <2> QED BY <2>1, <2>2
  <1>6. g \in [SUBSET t -> Int]
    BY <1>4, <1>5
  <1>7. ASSUME NEW s \in SUBSET t
        PROVE  g[s] = IF s = {} THEN 0 ELSE f[Any(s)] + g[s \ {Any(s)}]
    <2>1. CASE s = {}
      BY <2>1, <1>4
    <2>2. CASE s # {}
      <3>1. Any(s) \in s
        BY <2>2, AnyIsIn
      <3>2. s \ {Any(s)} \in SUBSET t /\ s \ {Any(s)} # t
        BY <3>1
      <3>3. g[s \ {Any(s)}] = H(s \ {Any(s)})[s \ {Any(s)}]
        BY <3>2
      <3>4. CASE s = t
        BY <2>2, <3>3, <3>4
      <3>5. CASE s # t
        BY <2>2, <3>3, <3>5, <1>3
      <3> QED BY <3>4, <3>5
    <2> QED BY <2>1, <2>2
  <1>8. IsSum(g, f, t)
    BY <1>6, <1>7 DEF IsSum
  <1> QED BY <1>8

LEMMA SumIsSum ==
    ASSUME NEW U, IsFiniteSet(U), NEW f \in [U -> Int], NEW S \in SUBSET U
    PROVE  \E g : IsSum(g, f, S) /\ SumFunctionOnSet(f, S) = g[S]
  <1>1. PICK g : IsSum(g, f, S)
    BY SumExists
  <1> DEFINE it == CHOOSE iter : iter = [s \in SUBSET S |->
                      IF s = {} THEN 0 ELSE f[CHOOSE x \in s : TRUE] + iter[s \ {CHOOSE x \in s : TRUE}]]
  <1>2. SumFunctionOnSet(f, S) = it[S]
    BY DEF SumFunctionOnSet, FoldFunctionOnSet, MapThenFoldSet
  <1>3. g = [s \in SUBSET S |->
                      IF s = {} THEN 0 ELSE f[CHOOSE x \in s : TRUE] + g[s \ {CHOOSE x \in s : TRUE}]]
    BY <1>1 DEF IsSum, Any
  <1>4. it = [s \in SUBSET S |->
                      IF s = {} THEN 0 ELSE f[CHOOSE x \in s : TRUE] + it[s \ {CHOOSE x \in s : TRUE}]]
    BY <1>3, Zenon
  <1> HIDE DEF it
  <1>5. \A s \in SUBSET S : it[s] = IF s = {} THEN 0 ELSE f[Any(s)] + it[s \ {Any(s)}]
    BY <1>4 DEF Any
  <1>6. \A s \in SUBSET S : it[s] = g[s]
    <2> DEFINE T == {s \in SUBSET S : it[s] # g[s]}
    <2> SUFFICES ASSUME T # {} PROVE FALSE
      OBVIOUS
    <2>1. PICK s \in T : \A y \in T : y \subseteq s => y = s
      <3>1. T \subseteq SUBSET U
        OBVIOUS
      <3> HIDE DEF T
      <3> QED BY <3>1, SmallestSubset
    <2>2. s # {}
      BY <1>1, <1>5 DEF IsSum
    <2>3. Any(s) \in s
      BY <2>2, AnyIsIn
    <2>4. s \ {Any(s)} \notin T
      BY <2>1, <2>3
    <2>5. it[s \ {Any(s)}] = g[s \ {Any(s)}]
      BY <2>4
    <2> QED BY <1>1, <1>5, <2>2, <2>5 DEF IsSum
  <1> QED BY <1>1, <1>2, <1>6
-----------------------------------------------------------------------------
(* One function has all the sums of f over the subsets of U. *)
LEMMA AllSums ==
    ASSUME NEW U, IsFiniteSet(U), NEW f \in [U -> Int]
    PROVE  \E g : IsSum(g, f, U) /\ \A S \in SUBSET U : SumFunctionOnSet(f, S) = g[S]
  <1>1. PICK g : IsSum(g, f, U)
    BY SumExists
  <1>2. ASSUME NEW S \in SUBSET U PROVE SumFunctionOnSet(f, S) = g[S]
    <2>1. PICK h : IsSum(h, f, S) /\ SumFunctionOnSet(f, S) = h[S]
      BY SumIsSum
    <2>2. \A s \in SUBSET (U \cap S) : g[s] = h[s]
      BY <1>1, <2>1, OneSum
    <2> QED BY <2>1, <2>2
  <1> QED BY <1>1, <1>2

LEMMA SumType ==
    ASSUME NEW U, IsFiniteSet(U), NEW f \in [U -> Int], NEW S \in SUBSET U
    PROVE  SumFunctionOnSet(f, S) \in Int
  <1>1. PICK g : IsSum(g, f, U) /\ \A s \in SUBSET U : SumFunctionOnSet(f, s) = g[s]
    BY AllSums
  <1> QED BY <1>1 DEF IsSum

LEMMA SumEmpty ==
    ASSUME NEW U, IsFiniteSet(U), NEW f \in [U -> Int]
    PROVE  SumFunctionOnSet(f, {}) = 0
  <1>1. PICK g : IsSum(g, f, U) /\ \A s \in SUBSET U : SumFunctionOnSet(f, s) = g[s]
    BY AllSums
  <1>2. {} \in SUBSET U
    OBVIOUS
  <1> QED BY <1>1, <1>2 DEF IsSum

(* The order in which the elements are added does not matter. *)
LEMMA SumRemove ==
    ASSUME NEW U, IsFiniteSet(U), NEW f \in [U -> Int], NEW S \in SUBSET U, NEW x \in S
    PROVE  SumFunctionOnSet(f, S) = f[x] + SumFunctionOnSet(f, S \ {x})
  <1>1. PICK g : IsSum(g, f, U) /\ \A s \in SUBSET U : SumFunctionOnSet(f, s) = g[s]
    BY AllSums
  <1> DEFINE T == {s \in SUBSET U : \E y \in s : g[s] # f[y] + g[s \ {y}]}
  <1>2. ASSUME T # {} PROVE FALSE
    <2>1. PICK s \in T : \A y \in T : y \subseteq s => y = s
      <3>1. T \subseteq SUBSET U
        OBVIOUS
      <3> HIDE DEF T
      <3> QED BY <1>2, <3>1, SmallestSubset
    <2>2. PICK y \in s : g[s] # f[y] + g[s \ {y}]
      OBVIOUS
    <2> DEFINE p == Any(s)
    <2>3. p \in s
      BY AnyIsIn
    <2>4. g[s] = f[p] + g[s \ {p}]
      BY <1>1, <2>3 DEF IsSum
    <2> HIDE DEF p
    <2>5. p # y
      BY <2>2, <2>4
    <2>6. /\ s \ {p} \in SUBSET U /\ s \ {p} \notin T
          /\ s \ {y} \in SUBSET U /\ s \ {y} \notin T
      BY <2>1, <2>3
    <2>7. g[s \ {p}] = f[y] + g[(s \ {p}) \ {y}]
      BY <2>5, <2>6
    <2>8. g[s \ {y}] = f[p] + g[(s \ {y}) \ {p}]
      BY <2>3, <2>5, <2>6
    <2>9. (s \ {p}) \ {y} = (s \ {y}) \ {p} /\ (s \ {p}) \ {y} \in SUBSET U
      OBVIOUS
    <2>10. f[p] \in Int /\ f[y] \in Int /\ g[(s \ {p}) \ {y}] \in Int
      BY <1>1, <2>3, <2>9 DEF IsSum
    <2>11. g[s \ {y}] = f[p] + g[(s \ {p}) \ {y}]
      BY <2>8, <2>9
    <2>12. \A a, b, c \in Int : a + (b + c) = b + (a + c)
      OBVIOUS
    <2>13. g[s] = f[y] + g[s \ {y}]
      BY <2>4, <2>7, <2>10, <2>11, <2>12
    <2> QED BY <2>2, <2>13
  <1>3. g[S] = f[x] + g[S \ {x}]
    BY <1>2
  <1> QED BY <1>1, <1>3

(* Two sums, term by term. *)
LEMMA SumLeq ==
    ASSUME NEW U, IsFiniteSet(U), NEW f \in [U -> Int], NEW h \in [U -> Int],
           NEW S \in SUBSET U, \A x \in S : f[x] <= h[x]
    PROVE  SumFunctionOnSet(f, S) <= SumFunctionOnSet(h, S)
  <1> DEFINE F(s) == SumFunctionOnSet(f, s)
             H(s) == SumFunctionOnSet(h, s)
             T == {s \in SUBSET S : ~(F(s) <= H(s))}
  <1>1. F({}) = 0 /\ H({}) = 0
    BY SumEmpty
  <1>2. ASSUME NEW s \in SUBSET S, NEW x \in s
        PROVE  /\ F(s) = f[x] + F(s \ {x}) /\ H(s) = h[x] + H(s \ {x})
               /\ F(s \ {x}) \in Int /\ H(s \ {x}) \in Int
    <2>1. s \in SUBSET U /\ s \ {x} \in SUBSET U
      OBVIOUS
    <2>2. F(s) = f[x] + F(s \ {x}) /\ H(s) = h[x] + H(s \ {x})
      BY <2>1, SumRemove
    <2>3. F(s \ {x}) \in Int /\ H(s \ {x}) \in Int
      BY <2>1, SumType
    <2> QED BY <2>2, <2>3
  <1> HIDE DEF F, H
  <1> SUFFICES ASSUME T # {} PROVE FALSE
    BY DEF F, H
  <1>3. PICK s \in T : \A y \in T : y \subseteq s => y = s
    <2>1. T \subseteq SUBSET U
      OBVIOUS
    <2> HIDE DEF T
    <2> QED BY <2>1, SmallestSubset
  <1>4. PICK x : x \in s
    <2>1. {} \notin T
      BY <1>1
    <2> HIDE DEF T
    <2> QED BY <1>3, <2>1
  <1>5. s \ {x} \notin T
    BY <1>3, <1>4
  <1>6. F(s \ {x}) <= H(s \ {x}) /\ f[x] <= h[x] /\ f[x] \in Int /\ h[x] \in Int
    BY <1>4, <1>5
  <1> QED BY <1>2, <1>3, <1>4, <1>6

LEMMA SumSame ==
    ASSUME NEW U, IsFiniteSet(U), NEW f \in [U -> Int], NEW h \in [U -> Int],
           NEW S \in SUBSET U, \A x \in S : f[x] = h[x]
    PROVE  SumFunctionOnSet(f, S) = SumFunctionOnSet(h, S)
  <1>1. \A x \in S : f[x] <= h[x] /\ h[x] <= f[x]
    OBVIOUS
  <1>2. /\ SumFunctionOnSet(f, S) <= SumFunctionOnSet(h, S)
        /\ SumFunctionOnSet(h, S) <= SumFunctionOnSet(f, S)
    BY <1>1, SumLeq
  <1>3. SumFunctionOnSet(f, S) \in Int /\ SumFunctionOnSet(h, S) \in Int
    BY SumType
  <1> QED BY <1>2, <1>3

(* The sum of sums. *)
LEMMA SumPlus ==
    ASSUME NEW U, IsFiniteSet(U), NEW f \in [U -> Int], NEW g \in [U -> Int],
           NEW h \in [U -> Int], \A x \in U : h[x] = f[x] + g[x], NEW S \in SUBSET U
    PROVE  SumFunctionOnSet(h, S) = SumFunctionOnSet(f, S) + SumFunctionOnSet(g, S)
  <1> DEFINE F(s) == SumFunctionOnSet(f, s)
             G(s) == SumFunctionOnSet(g, s)
             H(s) == SumFunctionOnSet(h, s)
             T == {s \in SUBSET U : H(s) # F(s) + G(s)}
  <1>1. F({}) = 0 /\ G({}) = 0 /\ H({}) = 0
    BY SumEmpty
  <1>2. ASSUME NEW s \in SUBSET U, NEW x \in s
        PROVE  /\ F(s) = f[x] + F(s \ {x}) /\ G(s) = g[x] + G(s \ {x})
               /\ H(s) = h[x] + H(s \ {x})
               /\ F(s \ {x}) \in Int /\ G(s \ {x}) \in Int /\ H(s \ {x}) \in Int
    <2>1. s \ {x} \in SUBSET U
      OBVIOUS
    <2>2. /\ F(s) = f[x] + F(s \ {x}) /\ G(s) = g[x] + G(s \ {x})
          /\ H(s) = h[x] + H(s \ {x})
      BY SumRemove
    <2>3. F(s \ {x}) \in Int /\ G(s \ {x}) \in Int /\ H(s \ {x}) \in Int
      BY <2>1, SumType
    <2> QED BY <2>2, <2>3
  <1> HIDE DEF F, G, H
  <1> SUFFICES ASSUME T # {} PROVE FALSE
    BY DEF F, G, H
  <1>3. PICK s \in T : \A y \in T : y \subseteq s => y = s
    <2>1. T \subseteq SUBSET U
      OBVIOUS
    <2> HIDE DEF T
    <2> QED BY <2>1, SmallestSubset
  <1>4. PICK x : x \in s
    <2>1. {} \notin T
      BY <1>1
    <2> HIDE DEF T
    <2> QED BY <1>3, <2>1
  <1>5. s \ {x} \notin T
    BY <1>3, <1>4
  <1>6. /\ H(s \ {x}) = F(s \ {x}) + G(s \ {x}) /\ h[x] = f[x] + g[x]
        /\ f[x] \in Int /\ g[x] \in Int
    BY <1>4, <1>5
  <1> QED BY <1>2, <1>3, <1>4, <1>6

(* A sum of nothing but zeros, and one without negative terms. *)
LEMMA SumZero ==
    ASSUME NEW U, IsFiniteSet(U), NEW f \in [U -> Int], NEW S \in SUBSET U,
           \A x \in S : f[x] = 0
    PROVE  SumFunctionOnSet(f, S) = 0
  <1> DEFINE F(s) == SumFunctionOnSet(f, s)
             T == {s \in SUBSET S : F(s) # 0}
  <1>1. F({}) = 0
    BY SumEmpty
  <1>2. ASSUME NEW s \in SUBSET S, NEW x \in s PROVE F(s) = f[x] + F(s \ {x})
    BY SumRemove, s \in SUBSET U
  <1> HIDE DEF F
  <1> SUFFICES ASSUME T # {} PROVE FALSE
    BY DEF F
  <1>3. PICK s \in T : \A y \in T : y \subseteq s => y = s
    <2>1. T \subseteq SUBSET U
      OBVIOUS
    <2> HIDE DEF T
    <2> QED BY <2>1, SmallestSubset
  <1>4. PICK x : x \in s
    <2>1. {} \notin T
      BY <1>1
    <2> HIDE DEF T
    <2> QED BY <1>3, <2>1
  <1>5. s \ {x} \notin T
    BY <1>3, <1>4
  <1> QED BY <1>2, <1>3, <1>4, <1>5

LEMMA SumNat ==
    ASSUME NEW U, IsFiniteSet(U), NEW f \in [U -> Int], NEW S \in SUBSET U,
           \A x \in S : f[x] \in Nat
    PROVE  SumFunctionOnSet(f, S) \in Nat
  <1> DEFINE z == [x \in U |-> 0]
  <1>1. z \in [U -> Int] /\ \A x \in S : z[x] = 0 /\ z[x] <= f[x]
    OBVIOUS
  <1> HIDE DEF z
  <1>2. SumFunctionOnSet(z, S) = 0
    BY <1>1, SumZero
  <1>3. SumFunctionOnSet(z, S) <= SumFunctionOnSet(f, S)
    BY <1>1, SumLeq
  <1> QED BY <1>2, <1>3, SumType

(* A set of naturals that is finite and not empty has a largest element. *)
LEMMA LargestElement ==
    ASSUME NEW S, IsFiniteSet(S), S \subseteq Nat, S # {}
    PROVE  \E m \in S : \A x \in S : x <= m
  <1> DEFINE above(m) == {x \in S : x > m}
             T == {above(m) : m \in S}
  <1>1. T \subseteq SUBSET S /\ T # {}
    OBVIOUS
  <1>2. \E t \in T : \A y \in T : y \subseteq t => y = t
    <2> HIDE DEF T
    <2> QED BY ONLY IsFiniteSet(S), <1>1, SmallestSubset
  <1> PICK t \in T : \A y \in T : y \subseteq t => y = t
    BY <1>2
  <1>3. PICK m \in S : t = above(m)
    OBVIOUS
  <1>4. ASSUME NEW x \in S, x > m PROVE FALSE
    <2>1. \A i, j, k \in Nat : i > j /\ j > k => i > k /\ ~(j > j)
      OBVIOUS
    <2>2. above(x) \subseteq above(m)
      BY <1>4, <2>1
    <2>3. x \in above(m) /\ x \notin above(x)
      BY <1>4
    <2>4. above(x) \in T
      OBVIOUS
    <2> QED BY <1>3, <2>2, <2>3, <2>4
  <1>5. \A x \in S : x <= m
    BY <1>4
  <1> QED BY <1>5

(* Elements that add nothing can be left out. *)
LEMMA SumRestrict ==
    ASSUME NEW U, IsFiniteSet(U), NEW f \in [U -> Int], NEW S \in SUBSET U, NEW V \in SUBSET S,
           \A x \in S : x \notin V => f[x] = 0
    PROVE  SumFunctionOnSet(f, S) = SumFunctionOnSet(f, V)
  <1> DEFINE F(s) == SumFunctionOnSet(f, s)
             T == {s \in SUBSET S : V \subseteq s /\ F(s) # F(V)}
  <1>1. ASSUME NEW s \in SUBSET S, NEW x \in s PROVE F(s) = f[x] + F(s \ {x})
    BY SumRemove, s \in SUBSET U
  <1>2. ASSUME NEW s \in SUBSET S PROVE F(s) \in Int
    BY SumType, s \in SUBSET U
  <1> HIDE DEF F
  <1> SUFFICES ASSUME T # {} PROVE FALSE
    BY DEF F
  <1>3. PICK s \in T : \A y \in T : y \subseteq s => y = s
    <2>1. T \subseteq SUBSET U
      OBVIOUS
    <2> HIDE DEF T
    <2> QED BY <2>1, SmallestSubset
  <1>4. s \in SUBSET S /\ V \subseteq s /\ F(s) # F(V)
    OBVIOUS
  <1>5. PICK x : x \in s /\ x \notin V
    BY <1>4
  <1>6. s \ {x} \notin T
    BY <1>3, <1>5
  <1>7. F(s \ {x}) = F(V)
    BY <1>4, <1>5, <1>6
  <1>8. F(s) = f[x] + F(s \ {x}) /\ f[x] = 0 /\ F(s \ {x}) \in Int
    BY <1>1, <1>2, <1>4, <1>5
  <1> QED BY <1>4, <1>7, <1>8

(* Serving in order.  Every element of R asks for f[x]; g[x] is what it     *)
(* gets of n when the smaller ones are served first.                        *)
ServesInOrder(f, g, R, n) ==
    \A x \in R : LET before == SumFunctionOnSet(f, {c \in R : c < x}) IN
        g[x] = IF n <= before THEN 0 ELSE IF n - before < f[x] THEN n - before ELSE f[x]

(* Together they get at most n. *)
LEMMA ServedInOrder ==
    ASSUME NEW U, IsFiniteSet(U), NEW f \in [U -> Int], NEW g \in [U -> Int],
           NEW R \in SUBSET U, R \subseteq Nat, \A x \in R : f[x] \in Nat, NEW n \in Nat,
           ServesInOrder(f, g, R, n)
    PROVE  SumFunctionOnSet(g, R) <= n
  <1> DEFINE F(s) == SumFunctionOnSet(f, s)
             G(s) == SumFunctionOnSet(g, s)
             Down(s) == \A c \in s, d \in R : d < c => d \in s
             T == {s \in SUBSET R : Down(s) /\ G(s) # IF F(s) <= n THEN F(s) ELSE n}
  <1>1. /\ f \in [U -> Int] /\ g \in [U -> Int] /\ IsFiniteSet(U) /\ R \in SUBSET U
        /\ \A x \in R : f[x] \in Nat
    OBVIOUS
  <1>2. F({}) = 0 /\ G({}) = 0
    BY ONLY <1>1, SumEmpty
  <1>3. ASSUME NEW s \in SUBSET R, NEW x \in s
        PROVE  F(s) = f[x] + F(s \ {x}) /\ G(s) = g[x] + G(s \ {x})
    <2>1. F(s) = f[x] + F(s \ {x})
      BY ONLY <1>1, s \in SUBSET R, x \in s, SumRemove
    <2>2. G(s) = g[x] + G(s \ {x})
      BY ONLY <1>1, s \in SUBSET R, x \in s, SumRemove
    <2> QED BY <2>1, <2>2
  <1>4. ASSUME NEW s \in SUBSET R PROVE F(s) \in Nat
    <2>1. \A x \in s : f[x] \in Nat
      OBVIOUS
    <2> QED BY ONLY <1>1, <2>1, s \in SUBSET R, SumNat
  <1>5. \A x \in R : g[x] = IF n <= F({c \in R : c < x}) THEN 0
                            ELSE IF n - F({c \in R : c < x}) < f[x]
                                 THEN n - F({c \in R : c < x}) ELSE f[x]
    BY DEF ServesInOrder
  <1> HIDE DEF F, G
  <1>6. T = {}
    <2> SUFFICES ASSUME T # {} PROVE FALSE
      OBVIOUS
    <2>1. PICK s \in T : \A y \in T : y \subseteq s => y = s
      <3>1. T \subseteq SUBSET U
        OBVIOUS
      <3> HIDE DEF T
      <3> QED BY ONLY <1>1, T # {}, <3>1, SmallestSubset
    <2>2. s \in SUBSET R /\ Down(s) /\ G(s) # IF F(s) <= n THEN F(s) ELSE n
      OBVIOUS
    <2>3. s # {}
      BY <1>2, <2>2
    <2>4. IsFiniteSet(s) /\ s \subseteq Nat
      <3>1. IsFiniteSet(s)
        BY ONLY <1>1, <2>2, FS_Subset
      <3> QED BY <2>2, <3>1
    <2>5. PICK m \in s : \A x \in s : x <= m
      BY ONLY <2>3, <2>4, LargestElement
    <2> DEFINE r == s \ {m}
    <2>6. r \in SUBSET R /\ Down(r)
      BY <2>2, <2>4, <2>5
    <2>7. r \notin T
      BY <2>1, <2>5
    <2>8. G(r) = IF F(r) <= n THEN F(r) ELSE n
      BY <2>6, <2>7
    <2>9. {c \in R : c < m} = r
      <3>1. m \in Nat /\ ~(m < m) /\ \A c \in s : c # m => c < m
        BY <2>4, <2>5
      <3>2. \A c \in R : c < m => c \in s
        BY <2>2, <2>5
      <3> QED BY <2>2, <3>1, <3>2
    <2>10. m \in R /\ f[m] \in Nat
      BY <2>2, <2>5
    <2>11. g[m] = IF n <= F(r) THEN 0 ELSE IF n - F(r) < f[m] THEN n - F(r) ELSE f[m]
      BY <1>5, <2>9, <2>10
    <2>12. F(s) = f[m] + F(r) /\ G(s) = g[m] + G(r)
      BY <1>3, <2>2, <2>5
    <2>13. F(r) \in Nat
      BY <1>4, <2>6
    <2> HIDE DEF r
    <2> QED BY <2>2, <2>8, <2>10, <2>11, <2>12, <2>13
  <1>7. G(R) = IF F(R) <= n THEN F(R) ELSE n
    BY <1>6
  <1> QED BY <1>4, <1>7 DEF G

-----------------------------------------------------------------------------
(* Part 1: asset requests *)

RequestInv == RequestTypeOK /\ GroupInv

-----------------------------------------------------------------------------
(* A unit has no units of its own, and a parent is a group. *)
LEMMA TwoLevels ==
    ASSUME NEW c \in Requests, Parent[c] # NoRequest
    PROVE  /\ Parent[c] \in Requests
           /\ Parent[Parent[c]] = NoRequest
           /\ c \in SubRequests(Parent[c])
           /\ IsGroup(Parent[c])
           /\ ~IsGroup(c)
BY RequestAssumption DEF SubRequests, IsGroup

(* Moved, the write of ApproveRequest, DenyRequest, CancelRequest and       *)
(* linking, changes exactly the statuses of S.                              *)
LEMMA MovedRows ==
    ASSUME RequestTypeOK, NEW S, NEW new \in Statuses
    PROVE  /\ Moved(S, new) \in [Requests -> Request]
           /\ \A r \in Requests : Moved(S, new)[r].status = IF r \in S THEN new ELSE Status(r)
BY DEF Moved, RequestTypeOK, Request, Statuses, Status

(* Fulfilled, the write of every completion, changes exactly the statuses   *)
(* of S.                                                                    *)
LEMMA FulfilledRows ==
    ASSUME RequestTypeOK, NEW S, NEW handover \in BOOLEAN
    PROVE  /\ Fulfilled(S, handover) \in [Requests -> Request]
           /\ \A r \in Requests : Fulfilled(S, handover)[r].status =
                                     IF r \in S THEN "fulfilled" ELSE Status(r)
BY DEF Fulfilled, RequestTypeOK, Request, Statuses, Status

(* The signal completes at most the parent of the unit, and only an         *)
(* approved parent without open units.                                      *)
LEMMA ParentCompletedRows ==
    ASSUME NEW rows \in [Requests -> Request], NEW r \in Requests
    PROVE  /\ ParentCompleted(rows, r) \in [Requests -> Request]
           /\ \A p \in Requests :
                \/ ParentCompleted(rows, r)[p] = rows[p]
                \/ /\ p = Parent[r] /\ rows[p].status = "approved"
                   /\ ParentCompleted(rows, r)[p].status = "fulfilled"
                   /\ \A c \in SubRequests(p) : rows[c].status \in Terminal
BY DEF ParentCompleted, Request, Statuses

(* Released, the write of receiving and of cancelling an order, approves    *)
(* the units D and the parents nobody waits under any more.                 *)
LEMMA ReleasedRows ==
    ASSUME RequestTypeOK, NEW D, NEW served \in BOOLEAN
    PROVE  /\ Released(D, served) \in [Requests -> Request]
           /\ \A r \in Requests : Released(D, served)[r].status =
                 IF r \in D \cup CompletedParents(D) THEN "approved" ELSE Status(r)
BY DEF Released, RequestTypeOK, Request, Statuses, Status

-----------------------------------------------------------------------------
(* A step is sound when the next table is well typed, its groups are        *)
(* consistent and every request moved along its lifecycle.                  *)
Sound == RequestTypeOK' /\ GroupInv' /\ LifecycleStep

USE DEF Terminal

(* Approval, denial and a change of the asset alone. *)
LEMMA ApproveSound ==
    ASSUME RequestInv, NEW r \in Requests, ApproveRequest(r)
    PROVE  Sound
<1> DEFINE S == {r} \cup {c \in SubRequests(r) : Status(c) = "pending"}
<1>1. PICK asset \in {"none", "held"}, qty \in 1 .. requests[r].qty :
          requests' = [Moved(S, "approved") EXCEPT ![r].asset = asset, ![r].qty = qty]
  BY DEF ApproveRequest
<1>2. /\ Moved(S, "approved") \in [Requests -> Request]
      /\ \A x \in Requests : Moved(S, "approved")[x].status = IF x \in S THEN "approved" ELSE Status(x)
  BY MovedRows DEF RequestInv, Statuses
<1>3. requests[r].qty \in Nat \ {0}
  BY DEF RequestInv, RequestTypeOK, Request
<1> HIDE DEF S
<1>4. RequestTypeOK'
  BY <1>1, <1>2, <1>3 DEF RequestTypeOK, Request
<1>5. \A x \in Requests : requests'[x].status = IF x \in S THEN "approved" ELSE Status(x)
  BY <1>1, <1>2 DEF Request
<1>6. \A x \in S \cap Requests : Status(x) = "pending"
  BY DEF S, ApproveRequest
<1> QED
  BY <1>4, <1>5, <1>6, TwoLevels
  DEF Sound, RequestInv, GroupInv, UnitsAwaitWithParent, ClosedGroupIsClosed, LifecycleStep, Status, S

LEMMA DenySound ==
    ASSUME RequestInv, NEW r \in Requests, DenyRequest(r)
    PROVE  Sound
<1> DEFINE S == {r} \cup {c \in SubRequests(r) : Status(c) = "pending"}
<1>1. requests' = Moved(S, "denied")
  BY DEF DenyRequest
<1>2. RequestTypeOK' /\ \A x \in Requests : requests'[x].status = IF x \in S THEN "denied" ELSE Status(x)
  BY <1>1, MovedRows DEF RequestInv, Statuses, RequestTypeOK
<1>3. \A x \in S \cap Requests : Status(x) = "pending"
  BY DEF DenyRequest
<1> QED
  BY <1>2, <1>3, TwoLevels
  DEF Sound, RequestInv, GroupInv, UnitsAwaitWithParent, ClosedGroupIsClosed, LifecycleStep, Status

LEMMA AssetSound ==
    ASSUME RequestInv, NEW r \in Requests,
           CheckoutElsewhere(r) \/ CheckinAsset(r) \/ BulkReceive(r)
    PROVE  Sound
<1>1. RequestTypeOK' /\ \A x \in Requests : requests'[x].status = Status(x)
  BY DEF RequestInv, RequestTypeOK, Request, CheckoutElsewhere, CheckinAsset, BulkReceive, Status
<1> QED
  BY <1>1, TwoLevels
  DEF Sound, RequestInv, GroupInv, UnitsAwaitWithParent, ClosedGroupIsClosed, LifecycleStep, Status

(* Cancelling closes the request and every unit that is not closed; a       *)
(* denied unit is refused by save().                                        *)
LEMMA CancelSound ==
    ASSUME RequestInv, NEW r \in Requests, CancelRequest(r)
    PROVE  Sound
<1> DEFINE S == {r} \cup CancelledUnits(r)
<1>1. RequestTypeOK' /\ \A x \in Requests : requests'[x].status = IF x \in S THEN "cancelled" ELSE Status(x)
  BY MovedRows DEF RequestInv, CancelRequest, Statuses, RequestTypeOK
<1>2. \A x \in S \cap Requests : Status(x) \notin Terminal
  BY DEF CancelRequest, MaySave, ValidTransitions, CancelledUnits, Status
<1>3. \A c \in Requests : Parent[c] = r => requests'[c].status \in Terminal
  BY <1>1 DEF CancelledUnits, SubRequests
<1>4. \A c \in S \cap Requests : c # r => Parent[c] = r
  BY DEF CancelledUnits, SubRequests
<1>5. UnitsAwaitWithParent'
  BY <1>1, <1>3, <1>4, TwoLevels, RequestAssumption
  DEF RequestInv, GroupInv, UnitsAwaitWithParent, Status
<1>6. ClosedGroupIsClosed'
  <2> SUFFICES ASSUME NEW c \in Requests, Parent[c] # NoRequest,
                      requests'[Parent[c]].status \in {"cancelled", "fulfilled"}
               PROVE  requests'[c].status \in Terminal
    BY DEF ClosedGroupIsClosed, Status
  <2>1. CASE Parent[c] = r
    BY <2>1, <1>3
  <2>2. CASE Parent[c] # r
    <3>1. Parent[c] \in Requests /\ Parent[c] \notin S
      BY <2>2, <1>4, TwoLevels, RequestAssumption
    <3>2. Status(c) \in Terminal
      BY <3>1, <1>1 DEF RequestInv, GroupInv, ClosedGroupIsClosed, Status
    <3> QED BY <3>2, <1>1
  <2> QED BY <2>1, <2>2
<1>7. LifecycleStep
  BY <1>1, <1>2 DEF LifecycleStep
<1> QED
  BY <1>1, <1>5, <1>6, <1>7 DEF Sound, GroupInv

(* The three ways to complete a request.  In all of them the completed rows *)
(* were approved, or the checkout matched a pending unit. *)
LEMMA CompletableFacts ==
    ASSUME RequestInv, NEW r \in Requests, Completable(r)
    PROVE  /\ Status(r) = "approved"
           /\ CompletableUnits(r) \subseteq Requests
           /\ \A c \in CompletableUnits(r) : Status(c) = "approved"
           /\ IsGroup(r) => \A c \in CompletableUnits(r) : Parent[c] = r
           /\ \A c \in Requests : Parent[c] = r /\ c \notin CompletableUnits(r)
                                      => Status(c) \in Terminal
           /\ ~IsGroup(r) => CompletableUnits(r) = {r}
BY DEF Completable, CompletableUnits, OpenUnits, SubRequests, IsGroup

(* Completing a group with its open units. *)
LEMMA GroupCompletionSound ==
    ASSUME RequestInv, NEW r \in Requests, Completable(r), IsGroup(r), NEW handover \in BOOLEAN,
           requests' = [Fulfilled(CompletableUnits(r), handover) EXCEPT ![r].status = "fulfilled"]
    PROVE  Sound
<1> DEFINE U == CompletableUnits(r)
<1>1. /\ Fulfilled(U, handover) \in [Requests -> Request]
      /\ \A x \in Requests : Fulfilled(U, handover)[x].status = IF x \in U THEN "fulfilled" ELSE Status(x)
  BY FulfilledRows DEF RequestInv
<1>2. RequestTypeOK'
  BY <1>1 DEF RequestTypeOK, Request, Statuses
<1>3. \A x \in Requests : requests'[x].status = IF x \in {r} \cup U THEN "fulfilled" ELSE Status(x)
  BY <1>1 DEF Request
<1>4. \A x \in ({r} \cup U) \cap Requests : Status(x) = "approved"
  BY CompletableFacts
<1>5. \A c \in Requests : Parent[c] = r => requests'[c].status \in Terminal
  BY <1>3, CompletableFacts
<1>6. \A c \in U : Parent[c] = r
  BY CompletableFacts
<1> HIDE DEF U
<1>7. UnitsAwaitWithParent'
  BY <1>3, <1>4, TwoLevels DEF RequestInv, GroupInv, UnitsAwaitWithParent, Status
<1>8. ClosedGroupIsClosed'
  <2> SUFFICES ASSUME NEW c \in Requests, Parent[c] # NoRequest,
                      requests'[Parent[c]].status \in {"cancelled", "fulfilled"}
               PROVE  requests'[c].status \in Terminal
    BY DEF ClosedGroupIsClosed, Status
  <2>1. CASE Parent[c] = r
    BY <2>1, <1>5
  <2>2. CASE Parent[c] # r
    <3>1. Parent[c] \in Requests /\ Parent[c] \notin {r} \cup U
      BY <2>2, <1>6, TwoLevels, RequestAssumption
    <3>2. Status(c) \in Terminal
      BY <3>1, <1>3 DEF RequestInv, GroupInv, ClosedGroupIsClosed, Status
    <3> QED BY <3>2, <1>3
  <2> QED BY <2>1, <2>2
<1>9. LifecycleStep
  BY <1>3, <1>4 DEF LifecycleStep
<1> QED
  BY <1>2, <1>7, <1>8, <1>9 DEF Sound, GroupInv

(* Completing one request or unit, whose parent follows or not. *)
LEMMA UnitCompletionSound ==
    ASSUME RequestInv, NEW r \in Requests, ~IsGroup(r), NEW handover \in BOOLEAN,
           Status(r) \in {"pending", "approved"},
           \/ requests' = Fulfilled({r}, handover)
           \/ requests' = ParentCompleted(Fulfilled({r}, handover), r)
    PROVE  Sound
<1> DEFINE rows == Fulfilled({r}, handover)
<1>1. /\ rows \in [Requests -> Request]
      /\ \A x \in Requests : rows[x].status = IF x = r THEN "fulfilled" ELSE Status(x)
  BY FulfilledRows DEF RequestInv
<1>2. /\ requests' \in [Requests -> Request]
      /\ \A p \in Requests :
           \/ requests'[p] = rows[p]
           \/ /\ p = Parent[r] /\ rows[p].status = "approved"
              /\ requests'[p].status = "fulfilled"
              /\ \A c \in SubRequests(p) : rows[c].status \in Terminal
  <2> HIDE DEF rows
  <2>1. CASE requests' = rows
    BY <2>1, <1>1
  <2>2. CASE requests' = ParentCompleted(rows, r)
    BY <2>2, <1>1, ParentCompletedRows
  <2> QED BY <2>1, <2>2 DEF rows
<1> HIDE DEF rows
<1>3. \A c \in Requests : Parent[c] # r
  BY DEF IsGroup, SubRequests
<1>4. \A x \in Requests :
        \/ requests'[x].status = Status(x) /\ x # r
        \/ requests'[x].status = "fulfilled" /\ x = r
        \/ /\ x = Parent[r] /\ Status(x) = "approved" /\ requests'[x].status = "fulfilled"
           /\ \A c \in Requests : Parent[c] = x => rows[c].status \in Terminal
  BY <1>1, <1>2 DEF SubRequests
<1>5. UnitsAwaitWithParent'
  BY <1>3, <1>4, TwoLevels DEF RequestInv, GroupInv, UnitsAwaitWithParent, Status
<1>6. ClosedGroupIsClosed'
  <2> SUFFICES ASSUME NEW c \in Requests, Parent[c] # NoRequest,
                      requests'[Parent[c]].status \in {"cancelled", "fulfilled"}
               PROVE  requests'[c].status \in Terminal
    BY DEF ClosedGroupIsClosed, Status
  <2>1. Parent[c] \in Requests /\ Parent[c] # r
    BY <1>3, TwoLevels
  <2>2. rows[c].status \in Terminal
    BY <2>1, <1>1, <1>4 DEF RequestInv, GroupInv, ClosedGroupIsClosed, Status
  <2> QED BY <2>2, <1>2
<1>7. LifecycleStep
  BY <1>4 DEF LifecycleStep
<1> QED
  BY <1>2, <1>5, <1>6, <1>7 DEF Sound, GroupInv, RequestTypeOK

LEMMA CompletionSound ==
    ASSUME RequestInv, NEW r \in Requests,
           ClaimRequest(r) \/ ManuallyCompleteRequest(r) \/ AutoFulfill(r)
    PROVE  Sound
<1>1. CASE AutoFulfill(r)
  BY <1>1, UnitCompletionSound DEF AutoFulfill, MatchesCheckout
<1>2. CASE ClaimRequest(r) /\ IsGroup(r)
  BY <1>2, GroupCompletionSound DEF ClaimRequest
<1>3. CASE ManuallyCompleteRequest(r) /\ IsGroup(r)
  BY <1>3, GroupCompletionSound DEF ManuallyCompleteRequest
<1>4. CASE (ClaimRequest(r) \/ ManuallyCompleteRequest(r)) /\ ~IsGroup(r)
  <2>1. CompletableUnits(r) = {r} /\ Status(r) = "approved"
    BY <1>4, CompletableFacts DEF ClaimRequest, ManuallyCompleteRequest
  <2>2. PICK h \in BOOLEAN : \/ requests' = Fulfilled({r}, h)
                             \/ requests' = ParentCompleted(Fulfilled({r}, h), r)
    BY <1>4, <2>1 DEF ClaimRequest, ManuallyCompleteRequest
  <2> QED BY <1>4, <2>1, <2>2, UnitCompletionSound
<1> QED BY <1>1, <1>2, <1>3, <1>4

(* Linking a request moves the parent and its units together. *)
LEMMA ProcureSound ==
    ASSUME RequestInv, NEW r \in Requests, Procure(r)
    PROVE  Sound
<1> DEFINE S == {r} \cup Targets(r)
<1>1. RequestTypeOK' /\ \A x \in Requests : requests'[x].status = IF x \in S THEN "procurement" ELSE Status(x)
  BY MovedRows DEF RequestInv, Procure, Statuses, RequestTypeOK
<1>2. /\ Parent[r] = NoRequest
      /\ \A x \in S : Status(x) = "approved"
      /\ \A x \in S : x # r => Parent[x] = r
      /\ \A x \in Requests : Parent[x] = r => x \in S
  BY DEF Procure, Procurable, Targets, SubRequests, IsGroup
<1> HIDE DEF S
<1>3. r \in S
  BY DEF S
<1>4. UnitsAwaitWithParent'
  <2> SUFFICES ASSUME NEW c \in Requests, Parent[c] # NoRequest,
                      requests'[c].status = "procurement"
               PROVE  requests'[Parent[c]].status = "procurement"
    BY DEF UnitsAwaitWithParent, Status
  <2> QED BY <1>1, <1>2, <1>3, TwoLevels DEF RequestInv, GroupInv, UnitsAwaitWithParent, Status
<1>5. ClosedGroupIsClosed'
  BY <1>1, <1>2, TwoLevels DEF RequestInv, GroupInv, ClosedGroupIsClosed, Status
<1>6. LifecycleStep
  BY <1>1, <1>2 DEF LifecycleStep
<1> QED
  BY <1>1, <1>4, <1>5, <1>6 DEF Sound, GroupInv

(* A delivery or a cancelled order gives units back, and a parent leaves    *)
(* procurement with the last of them.                                       *)
LEMMA ReleaseSound ==
    ASSUME RequestInv, NEW D \in SUBSET Requests, Release(D)
    PROVE  Sound
<1> DEFINE S == D \cup CompletedParents(D)
<1>1. PICK served \in BOOLEAN : requests' = Released(D, served)
  BY DEF Release
<1>2. RequestTypeOK' /\ \A x \in Requests : requests'[x].status = IF x \in S THEN "approved" ELSE Status(x)
  <2>1. /\ Released(D, served) \in [Requests -> Request]
        /\ \A x \in Requests : Released(D, served)[x].status =
              IF x \in D \cup CompletedParents(D) THEN "approved" ELSE Status(x)
    BY ReleasedRows DEF RequestInv
  <2> QED BY <1>1, <2>1 DEF RequestTypeOK
<1>3. \A x \in S : Status(x) = "procurement"
  BY DEF Release, CompletedParents
<1>4. UnitsAwaitWithParent'
  <2> SUFFICES ASSUME NEW c \in Requests, Parent[c] # NoRequest,
                      requests'[c].status = "procurement"
               PROVE  requests'[Parent[c]].status = "procurement"
    BY DEF UnitsAwaitWithParent, Status
  <2>1. c \notin D /\ Status(c) = "procurement"
    BY <1>2
  <2>2. Parent[c] \notin D /\ Parent[c] \in Requests
    BY TwoLevels DEF Release
  <2>3. Parent[c] \notin CompletedParents(D)
    BY <2>1, TwoLevels DEF CompletedParents
  <2>4. Status(Parent[c]) = "procurement"
    BY <2>1 DEF RequestInv, GroupInv, UnitsAwaitWithParent
  <2> QED BY <2>2, <2>3, <2>4, <1>2
<1> HIDE DEF S
<1>5. ClosedGroupIsClosed'
  <2> SUFFICES ASSUME NEW c \in Requests, Parent[c] # NoRequest,
                      requests'[Parent[c]].status \in {"cancelled", "fulfilled"}
               PROVE  requests'[c].status \in Terminal
    BY DEF ClosedGroupIsClosed, Status
  <2>1. Status(c) \in Terminal
    BY <1>2, TwoLevels DEF RequestInv, GroupInv, ClosedGroupIsClosed
  <2> QED BY <2>1, <1>2, <1>3
<1>6. LifecycleStep
  BY <1>2, <1>3 DEF LifecycleStep
<1> QED
  BY <1>2, <1>4, <1>5, <1>6 DEF Sound, GroupInv

-----------------------------------------------------------------------------
LEMMA RequestStepSound ==
    ASSUME RequestInv, RequestNext
    PROVE  Sound
BY ApproveSound, DenySound, AssetSound, CancelSound, CompletionSound, ProcureSound, ReleaseSound
DEF RequestNext, RequestOperation

LEMMA RequestInvInductive == RequestSpec => []RequestInv
<1>1. RequestInit => RequestInv
  BY RequestAssumption, TwoLevels
  DEF RequestInit, RequestInv, RequestTypeOK, Request, Statuses, GroupInv,
      UnitsAwaitWithParent, ClosedGroupIsClosed, Status
<1>2. RequestInv /\ [RequestNext]_requests => RequestInv'
  <2> SUFFICES ASSUME RequestInv, [RequestNext]_requests PROVE RequestInv'
    OBVIOUS
  <2>1. CASE RequestNext
    BY <2>1, RequestStepSound DEF Sound, RequestInv
  <2>2. CASE UNCHANGED requests
    BY <2>2 DEF RequestInv, RequestTypeOK, GroupInv, UnitsAwaitWithParent, ClosedGroupIsClosed, Status
  <2> QED BY <2>1, <2>2
<1> QED BY <1>1, <1>2, PTL DEF RequestSpec

(* The request table is well typed: no operation writes a status, an        *)
(* allocation or a quantity outside its domain, a quantity of zero after an *)
(* approval that lowered it included.                                       *)
THEOREM RequestsTyped == RequestSpec => []RequestTypeOK
BY RequestInvInductive, PTL DEF RequestInv

(* In every table of requests, whatever the groups and however their units  *)
(* are approved, denied, cancelled, completed, ordered and delivered one by *)
(* one, no unit awaits procurement without its parent and no closed group   *)
(* has an open unit.                                                        *)
THEOREM GroupsConsistent == RequestSpec => []GroupInv
BY RequestInvInductive, PTL DEF RequestInv

(* Closed requests stay as they are, and no request is completed while it   *)
(* awaits procurement.                                                      *)
THEOREM LifecycleRespected == RequestSpec => RequestLifecycle
<1>1. RequestInv /\ [RequestNext]_requests => [LifecycleStep]_requests
  BY RequestStepSound DEF Sound
<1> QED BY <1>1, RequestInvInductive, PTL DEF RequestSpec, RequestLifecycle
-----------------------------------------------------------------------------
(* Part 2: procurement as the requests see it *)

LinkTable ==
    /\ links = [l \in Lines |-> [r \in Requests |-> links[l][r]]]
    /\ \A l \in Lines, r \in Requests : {"state", "received"} \subseteq DOMAIN links[l][r]

UnitsAreLinked == \A l \in Lines, r \in Requests : links[l][r].state = "live" => ~IsGroup(r)

LinkInv == LinkTable /\ UnitsAreLinked

-----------------------------------------------------------------------------
(* Targets of a request are never groups. *)
LEMMA TargetsAreUnits ==
    ASSUME NEW r \in Requests
    PROVE  Targets(r) \subseteq Requests /\ \A c \in Targets(r) : ~IsGroup(c)
BY TwoLevels, RequestAssumption DEF Targets, SubRequests, IsGroup

LEMMA LinksClosedKeepsInv ==
    ASSUME LinkInv, NEW L, NEW R, links' = LinksClosed(L, R)
    PROVE  LinkInv'
BY DEF LinkInv, LinkTable, UnitsAreLinked, LinksClosed, IsGroup, SubRequests

LEMMA LinkRequestKeepsInv ==
    ASSUME LinkInv, NEW r \in Requests, NEW o \in Orders, NEW l \in Lines, LinkRequest(r, o, l)
    PROVE  LinkInv'
<1> DEFINE row == [c \in Requests |->
                    IF c \in Targets(r)
                    THEN [state |-> "live", allocated |-> requests[c].qty, received |-> 0]
                    ELSE links[l][c]]
<1>1. links' = [links EXCEPT ![l] = row]
  BY DEF LinkRequest
<1>2. \A c \in Requests : /\ {"state", "received"} \subseteq DOMAIN row[c]
                          /\ row[c].state = "live" => ~IsGroup(c)
  BY TargetsAreUnits DEF LinkInv, LinkTable, UnitsAreLinked
<1>3. row = [c \in Requests |-> row[c]]
  OBVIOUS
<1> HIDE DEF row
<1>4. LinkTable'
  BY <1>1, <1>2, <1>3 DEF LinkInv, LinkTable
<1>5. UnitsAreLinked'
  BY <1>1, <1>2 DEF LinkInv, LinkTable, UnitsAreLinked, IsGroup, SubRequests
<1> QED BY <1>4, <1>5 DEF LinkInv

LEMMA ReceiveKeepsInv ==
    ASSUME LinkInv, NEW o, NEW q, ReceivePurchaseOrder(o, q)
    PROVE  LinkInv'
BY DEF LinkInv, LinkTable, UnitsAreLinked, ReceivePurchaseOrder, IsGroup, SubRequests

(* Every step keeps the link table. *)
LEMMA LinkInvStep ==
    ASSUME LinkInv, [Next]_pvars
    PROVE  LinkInv'
<1> USE DEF LinkInv, LinkTable, UnitsAreLinked, IsGroup, SubRequests
<1>1. CASE UNCHANGED links
  BY <1>1
<1> HIDE DEF LinkInv, LinkTable, UnitsAreLinked, IsGroup, SubRequests
<1>2. CASE \E r \in Requests : CancelLinkedRequest(r)
  BY <1>2, LinksClosedKeepsInv DEF CancelLinkedRequest
<1>3. CASE \E o \in Orders : CancelOrder(o)
  BY <1>3, LinksClosedKeepsInv DEF CancelOrder
<1>4. CASE \E r \in Requests, o \in Orders, l \in Lines : LinkRequest(r, o, l)
  BY <1>4, LinkRequestKeepsInv
<1>5. CASE \E t \in Tabs : \E q \in Typed(t) : SubmitReceipt(t, q)
  BY <1>5, ReceiveKeepsInv DEF SubmitReceipt
<1>6. CASE \E t \in Tabs : SubmitAssets(t)
  BY <1>6, ReceiveKeepsInv DEF SubmitAssets
<1> QED
  BY <1>1, <1>2, <1>3, <1>4, <1>5, <1>6
  DEF Next, OrderOperation, ApproveOrder, OrderOrder, ReopenOrder, ArchiveOrder, RestoreOrder,
      OpenForm, SubmitQuantities, AddLine, ReadForEdit, SaveEdit, DeleteLine, pvars

LEMMA LinkInvHolds == Spec => []LinkInv
<1>1. Init => LinkInv
  BY DEF Init, LinkInv, LinkTable, UnitsAreLinked
<1> QED BY <1>1, LinkInvStep, PTL DEF Spec

-----------------------------------------------------------------------------
(* The requests a receipt completes are units that await procurement and    *)
(* have no asset yet.                                                       *)
LEMMA ReceiptReleases ==
    ASSUME LinkInv, NEW o, NEW q, ReceivePurchaseOrder(o, q)
    PROVE  \E D \in SUBSET Requests : Release(D)
<1> DEFINE D == Completed(o, q)
<1>1. D \in SUBSET Requests
  BY DEF Completed
<1>2. \A r \in D : \E l \in Lines : r \in Receivable(l)
  BY DEF Completed, Attributed, LiveLines
<1>3. \A r \in D : Status(r) = "procurement" /\ requests[r].asset = "none" /\ ~IsGroup(r)
  BY <1>2 DEF Receivable, LiveLinks, LinkInv, UnitsAreLinked
<1>4. requests' = Released(D, TRUE)
  BY DEF ReceivePurchaseOrder
<1> QED BY <1>1, <1>3, <1>4 DEF Release

LEMMA CancelReleases ==
    ASSUME LinkInv, NEW o \in Orders, CancelOrder(o)
    PROVE  \E D \in SUBSET Requests : Release(D)
<1> DEFINE D == Reverted(o)
<1>1. D \in SUBSET Requests
  BY DEF Reverted
<1>2. \A r \in D : Status(r) = "procurement" /\ ~IsGroup(r)
  BY DEF Reverted, LiveLinks, LiveLines, LinkInv, UnitsAreLinked
<1>3. requests' = Released(D, FALSE)
  BY DEF CancelOrder
<1> QED BY <1>1, <1>2, <1>3 DEF Release

(* Every step of the orders is a step of the requests or none. *)
LEMMA StepSimulation ==
    ASSUME LinkInv, [Next]_pvars
    PROVE  [RequestNext]_requests
<1>1. CASE UNCHANGED requests
  BY <1>1
<1>2. CASE RequestOperation
  BY <1>2 DEF RequestNext
<1>3. CASE \E r \in Requests : CancelLinkedRequest(r)
  BY <1>3 DEF CancelLinkedRequest, RequestNext
<1>4. CASE \E o \in Orders : CancelOrder(o)
  BY <1>4, CancelReleases DEF RequestNext
<1>5. CASE \E r \in Requests, o \in Orders, l \in Lines : LinkRequest(r, o, l)
  BY <1>5 DEF LinkRequest, RequestNext
<1>6. CASE \E t \in Tabs : \E q \in Typed(t) : SubmitReceipt(t, q)
  BY <1>6, ReceiptReleases DEF SubmitReceipt, RequestNext
<1>7. CASE \E t \in Tabs : SubmitAssets(t)
  BY <1>7, ReceiptReleases DEF SubmitAssets, RequestNext
<1> QED
  BY <1>1, <1>2, <1>3, <1>4, <1>5, <1>6, <1>7
  DEF Next, OrderOperation, ApproveOrder, OrderOrder, ReopenOrder, ArchiveOrder, RestoreOrder,
      OpenForm, SubmitQuantities, AddLine, ReadForEdit, SaveEdit, DeleteLine, pvars

(* Linking, receiving (in two steps, from any number of tabs, replayed or   *)
(* late) and cancelling purchase orders do to asset requests exactly what   *)
(* AssetRequests allows procurement to do.                                  *)
THEOREM OrdersImplementRequests == Spec => ImplementsRequests
<1>1. Init => RequestInit
  BY DEF Init
<1>2. LinkInv /\ [Next]_pvars => [RequestNext]_requests
  BY StepSimulation
<1> QED BY <1>1, <1>2, LinkInvHolds, PTL DEF Spec, RequestSpec, ImplementsRequests

(* So the groups stay consistent under every history of orders, lines,      *)
(* receipts and cancellations.                                              *)
THEOREM OrdersKeepGroupsConsistent == Spec => []GroupInv
BY OrdersImplementRequests, GroupsConsistent, PTL DEF ImplementsRequests

-----------------------------------------------------------------------------
(* Part 3: the books of the orders *)

(* A key that is not used yet has neither deliveries nor links, and nobody  *)
(* edits it.                                                                *)
UnusedIsBlank ==
    \A l \in Lines : lines[l].state = "unused" =>
        /\ lines[l].received = 0
        /\ ~edits[l].open
        /\ \A r \in Requests : links[l][r].state = "none" /\ links[l][r].received = 0

LinesHaveOrders == \A l \in Lines : lines[l].state # "unused" => lines[l].order \in Orders

FormsHaveOrders == \A t \in Tabs : forms[t].page # "none" => forms[t].order \in Orders

(* What was delivered shows in the status of the order, for good. *)
DeliveriesShow ==
    \A l \in Lines : lines[l].received > 0 =>
        orders[lines[l].order].status \in {"partial", "received"}

(* An editor read its line before anything was delivered. *)
EditsAreEarly == \A l \in Lines : edits[l].open => edits[l].received = 0

BookInv ==
    /\ ProcurementTypeOK
    /\ UnusedIsBlank /\ LinesHaveOrders /\ FormsHaveOrders
    /\ DeliveriesShow /\ EditsAreEarly

-----------------------------------------------------------------------------
(* The operators of the books. *)

LEMMA QtyIsNat == ASSUME NEW q, IsQuantities(q), NEW l PROVE QtyOf(q, l) \in Nat
  BY DEF IsQuantities, QtyOf

LEMMA NextKeyIsUnused ==
    ASSUME NEW K \in SUBSET Lines, NEW l, NextKey(l, K)
    PROVE  l \in Lines /\ lines[l].state = "unused"
  <1>1. l \in Lines /\ l >= l
    BY ProcurementAssumption DEF NextKey
  <1> QED BY <1>1 DEF NextKey

LEMMA LinksClosedRows ==
    ASSUME links \in [Lines -> [Requests -> Link]], NEW L, NEW R
    PROVE  /\ LinksClosed(L, R) \in [Lines -> [Requests -> Link]]
           /\ \A l \in Lines, r \in Requests :
                /\ LinksClosed(L, R)[l][r].received = links[l][r].received
                /\ LinksClosed(L, R)[l][r].allocated = links[l][r].allocated
                /\ LinksClosed(L, R)[l][r].state =
                       IF l \in L /\ r \in R /\ links[l][r].state = "live"
                       THEN "closed" ELSE links[l][r].state
                /\ links[l][r].state # "live" => LinksClosed(L, R)[l][r] = links[l][r]
  BY DEF LinksClosed, Link

(* What is still missing of a link. *)
LEMMA OutstandingIsNat ==
    ASSUME NEW k \in Link
    PROVE  /\ LinkOutstanding(k) \in Nat
           /\ LinkOutstanding(k) > 0 => LinkOutstanding(k) = k.allocated - k.received
  BY DEF Link, LinkOutstanding

LEMMA AheadIsNat ==
    ASSUME links \in [Lines -> [Requests -> Link]], NEW l \in Lines, NEW r
    PROVE  Ahead(l, r) \in Nat
  <1> DEFINE f == [c \in Requests |-> LinkOutstanding(links[l][c])]
             S == {c \in Receivable(l) : c < r}
  <1>1. \A c \in Requests : f[c] \in Nat
    BY OutstandingIsNat
  <1>2. f \in [Requests -> Int]
    BY <1>1
  <1>3. S \in SUBSET Requests
    BY DEF Receivable, LiveLinks
  <1>4. Ahead(l, r) = SumFunctionOnSet(f, S)
    BY DEF Ahead
  <1>5. \A c \in S : f[c] \in Nat
    BY <1>1, <1>3
  <1> HIDE DEF f, S
  <1> QED BY <1>2, <1>3, <1>4, <1>5, SumNat, ProcurementAssumption

(* A request gets at most what it still waits for, and only if it is        *)
(* receivable.                                                              *)
LEMMA AttributedShare ==
    ASSUME links \in [Lines -> [Requests -> Link]], NEW l \in Lines, NEW r \in Requests,
           NEW n \in Nat
    PROVE  /\ Attributed(l, r, n) \in Nat
           /\ Attributed(l, r, n) <= LinkOutstanding(links[l][r])
           /\ r \notin Receivable(l) => Attributed(l, r, n) = 0
  <1>1. Ahead(l, r) \in Nat /\ LinkOutstanding(links[l][r]) \in Nat
    BY AheadIsNat, OutstandingIsNat
  <1> QED BY <1>1 DEF Attributed

(* A row after more was received on it. *)
LEMMA MoreOnLink ==
    ASSUME NEW k \in Link, NEW n \in Nat
    PROVE  LET new == [k EXCEPT !.received = @ + n] IN
           /\ new \in Link /\ new.state = k.state /\ new.allocated = k.allocated
           /\ new.received = k.received + n
  <1>1. k.received + n \in Nat
    BY DEF Link
  <1> QED BY <1>1 DEF Link

LEMMA MoreOnLine ==
    ASSUME NEW k \in Line, NEW n \in Nat
    PROVE  LET new == [k EXCEPT !.received = @ + n] IN
           /\ new \in Line /\ new.state = k.state /\ new.order = k.order
           /\ new.ordered = k.ordered /\ new.received = k.received + n
  <1> DEFINE m == k.received + n
             new == [k EXCEPT !.received = m]
  <1>1. m \in Nat
    BY DEF Line
  <1> HIDE DEF m
  <1>2. new \in Line
    BY <1>1 DEF Line
  <1>3. /\ new.state = k.state /\ new.order = k.order
        /\ new.ordered = k.ordered /\ new.received = m
    BY DEF Line
  <1> QED BY <1>2, <1>3 DEF m

(* Lines and links after a receipt. *)
LEMMA ReceivedRows ==
    ASSUME lines \in [Lines -> Line], links \in [Lines -> [Requests -> Link]],
           NEW o, NEW q, IsQuantities(q), ReceivePurchaseOrder(o, q)
    PROVE  /\ lines' \in [Lines -> Line] /\ links' \in [Lines -> [Requests -> Link]]
           /\ \A l \in Lines :
                /\ lines'[l].state = lines[l].state /\ lines'[l].order = lines[l].order
                /\ lines'[l].ordered = lines[l].ordered
                /\ l \in LiveLines(o) => lines'[l].received = lines[l].received + QtyOf(q, l)
                /\ l \notin LiveLines(o) => lines'[l] = lines[l] /\ links'[l] = links[l]
           /\ \A l \in Lines, r \in Requests :
                /\ links'[l][r].state = links[l][r].state
                /\ links'[l][r].allocated = links[l][r].allocated
                /\ l \in LiveLines(o) => links'[l][r].received =
                        links[l][r].received + Attributed(l, r, QtyOf(q, l))
  <1> DEFINE row(l) == [lines[l] EXCEPT !.received = @ + QtyOf(q, l)]
             share(l, r) == [links[l][r] EXCEPT !.received = @ + Attributed(l, r, QtyOf(q, l))]
  <1>1. ASSUME NEW l \in Lines
        PROVE  /\ row(l) \in Line /\ row(l).state = lines[l].state
               /\ row(l).order = lines[l].order /\ row(l).ordered = lines[l].ordered
               /\ row(l).received = lines[l].received + QtyOf(q, l)
    <2>1. QtyOf(q, l) \in Nat
      BY QtyIsNat
    <2>2. lines[l] \in Line
      OBVIOUS
    <2> QED BY <2>1, <2>2, MoreOnLine
  <1>2. ASSUME NEW l \in Lines, NEW r \in Requests
        PROVE  /\ share(l, r) \in Link /\ share(l, r).state = links[l][r].state
               /\ share(l, r).allocated = links[l][r].allocated
               /\ share(l, r).received = links[l][r].received + Attributed(l, r, QtyOf(q, l))
    <2>1. QtyOf(q, l) \in Nat
      BY QtyIsNat
    <2>2. Attributed(l, r, QtyOf(q, l)) \in Nat
      BY <2>1, AttributedShare
    <2>3. links[l][r] \in Link
      OBVIOUS
    <2> QED BY <2>2, <2>3, MoreOnLink
  <1>3. /\ lines' = [l \in Lines |-> IF l \in LiveLines(o) THEN row(l) ELSE lines[l]]
        /\ links' = [l \in Lines |-> [r \in Requests |->
                        IF l \in LiveLines(o) THEN share(l, r) ELSE links[l][r]]]
    BY DEF ReceivePurchaseOrder
  <1> HIDE DEF row, share
  <1>4. lines' \in [Lines -> Line]
    BY <1>1, <1>3
  <1>5. links' \in [Lines -> [Requests -> Link]]
    BY <1>2, <1>3
  <1>6. ASSUME NEW l \in Lines, l \notin LiveLines(o) PROVE links'[l] = links[l]
    <2>1. links'[l] = [r \in Requests |-> links[l][r]]
      BY <1>3, <1>6
    <2> QED BY <2>1
  <1> QED BY <1>1, <1>2, <1>3, <1>4, <1>5, <1>6

-----------------------------------------------------------------------------
(* Every step keeps the books.  An order moves through its lifecycle only   *)
(* while nothing was delivered.                                             *)
LEMMA TransitionKeepsBooks ==
    ASSUME BookInv, RequestTypeOK', NEW o \in Orders, NEW from, NEW to \in OrderStatuses,
           from \cap {"partial", "received"} = {}, Transition(o, from, to),
           UNCHANGED <<lines, links, forms, session, edits>>
    PROVE  BookInv'
  <1>1. orders' \in [Orders -> Order]
    BY DEF BookInv, ProcurementTypeOK, Transition, Order
  <1>2. DeliveriesShow'
    <2> SUFFICES ASSUME NEW l \in Lines, lines[l].received > 0
                 PROVE  orders'[lines[l].order].status \in {"partial", "received"}
      BY DEF DeliveriesShow
    <2>1. orders[lines[l].order].status \in {"partial", "received"} /\ lines[l].order # o
      BY DEF BookInv, DeliveriesShow, Transition
    <2>2. orders'[lines[l].order] = orders[lines[l].order]
      BY <2>1 DEF Transition, BookInv, ProcurementTypeOK
    <2> QED BY <2>1, <2>2
  <1> QED BY <1>1, <1>2
    DEF BookInv, ProcurementTypeOK, UnusedIsBlank, LinesHaveOrders, FormsHaveOrders,
        EditsAreEarly, IsForm

(* A new line. *)
LEMMA NewLineFacts ==
    ASSUME NEW o \in Orders, NEW s \in BOOLEAN, NEW n \in Nat
    PROVE  /\ NewLine(o, s, n) \in Line
           /\ NewLine(o, s, n).state = "live" /\ NewLine(o, s, n).order = o
           /\ NewLine(o, s, n).received = 0 /\ NewLine(o, s, n).ordered = n
  BY DEF NewLine, Line

LEMMA LineAddedKeepsBooks ==
    ASSUME BookInv, RequestTypeOK', NEW l \in Lines, NEW row \in Line,
           lines[l].state = "unused", row.state = "live", row.order \in Orders, row.received = 0,
           lines' = [lines EXCEPT ![l] = row],
           links' \in [Lines -> [Requests -> Link]],
           \A m \in Lines \ {l} : links'[m] = links[m],
           UNCHANGED <<orders, forms, session, edits>>
    PROVE  BookInv'
  <1>1. lines \in [Lines -> Line]
    BY DEF BookInv, ProcurementTypeOK
  <1>2. lines' \in [Lines -> Line] /\ lines'[l] = row
    BY <1>1
  <1>3. \A m \in Lines \ {l} : lines'[m] = lines[m]
    BY <1>1
  <1>4. ProcurementTypeOK'
    BY <1>2 DEF BookInv, ProcurementTypeOK, IsForm
  <1>5. UnusedIsBlank'
    BY <1>2, <1>3 DEF BookInv, UnusedIsBlank
  <1>6. LinesHaveOrders' /\ FormsHaveOrders' /\ EditsAreEarly'
    BY <1>2, <1>3 DEF BookInv, LinesHaveOrders, FormsHaveOrders, EditsAreEarly
  <1>7. DeliveriesShow'
    BY <1>2, <1>3 DEF BookInv, DeliveriesShow
  <1> QED BY <1>4, <1>5, <1>6, <1>7 DEF BookInv

LEMMA AddLineKeepsBooks ==
    ASSUME BookInv, RequestTypeOK', NEW o \in Orders, NEW l \in Lines, AddLine(o, l)
    PROVE  BookInv'
  <1>1. PICK serialised \in BOOLEAN, qty \in 1 .. MaxQty :
           lines' = [lines EXCEPT ![l] = NewLine(o, serialised, qty)]
    BY DEF AddLine
  <1>2. qty \in Nat
    BY ProcurementAssumption
  <1>3. lines[l].state = "unused"
    BY NextKeyIsUnused, ProcurementAssumption DEF AddLine
  <1> DEFINE row == NewLine(o, serialised, qty)
  <1>4. row \in Line /\ row.state = "live" /\ row.order \in Orders /\ row.received = 0
    BY <1>2, NewLineFacts
  <1> HIDE DEF row
  <1>5. lines' = [lines EXCEPT ![l] = row]
    BY <1>1 DEF row
  <1>6. links' \in [Lines -> [Requests -> Link]]
    BY DEF AddLine, BookInv, ProcurementTypeOK
  <1> QED BY <1>3, <1>4, <1>5, <1>6, LineAddedKeepsBooks DEF AddLine

(* The row of links a request brings. *)
LEMMA LinkedRows ==
    ASSUME BookInv, NEW r \in Requests, NEW o \in Orders, NEW l \in Lines, LinkRequest(r, o, l)
    PROVE  /\ links' \in [Lines -> [Requests -> Link]]
           /\ \A m \in Lines \ {l} : links'[m] = links[m]
           /\ \A c \in Requests : links'[l][c] =
                IF c \in Targets(r)
                THEN [state |-> "live", allocated |-> requests[c].qty, received |-> 0]
                ELSE links[l][c]
  <1> DEFINE row == [c \in Requests |->
                    IF c \in Targets(r)
                    THEN [state |-> "live", allocated |-> requests[c].qty, received |-> 0]
                    ELSE links[l][c]]
  <1>1. links \in [Lines -> [Requests -> Link]] /\ requests \in [Requests -> Request]
    BY DEF BookInv, ProcurementTypeOK, RequestTypeOK
  <1>2. \A c \in Requests : [state |-> "live", allocated |-> requests[c].qty, received |-> 0] \in Link
    BY <1>1 DEF Request, Link
  <1>3. row \in [Requests -> Link]
    BY <1>1, <1>2
  <1>4. links' = [links EXCEPT ![l] = row]
    BY DEF LinkRequest
  <1>5. \A c \in Requests : row[c] =
                IF c \in Targets(r)
                THEN [state |-> "live", allocated |-> requests[c].qty, received |-> 0]
                ELSE links[l][c]
    OBVIOUS
  <1> HIDE DEF row
  <1>6. links' \in [Lines -> [Requests -> Link]] /\ links'[l] = row
    BY <1>1, <1>3, <1>4
  <1>7. \A m \in Lines \ {l} : links'[m] = links[m]
    BY <1>1, <1>4
  <1> QED BY <1>5, <1>6, <1>7

(* The key is fresh and the new line is an empty one of the order. *)
LEMMA LinkedLine ==
    ASSUME BookInv, NEW r \in Requests, NEW o \in Orders, NEW l \in Lines, LinkRequest(r, o, l)
    PROVE  /\ lines[l].state = "unused"
           /\ \E row \in Line :
                /\ lines' = [lines EXCEPT ![l] = row]
                /\ row.state = "live" /\ row.order = o
                /\ row.received = 0 /\ row.ordered = requests[r].qty
  <1>1. requests[r].qty \in Nat
    BY DEF BookInv, ProcurementTypeOK, RequestTypeOK, Request
  <1>2. lines[l].state = "unused"
    <2>1. Lines \ HandLines \in SUBSET Lines /\ NextKey(l, Lines \ HandLines)
      BY DEF LinkRequest
    <2> QED BY <2>1, NextKeyIsUnused
  <1>3. \E s \in BOOLEAN : lines' = [lines EXCEPT ![l] = NewLine(o, s, requests[r].qty)]
    <2>1. lines' = [lines EXCEPT ![l] = NewLine(o, r \in Serialised, requests[r].qty)]
      BY DEF LinkRequest
    <2>2. (r \in Serialised) \in BOOLEAN
      OBVIOUS
    <2> QED BY <2>1, <2>2, Zenon
  <1>4. PICK s \in BOOLEAN : lines' = [lines EXCEPT ![l] = NewLine(o, s, requests[r].qty)]
    BY <1>3
  <1>5. LET row == NewLine(o, s, requests[r].qty) IN
        /\ row \in Line /\ row.state = "live" /\ row.order = o
        /\ row.received = 0 /\ row.ordered = requests[r].qty
    BY <1>1, NewLineFacts
  <1> QED BY <1>2, <1>4, <1>5

LEMMA LinkRequestKeepsBooks ==
    ASSUME BookInv, RequestTypeOK', NEW r \in Requests, NEW o \in Orders, NEW l \in Lines,
           LinkRequest(r, o, l)
    PROVE  BookInv'
  <1>1. PICK row \in Line :
           /\ lines[l].state = "unused" /\ lines' = [lines EXCEPT ![l] = row]
           /\ row.state = "live" /\ row.order = o /\ row.received = 0
    BY LinkedLine
  <1>2. UNCHANGED <<orders, forms, session, edits>>
    BY DEF LinkRequest
  <1>3. /\ links' \in [Lines -> [Requests -> Link]]
        /\ \A m \in Lines \ {l} : links'[m] = links[m]
    BY LinkedRows
  <1> QED BY <1>1, <1>2, <1>3, LineAddedKeepsBooks

(* Steps that change only the states of lines that are in use. *)
LEMMA LinesMoveKeepsBooks ==
    ASSUME BookInv, RequestTypeOK', NEW S, NEW state \in {"live", "deleted", "archived"},
           \A l \in Lines : l \in S => lines[l].state # "unused",
           lines' = [l \in Lines |-> IF l \in S THEN [lines[l] EXCEPT !.state = state] ELSE lines[l]],
           links' \in [Lines -> [Requests -> Link]],
           \A l \in Lines, r \in Requests :
               links[l][r].state # "live" => links'[l][r] = links[l][r],
           orders' \in [Orders -> Order],
           \A o : orders[o].status \in {"partial", "received"} => orders'[o].status = orders[o].status,
           UNCHANGED <<forms, session, edits>>
    PROVE  BookInv'
  <1> DEFINE row(l) == [lines[l] EXCEPT !.state = state]
  <1>1. lines \in [Lines -> Line]
    BY DEF BookInv, ProcurementTypeOK
  <1>2. \A l \in Lines : row(l) \in Line
    BY <1>1 DEF Line
  <1>3. \A l \in Lines : /\ row(l).state = state /\ row(l).order = lines[l].order
                         /\ row(l).received = lines[l].received
    BY <1>1 DEF Line
  <1>4. \A l \in Lines : lines'[l] = IF l \in S THEN row(l) ELSE lines[l]
    OBVIOUS
  <1>5. lines' \in [Lines -> Line]
    BY <1>1, <1>2
  <1> HIDE DEF row
  <1>6. \A l \in Lines : /\ lines'[l].order = lines[l].order
                         /\ lines'[l].received = lines[l].received
                         /\ lines'[l].state = "unused" => lines[l].state = "unused"
    BY <1>3, <1>4
  <1>7. ProcurementTypeOK'
    BY <1>5 DEF BookInv, ProcurementTypeOK, IsForm
  <1>8. \A l \in Lines : lines[l].state = "unused" => lines'[l].state = "unused"
    BY <1>4
  <1>9. UnusedIsBlank'
    BY <1>6 DEF BookInv, UnusedIsBlank
  <1>10. LinesHaveOrders'
    BY <1>6, <1>8 DEF BookInv, LinesHaveOrders
  <1>11. FormsHaveOrders' /\ EditsAreEarly'
    BY DEF BookInv, FormsHaveOrders, EditsAreEarly
  <1>12. DeliveriesShow'
    BY <1>6 DEF BookInv, DeliveriesShow
  <1> QED BY <1>7, <1>9, <1>10, <1>11, <1>12 DEF BookInv

LEMMA CancelOrderKeepsBooks ==
    ASSUME BookInv, RequestTypeOK', NEW o \in Orders, CancelOrder(o)
    PROVE  BookInv'
  <1> DEFINE S == {l \in Lines : l \in LiveLines(o) /\ LiveLinks(l) # {}}
  <1>1. \A l \in Lines : l \in S => lines[l].state # "unused"
    BY DEF LiveLines
  <1>2. lines' = [l \in Lines |-> IF l \in S THEN [lines[l] EXCEPT !.state = "deleted"] ELSE lines[l]]
    BY DEF CancelOrder
  <1> HIDE DEF S
  <1>3. /\ links' \in [Lines -> [Requests -> Link]]
        /\ \A l \in Lines, r \in Requests :
               links[l][r].state # "live" => links'[l][r] = links[l][r]
    BY LinksClosedRows DEF CancelOrder, BookInv, ProcurementTypeOK
  <1>4. /\ orders' \in [Orders -> Order]
        /\ \A p : orders[p].status \in {"partial", "received"} => orders'[p].status = orders[p].status
    <2>1. orders \in [Orders -> Order] /\ orders' = [orders EXCEPT ![o].status = "cancelled"]
      BY DEF CancelOrder, Transition, BookInv, ProcurementTypeOK
    <2>2. orders[o].status \notin {"partial", "received"}
      BY DEF CancelOrder, Transition, Cancellable
    <2>3. orders' \in [Orders -> Order]
      BY <2>1 DEF Order, OrderStatuses
    <2>4. \A p : p # o => orders'[p] = orders[p]
      BY <2>1
    <2> QED BY <2>2, <2>3, <2>4
  <1> QED BY <1>1, <1>2, <1>3, <1>4, LinesMoveKeepsBooks DEF CancelOrder

LEMMA ArchiveKeepsBooks ==
    ASSUME BookInv, RequestTypeOK', NEW o \in Orders, ArchiveOrder(o) \/ RestoreOrder(o)
    PROVE  BookInv'
  <1>1. /\ links' \in [Lines -> [Requests -> Link]]
        /\ \A l \in Lines, r \in Requests :
               links[l][r].state # "live" => links'[l][r] = links[l][r]
        /\ UNCHANGED <<forms, session, edits>>
    BY DEF ArchiveOrder, RestoreOrder, BookInv, ProcurementTypeOK
  <1>2. /\ orders' \in [Orders -> Order]
        /\ \A p : orders[p].status \in {"partial", "received"} => orders'[p].status = orders[p].status
    <2>1. PICK b \in BOOLEAN : orders' = [orders EXCEPT ![o].archived = b]
      BY DEF ArchiveOrder, RestoreOrder
    <2>2. orders \in [Orders -> Order]
      BY DEF BookInv, ProcurementTypeOK
    <2> DEFINE new == [orders[o] EXCEPT !.archived = b]
    <2>3. new \in Order
      BY <2>2 DEF Order
    <2>4. new.status = orders[o].status
      BY <2>2 DEF Order
    <2>5. orders' = [orders EXCEPT ![o] = new]
      BY <2>1, <2>2
    <2> HIDE DEF new
    <2>6. orders' \in [Orders -> Order]
      BY <2>2, <2>3, <2>5
    <2>7. \A p : orders'[p] = orders[p] \/ (p = o /\ orders'[p] = new)
      BY <2>2, <2>5
    <2> QED BY <2>4, <2>6, <2>7
  <1>3. CASE ArchiveOrder(o)
    <2> DEFINE S == LiveLines(o)
    <2>1. \A l \in Lines : l \in S => lines[l].state # "unused"
      BY DEF LiveLines
    <2>2. lines' = [l \in Lines |-> IF l \in S THEN [lines[l] EXCEPT !.state = "archived"] ELSE lines[l]]
      BY <1>3 DEF ArchiveOrder
    <2> HIDE DEF S
    <2> QED BY <1>1, <1>2, <2>1, <2>2, LinesMoveKeepsBooks
  <1>4. CASE RestoreOrder(o)
    <2> DEFINE S == {l \in Lines : lines[l].order = o /\ lines[l].state = "archived"}
    <2>1. \A l \in Lines : l \in S => lines[l].state # "unused"
      OBVIOUS
    <2>2. lines' = [l \in Lines |-> IF l \in S THEN [lines[l] EXCEPT !.state = "live"] ELSE lines[l]]
      BY <1>4 DEF RestoreOrder
    <2> HIDE DEF S
    <2> QED BY <1>1, <1>2, <2>1, <2>2, LinesMoveKeepsBooks
  <1> QED BY <1>3, <1>4

LEMMA DeleteLineKeepsBooks ==
    ASSUME BookInv, RequestTypeOK', NEW l \in Lines, DeleteLine(l)
    PROVE  BookInv'
  <1> DEFINE S == {l}
  <1>1. lines \in [Lines -> Line] /\ links \in [Lines -> [Requests -> Link]]
        /\ orders \in [Orders -> Order]
    BY DEF BookInv, ProcurementTypeOK
  <1>2. \A m \in Lines : m \in S => lines[m].state # "unused"
    BY DEF DeleteLine
  <1>3. lines' = [m \in Lines |-> IF m \in S THEN [lines[m] EXCEPT !.state = "deleted"] ELSE lines[m]]
    BY <1>1 DEF DeleteLine
  <1> HIDE DEF S
  <1> QED BY <1>1, <1>2, <1>3, LinesMoveKeepsBooks DEF DeleteLine

(* A cancelled request closes its links. *)
LEMMA CancelRequestKeepsBooks ==
    ASSUME BookInv, RequestTypeOK', NEW r \in Requests, CancelLinkedRequest(r)
    PROVE  BookInv'
  <1>1. /\ links' \in [Lines -> [Requests -> Link]]
        /\ \A l \in Lines, c \in Requests :
               links[l][c].state # "live" => links'[l][c] = links[l][c]
    BY LinksClosedRows DEF CancelLinkedRequest, BookInv, ProcurementTypeOK
  <1>2. UNCHANGED <<orders, lines, forms, session, edits>>
    BY DEF CancelLinkedRequest
  <1>3. UnusedIsBlank'
    BY <1>1, <1>2 DEF BookInv, UnusedIsBlank
  <1> QED BY <1>1, <1>2, <1>3
    DEF BookInv, ProcurementTypeOK, LinesHaveOrders, FormsHaveOrders,
        DeliveriesShow, EditsAreEarly, IsForm

(* The line editor reads a draft and saves what it read. *)
LEMMA EditKeepsBooks ==
    ASSUME BookInv, RequestTypeOK', NEW l \in Lines, ReadForEdit(l) \/ SaveEdit(l)
    PROVE  BookInv'
  <1>1. lines \in [Lines -> Line] /\ edits \in [Lines -> Edit] /\ lines[l] \in Line
    BY DEF BookInv, ProcurementTypeOK
  <1>2. CASE ReadForEdit(l)
    <2> DEFINE new == [open |-> TRUE, received |-> lines[l].received]
    <2>1. lines[l].received = 0
      <3>1. ~(lines[l].received > 0)
        BY <1>2 DEF ReadForEdit, BookInv, DeliveriesShow
      <3> QED BY <1>1, <3>1 DEF Line
    <2>2. new \in Edit /\ new.received = 0
      BY <2>1 DEF Edit
    <2>3. edits' = [edits EXCEPT ![l] = new]
      BY <1>2 DEF ReadForEdit
    <2> HIDE DEF new
    <2>4. edits' \in [Lines -> Edit] /\ edits'[l].received = 0
      BY <1>1, <2>2, <2>3
    <2>5. \A m \in Lines \ {l} : edits'[m] = edits[m]
      BY <1>1, <2>3
    <2>6. lines[l].state # "unused"
      BY <1>2 DEF ReadForEdit
    <2>7. UNCHANGED <<requests, orders, lines, links, forms, session>>
      BY <1>2 DEF ReadForEdit
    <2>8. UnusedIsBlank'
      BY <2>5, <2>6, <2>7 DEF BookInv, UnusedIsBlank
    <2>9. EditsAreEarly'
      BY <2>4, <2>5 DEF BookInv, EditsAreEarly
    <2> QED BY <2>4, <2>7, <2>8, <2>9
      DEF BookInv, ProcurementTypeOK, LinesHaveOrders, FormsHaveOrders, DeliveriesShow, IsForm
  <1>3. CASE SaveEdit(l)
    <2>1. PICK qty \in 1 .. MaxQty :
             lines' = [lines EXCEPT ![l].ordered = qty, ![l].received = edits[l].received,
                                    ![l].state = "live"]
      BY <1>3 DEF SaveEdit
    <2>2. edits[l].received = 0 /\ lines[l].state # "unused" /\ qty \in Nat
      <3>1. edits[l].open
        BY <1>3 DEF SaveEdit
      <3>2. edits[l].received = 0 /\ lines[l].state # "unused"
        BY <3>1 DEF BookInv, EditsAreEarly, UnusedIsBlank
      <3> QED BY <3>2, ProcurementAssumption
    <2> DEFINE new == [lines[l] EXCEPT !.ordered = qty, !.received = 0, !.state = "live"]
    <2>3. new \in Line
      BY <1>1, <2>2 DEF Line
    <2>4. new.state = "live" /\ new.received = 0 /\ new.order = lines[l].order
      BY <1>1 DEF Line
    <2>5. lines' = [lines EXCEPT ![l] = new]
      BY <1>1, <2>1, <2>2
    <2> HIDE DEF new
    <2>6. lines' \in [Lines -> Line] /\ lines'[l] = new
      BY <1>1, <2>3, <2>5
    <2>7. \A m \in Lines \ {l} : lines'[m] = lines[m]
      BY <1>1, <2>5
    <2>8. NoEdit \in Edit /\ ~NoEdit.open
      BY DEF NoEdit, Edit
    <2>9. edits' = [edits EXCEPT ![l] = NoEdit]
      BY <1>3 DEF SaveEdit
    <2>10. /\ edits' \in [Lines -> Edit] /\ edits'[l] = NoEdit
           /\ \A m \in Lines \ {l} : edits'[m] = edits[m]
      BY <1>1, <2>8, <2>9
    <2>11. UNCHANGED <<requests, orders, links, forms, session>>
      BY <1>3 DEF SaveEdit
    <2>12. UnusedIsBlank'
      BY <2>4, <2>6, <2>7, <2>10, <2>11 DEF BookInv, UnusedIsBlank
    <2>13. LinesHaveOrders' /\ FormsHaveOrders'
      BY <2>2, <2>4, <2>6, <2>7, <2>11 DEF BookInv, LinesHaveOrders, FormsHaveOrders
    <2>14. DeliveriesShow'
      BY <2>4, <2>6, <2>7, <2>11 DEF BookInv, DeliveriesShow
    <2>15. EditsAreEarly'
      BY <2>8, <2>10 DEF BookInv, EditsAreEarly
    <2>16. ProcurementTypeOK'
      BY <2>6, <2>10, <2>11 DEF BookInv, ProcurementTypeOK, IsForm
    <2> QED BY <2>12, <2>13, <2>14, <2>15, <2>16 DEF BookInv
  <1> QED BY <1>2, <1>3

(* The forms: one of them changes. *)
LEMMA FormKeepsBooks ==
    ASSUME BookInv, RequestTypeOK', NEW t \in Tabs, NEW new, IsForm(new), new.order \in Orders,
           forms' = [forms EXCEPT ![t] = new], IsQuantities(session'),
           UNCHANGED <<orders, lines, links, edits>>
    PROVE  BookInv'
  <1>1. DOMAIN forms = Tabs /\ \A u \in Tabs : IsForm(forms[u])
    BY DEF BookInv, ProcurementTypeOK
  <1>2. DOMAIN forms' = Tabs
    BY <1>1
  <1>3. \A u \in Tabs : forms'[u] = IF u = t THEN new ELSE forms[u]
    BY <1>1
  <1>4. (\A u \in Tabs : IsForm(forms[u]))'
    BY <1>1, <1>3 DEF IsForm
  <1>5. ProcurementTypeOK'
    BY <1>2, <1>4 DEF BookInv, ProcurementTypeOK
  <1>6. FormsHaveOrders'
    BY <1>3 DEF BookInv, FormsHaveOrders
  <1> QED BY <1>5, <1>6
    DEF BookInv, UnusedIsBlank, LinesHaveOrders, DeliveriesShow, EditsAreEarly

LEMMA OpenFormKeepsBooks ==
    ASSUME BookInv, RequestTypeOK', NEW t \in Tabs, NEW o \in Orders, OpenForm(t, o)
    PROVE  BookInv'
  <1> DEFINE seen == [l \in LiveLines(o) |-> lines[l].received]
             new == [NoForm EXCEPT !.page = "quantities", !.order = o, !.expected = seen]
  <1>1. IsQuantities(seen)
    BY DEF LiveLines, IsQuantities, BookInv, ProcurementTypeOK, Line
  <1>2. IsQuantities(Empty) /\ IsQuantities(session)
    BY DEF IsQuantities, Empty, BookInv, ProcurementTypeOK
  <1>3. forms' = [forms EXCEPT ![t] = new]
    BY DEF OpenForm
  <1> HIDE DEF seen
  <1>4. IsForm(new) /\ new.order = o
    BY <1>1, <1>2 DEF IsForm, NoForm
  <1> HIDE DEF new
  <1> QED BY <1>2, <1>3, <1>4, FormKeepsBooks DEF OpenForm

(* What a user types is a dictionary of quantities. *)
LEMMA TypedQuantities ==
    ASSUME BookInv, NEW t \in Tabs, NEW q \in Typed(t)
    PROVE  IsQuantities(q)
  <1>1. IsQuantities(forms[t].expected)
    BY DEF BookInv, ProcurementTypeOK, IsForm
  <1>2. DOMAIN q \subseteq DOMAIN forms[t].expected /\ q \in [DOMAIN q -> 0 .. MaxQty]
    BY DEF Typed
  <1>3. 0 .. MaxQty \subseteq Nat
    BY ProcurementAssumption
  <1> QED BY <1>1, <1>2, <1>3 DEF IsQuantities

LEMMA SubmitQuantitiesKeepsBooks ==
    ASSUME BookInv, RequestTypeOK', NEW t \in Tabs, NEW q \in Typed(t), SubmitQuantities(t, q)
    PROVE  BookInv'
  <1> DEFINE new == [forms[t] EXCEPT !.page = "assets", !.entered = q]
  <1>1. IsForm(forms[t]) /\ DOMAIN forms = Tabs /\ IsQuantities(q)
    BY TypedQuantities DEF BookInv, ProcurementTypeOK
  <1>2. forms[t].order \in Orders
    BY DEF SubmitQuantities, BookInv, FormsHaveOrders
  <1>3. forms' = [forms EXCEPT ![t] = new]
    BY <1>1 DEF SubmitQuantities
  <1>4. IsForm(new) /\ new.order = forms[t].order
    BY <1>1 DEF IsForm
  <1> HIDE DEF new
  <1> QED BY <1>1, <1>2, <1>3, <1>4, FormKeepsBooks DEF SubmitQuantities

(* A form after it booked quantities. *)
LEMMA BookedForm ==
    ASSUME NEW f, IsForm(f), NEW q
    PROVE  LET new == BookedThrough(f, q) IN
           /\ IsForm(new) /\ new.page = f.page /\ new.order = f.order
           /\ new.expected = f.expected
           /\ \A l \in Lines : new.booked[l] \in {f.booked[l], f.booked[l] + 1}
           /\ \A l \in Lines : ~(l \in LiveLines(f.order) /\ QtyOf(q, l) > 0)
                                   => new.booked[l] = f.booked[l]
  <1> DEFINE more == [l \in Lines |-> IF l \in LiveLines(f.order) /\ QtyOf(q, l) > 0 /\ f.booked[l] < 2
                                      THEN f.booked[l] + 1 ELSE f.booked[l]]
             new == [f EXCEPT !.booked = more]
  <1>1. f.booked \in [Lines -> 0 .. 2]
    BY DEF IsForm
  <1>2. more \in [Lines -> 0 .. 2]
    BY <1>1
  <1>3. \A l \in Lines : more[l] \in {f.booked[l], f.booked[l] + 1}
    OBVIOUS
  <1>4. \A l \in Lines : ~(l \in LiveLines(f.order) /\ QtyOf(q, l) > 0) => more[l] = f.booked[l]
    OBVIOUS
  <1>5. BookedThrough(f, q) = new
    BY DEF BookedThrough
  <1> HIDE DEF more
  <1>6. new.booked \in {more, f.booked}
    OBVIOUS
  <1>7. /\ new.page = f.page /\ new.order = f.order
        /\ new.expected = f.expected /\ new.entered = f.entered
    OBVIOUS
  <1> HIDE DEF new
  <1> QED BY <1>1, <1>2, <1>3, <1>4, <1>5, <1>6, <1>7 DEF IsForm

(* A receipt, from whichever page. *)
LEMMA ReceiveKeepsBooks ==
    ASSUME BookInv, RequestTypeOK', NEW t \in Tabs, NEW q, IsQuantities(q),
           forms[t].page # "none",
           ReceivePurchaseOrder(forms[t].order, q),
           forms' = [forms EXCEPT ![t] = BookedThrough(@, q)],
           IsQuantities(session'), UNCHANGED edits
    PROVE  BookInv'
  <1> DEFINE o == forms[t].order
             new == BookedThrough(forms[t], q)
  <1>1. /\ lines \in [Lines -> Line] /\ links \in [Lines -> [Requests -> Link]]
        /\ orders \in [Orders -> Order] /\ DOMAIN forms = Tabs
        /\ \A u \in Tabs : IsForm(forms[u])
    BY DEF BookInv, ProcurementTypeOK
  <1>2. o \in Orders
    BY DEF BookInv, FormsHaveOrders
  <1>3. /\ IsForm(new) /\ new.order = o
    BY <1>1, BookedForm
  <1>4. forms' = [forms EXCEPT ![t] = new]
    BY <1>1
  <1> HIDE DEF o, new
  <1>5. ReceivePurchaseOrder(o, q)
    BY DEF o
  <1>6. /\ lines' \in [Lines -> Line] /\ links' \in [Lines -> [Requests -> Link]]
        /\ \A l \in Lines :
                /\ lines'[l].state = lines[l].state /\ lines'[l].order = lines[l].order
                /\ l \in LiveLines(o) => lines'[l].received = lines[l].received + QtyOf(q, l)
                /\ l \notin LiveLines(o) => lines'[l] = lines[l] /\ links'[l] = links[l]
    BY <1>1, <1>5, ReceivedRows
  <1>7. PICK st \in {"partial", "received"} : orders' = [orders EXCEPT ![o].status = st]
    BY <1>5 DEF ReceivePurchaseOrder
  <1>8. orders' \in [Orders -> Order] /\ orders'[o].status = st
    BY <1>1, <1>2, <1>7 DEF Order, OrderStatuses
  <1>9. \A p : p # o => orders'[p] = orders[p]
    BY <1>1, <1>7
  <1>10. forms' = [forms EXCEPT ![t] = new] /\ \A u \in Tabs : forms'[u] = IF u = t THEN new ELSE forms[u]
    BY <1>1, <1>4
  <1>11. ProcurementTypeOK'
    <2>1. DOMAIN forms' = Tabs
      BY <1>1, <1>10
    <2>2. (\A u \in Tabs : IsForm(forms[u]))'
      BY <1>1, <1>3, <1>10 DEF IsForm
    <2> QED BY <1>6, <1>8, <2>1, <2>2 DEF BookInv, ProcurementTypeOK
  <1>12. UnusedIsBlank'
    <2> SUFFICES ASSUME NEW l \in Lines, lines'[l].state = "unused"
                 PROVE  /\ lines'[l].received = 0 /\ ~edits[l].open
                        /\ \A r \in Requests : links'[l][r].state = "none" /\ links'[l][r].received = 0
      BY DEF UnusedIsBlank
    <2>1. lines[l].state = "unused" /\ l \notin LiveLines(o)
      BY <1>6 DEF LiveLines
    <2> QED BY <1>6, <2>1 DEF BookInv, UnusedIsBlank
  <1>13. LinesHaveOrders' /\ FormsHaveOrders' /\ EditsAreEarly'
    BY <1>2, <1>3, <1>6, <1>10 DEF BookInv, LinesHaveOrders, FormsHaveOrders, EditsAreEarly
  <1>14. DeliveriesShow'
    <2> SUFFICES ASSUME NEW l \in Lines, lines'[l].received > 0
                 PROVE  orders'[lines[l].order].status \in {"partial", "received"}
      BY <1>6 DEF DeliveriesShow
    <2>1. CASE lines[l].order = o
      BY <1>8, <2>1
    <2>2. CASE lines[l].order # o
      <3>1. lines'[l] = lines[l]
        BY <1>6, <2>2 DEF LiveLines
      <3> QED BY <1>9, <2>2, <3>1 DEF BookInv, DeliveriesShow
    <2> QED BY <2>1, <2>2
  <1> QED BY <1>11, <1>12, <1>13, <1>14 DEF BookInv

(* Both pages of the form book through the same operation. *)
LEMMA ReceiptFacts ==
    ASSUME BookInv, NEW t \in Tabs,
           (\E q \in Typed(t) : SubmitReceipt(t, q)) \/ SubmitAssets(t)
    PROVE  \E q : /\ IsQuantities(q) /\ forms[t].page # "none"
                  /\ ReceiptAccepted(forms[t].order, q, forms[t].expected)
                  /\ ReceivePurchaseOrder(forms[t].order, q)
                  /\ forms' = [forms EXCEPT ![t] = BookedThrough(@, q)]
                  /\ IsQuantities(session') /\ UNCHANGED edits
  <1>1. IsQuantities(session) /\ IsQuantities(Empty)
    BY DEF BookInv, ProcurementTypeOK, IsQuantities, Empty
  <1>2. CASE \E q \in Typed(t) : SubmitReceipt(t, q)
    BY <1>1, <1>2, TypedQuantities DEF SubmitReceipt
  <1>3. CASE SubmitAssets(t)
    BY <1>1, <1>3 DEF SubmitAssets, SubmittedQuantities
  <1> QED BY <1>2, <1>3

LEMMA BookStep ==
    ASSUME BookInv, RequestTypeOK', [Next]_pvars
    PROVE  BookInv'
  <1>1. CASE UNCHANGED <<orders, lines, links, forms, session, edits>>
    BY <1>1 DEF BookInv, ProcurementTypeOK, UnusedIsBlank, LinesHaveOrders, FormsHaveOrders,
                DeliveriesShow, EditsAreEarly, IsForm
  <1>2. ASSUME NEW r \in Requests, CancelLinkedRequest(r) PROVE BookInv'
    BY <1>2, CancelRequestKeepsBooks
  <1>3. ASSUME NEW o \in Orders, OrderOperation(o) PROVE BookInv'
    <2>1. CASE ApproveOrder(o)
      BY <2>1, TransitionKeepsBooks DEF ApproveOrder, OrderStatuses
    <2>2. CASE OrderOrder(o)
      BY <2>2, TransitionKeepsBooks DEF OrderOrder, OrderStatuses
    <2>3. CASE ReopenOrder(o)
      BY <2>3, TransitionKeepsBooks DEF ReopenOrder, OrderStatuses
    <2>4. CASE CancelOrder(o)
      BY <2>4, CancelOrderKeepsBooks
    <2>5. CASE ArchiveOrder(o) \/ RestoreOrder(o)
      BY <2>5, ArchiveKeepsBooks
    <2> QED BY <1>3, <2>1, <2>2, <2>3, <2>4, <2>5 DEF OrderOperation
  <1>4. ASSUME NEW r \in Requests, NEW o \in Orders, NEW l \in Lines, LinkRequest(r, o, l)
        PROVE  BookInv'
    BY <1>4, LinkRequestKeepsBooks
  <1>5. ASSUME NEW t \in Tabs, NEW o \in Orders, OpenForm(t, o) PROVE BookInv'
    BY <1>5, OpenFormKeepsBooks
  <1>6. ASSUME NEW t \in Tabs, NEW q \in Typed(t), SubmitQuantities(t, q) PROVE BookInv'
    BY <1>6, SubmitQuantitiesKeepsBooks
  <1>7. ASSUME NEW t \in Tabs, (\E q \in Typed(t) : SubmitReceipt(t, q)) \/ SubmitAssets(t)
        PROVE  BookInv'
    <2>1. PICK q : /\ IsQuantities(q) /\ forms[t].page # "none"
                   /\ ReceivePurchaseOrder(forms[t].order, q)
                   /\ forms' = [forms EXCEPT ![t] = BookedThrough(@, q)]
                   /\ IsQuantities(session') /\ UNCHANGED edits
      BY <1>7, ReceiptFacts
    <2> QED BY <2>1, ReceiveKeepsBooks
  <1>8. ASSUME NEW o \in Orders, NEW l \in Lines, AddLine(o, l) PROVE BookInv'
    BY <1>8, AddLineKeepsBooks
  <1>9. ASSUME NEW l \in Lines, ReadForEdit(l) \/ SaveEdit(l) PROVE BookInv'
    BY <1>9, EditKeepsBooks
  <1>10. ASSUME NEW l \in Lines, DeleteLine(l) PROVE BookInv'
    BY <1>10, DeleteLineKeepsBooks
  <1> QED
    BY <1>1, <1>2, <1>3, <1>4, <1>5, <1>6, <1>7, <1>8, <1>9, <1>10 DEF Next, pvars

LEMMA RequestsHold == Spec => []RequestInv
  BY OrdersImplementRequests, RequestInvInductive, PTL DEF ImplementsRequests

LEMMA BooksInit == Init /\ RequestInv => BookInv
  <1> SUFFICES ASSUME Init, RequestInv PROVE BookInv
    OBVIOUS
  <1>1. orders \in [Orders -> Order]
    BY DEF Init, Order, OrderStatuses
  <1>2. lines \in [Lines -> Line]
    BY DEF Init, Line
  <1>3. links \in [Lines -> [Requests -> Link]]
    BY DEF Init, Link
  <1>4. IsQuantities(Empty)
    BY DEF IsQuantities, Empty
  <1>5. IsForm(NoForm) /\ NoForm.page = "none"
    BY <1>4 DEF NoForm, IsForm
  <1>6. DOMAIN forms = Tabs /\ \A t \in Tabs : forms[t] = NoForm
    BY DEF Init
  <1>7. edits \in [Lines -> Edit] /\ \A l \in Lines : ~edits[l].open
    BY DEF Init, Edit, NoEdit
  <1>8. ProcurementTypeOK
    BY <1>1, <1>2, <1>3, <1>4, <1>5, <1>6, <1>7 DEF ProcurementTypeOK, RequestInv, Init
  <1>9. UnusedIsBlank /\ LinesHaveOrders /\ DeliveriesShow
    BY <1>7 DEF Init, UnusedIsBlank, LinesHaveOrders, DeliveriesShow
  <1> QED BY <1>5, <1>6, <1>7, <1>8, <1>9 DEF BookInv, FormsHaveOrders, EditsAreEarly

(* The books are consistent after every history of orders, lines, links,    *)
(* receipts and edits.                                                      *)
THEOREM BooksHold == Spec => []BookInv
  <1>1. BookInv /\ RequestInv' /\ [Next]_pvars => BookInv'
    BY BookStep DEF RequestInv
  <1> QED BY <1>1, BooksInit, RequestsHold, PTL DEF Spec

(* Every table, form and dictionary keeps its type. *)
THEOREM ProcurementTypes == Spec => []ProcurementTypeOK
  <1>1. BookInv => ProcurementTypeOK
    BY DEF BookInv
  <1> QED BY <1>1, BooksHold, PTL

(* An order that is not partially or fully received has received nothing:   *)
(* cancelling or reopening one never throws a delivery away, line editors   *)
(* that save late included.                                                 *)
THEOREM DeliveriesSurvive == Spec => []NothingReceivedIsLost
  <1>1. BookInv => NothingReceivedIsLost
    <2> SUFFICES ASSUME BookInv, NEW o \in Orders, orders[o].status \notin {"partial", "received"},
                        NEW l \in LiveLines(o)
                 PROVE  lines[l].received = 0
      BY DEF NothingReceivedIsLost
    <2>1. l \in Lines /\ lines[l].order = o
      BY DEF LiveLines
    <2>2. lines[l].received \in Nat
      BY <2>1 DEF BookInv, ProcurementTypeOK, Line
    <2>3. ~(lines[l].received > 0)
      BY <2>1 DEF BookInv, DeliveriesShow
    <2> QED BY <2>2, <2>3
  <1> QED BY <1>1, BooksHold, PTL

-----------------------------------------------------------------------------
(* What a step leaves of a link. *)
KeepsAttribution ==
    \A l \in Lines, r \in Requests :
        /\ links'[l][r].received >= links[l][r].received
        /\ links[l][r].state = "closed" => links'[l][r] = links[l][r]

LEMMA ReceiptKeepsAttribution ==
    ASSUME BookInv, NEW o, NEW q, IsQuantities(q), ReceivePurchaseOrder(o, q)
    PROVE  KeepsAttribution
  <1> SUFFICES ASSUME NEW l \in Lines, NEW r \in Requests
               PROVE  /\ links'[l][r].received >= links[l][r].received
                      /\ links[l][r].state = "closed" => links'[l][r] = links[l][r]
    BY DEF KeepsAttribution
  <1> DEFINE a == Attributed(l, r, QtyOf(q, l))
  <1>1. lines \in [Lines -> Line] /\ links \in [Lines -> [Requests -> Link]]
    BY DEF BookInv, ProcurementTypeOK
  <1>2. links[l][r] \in Link /\ links[l][r].received \in Nat
    BY <1>1 DEF Link
  <1>3. a \in Nat /\ (r \notin Receivable(l) => a = 0)
    BY <1>1, QtyIsNat, AttributedShare
  <1>4. CASE l \notin LiveLines(o)
    <2>1. links'[l] = links[l]
      BY <1>1, <1>4, ReceivedRows
    <2> QED BY <1>2, <2>1
  <1>5. CASE l \in LiveLines(o)
    <2>1. links'[l][r] = [links[l][r] EXCEPT !.received = @ + a]
      BY <1>5 DEF ReceivePurchaseOrder
    <2> HIDE DEF a
    <2>2. links'[l][r].received = links[l][r].received + a
      BY <1>2, <2>1 DEF Link
    <2>3. ASSUME links[l][r].state = "closed" PROVE links'[l][r] = links[l][r]
      <3>1. a = 0
        BY <1>3, <2>3 DEF Receivable, LiveLinks
      <3> QED BY <1>2, <2>1, <3>1 DEF Link
    <2> QED BY <1>2, <1>3, <2>2, <2>3
  <1> QED BY <1>4, <1>5

LEMMA AttributionStep ==
    ASSUME BookInv, [Next]_pvars
    PROVE  KeepsAttribution
  <1>1. links \in [Lines -> [Requests -> Link]]
    BY DEF BookInv, ProcurementTypeOK
  <1>2. \A l \in Lines, r \in Requests : links[l][r].received \in Nat
    BY <1>1 DEF Link
  <1>3. CASE UNCHANGED links
    BY <1>2, <1>3 DEF KeepsAttribution
  <1>4. ASSUME NEW L, NEW R, links' = LinksClosed(L, R) PROVE KeepsAttribution
    BY <1>1, <1>2, <1>4, LinksClosedRows DEF KeepsAttribution
  <1>5. ASSUME NEW r \in Requests, NEW o \in Orders, NEW l \in Lines, LinkRequest(r, o, l)
        PROVE  KeepsAttribution
    <2>1. \A m \in Lines \ {l} : links'[m] = links[m]
      BY <1>5, LinkedRows
    <2>2. \A c \in Requests : links[l][c].state = "none" /\ links[l][c].received = 0
      BY <1>5, LinkedLine DEF BookInv, UnusedIsBlank
    <2>3. \A c \in Requests : links'[l][c].received = 0
      <3> SUFFICES ASSUME NEW c \in Requests PROVE links'[l][c].received = 0
        OBVIOUS
      <3>1. \/ links'[l][c] = [state |-> "live", allocated |-> requests[c].qty, received |-> 0]
            \/ links'[l][c] = links[l][c]
        BY <1>5, LinkedRows
      <3> QED BY <2>2, <3>1
    <2> QED BY <1>2, <2>1, <2>2, <2>3 DEF KeepsAttribution
  <1>6. ASSUME NEW t \in Tabs, (\E q \in Typed(t) : SubmitReceipt(t, q)) \/ SubmitAssets(t)
        PROVE  KeepsAttribution
    BY <1>6, ReceiptFacts, ReceiptKeepsAttribution
  <1>7. CASE \E r \in Requests : CancelLinkedRequest(r)
    BY <1>4, <1>7 DEF CancelLinkedRequest
  <1>8. CASE \E o \in Orders : CancelOrder(o)
    BY <1>4, <1>8 DEF CancelOrder
  <1>9. ASSUME NEW o \in Orders, OrderOperation(o) PROVE KeepsAttribution
    BY <1>3, <1>8, <1>9
    DEF OrderOperation, ApproveOrder, OrderOrder, ReopenOrder, ArchiveOrder, RestoreOrder
  <1>10. ASSUME NEW l \in Lines, ReadForEdit(l) \/ SaveEdit(l) \/ DeleteLine(l)
         PROVE  KeepsAttribution
    <2>1. ReadForEdit(l) => links' = links
      BY DEF ReadForEdit
    <2>2. SaveEdit(l) => links' = links
      BY DEF SaveEdit
    <2>3. DeleteLine(l) => links' = links
      BY DEF DeleteLine
    <2> QED BY <1>3, <1>10, <2>1, <2>2, <2>3
  <1>11. ASSUME NEW t \in Tabs, NEW q \in Typed(t), SubmitQuantities(t, q) PROVE KeepsAttribution
    BY <1>3, <1>11 DEF SubmitQuantities
  <1>12. ASSUME NEW o \in Orders, (\E t \in Tabs : OpenForm(t, o)) \/ (\E l \in Lines : AddLine(o, l))
         PROVE  KeepsAttribution
    <2>1. (\E t \in Tabs : OpenForm(t, o)) => links' = links
      BY DEF OpenForm
    <2>2. (\E l \in Lines : AddLine(o, l)) => links' = links
      BY DEF AddLine
    <2> QED BY <1>3, <1>12, <2>1, <2>2
  <1> QED BY <1>3, <1>5, <1>6, <1>7, <1>9, <1>10, <1>11, <1>12 DEF Next, pvars

(* What a link was credited with is never taken back, and a closed link is  *)
(* never credited or opened again, whoever edits or deletes lines by hand.  *)
THEOREM CreditStays == Spec => AttributionIsKept
  <1>1. BookInv /\ [Next]_pvars =>
          [\A l \in Lines, r \in Requests :
              /\ links'[l][r].received >= links[l][r].received
              /\ links[l][r].state = "closed" => links'[l][r] = links[l][r]]_pvars
    BY AttributionStep DEF KeepsAttribution
  <1> QED BY <1>1, BooksHold, PTL DEF Spec, AttributionIsKept

-----------------------------------------------------------------------------
(* Decisions, completions and handovers neither take a request into         *)
(* procurement nor out of it.                                               *)
LEMMA OnlyOrdersMoveProcurement ==
    ASSUME RequestTypeOK, RequestOperation
    PROVE  \A x \in Requests : requests'[x].status = "procurement" <=> Status(x) = "procurement"
  <1>1. PICK r \in Requests :
           \/ ApproveRequest(r) \/ DenyRequest(r)
           \/ ClaimRequest(r) \/ ManuallyCompleteRequest(r) \/ AutoFulfill(r)
           \/ CheckoutElsewhere(r) \/ CheckinAsset(r) \/ BulkReceive(r)
    BY DEF RequestOperation
  <1> DEFINE S == {r} \cup {c \in SubRequests(r) : Status(c) = "pending"}
             U == CompletableUnits(r)
  <1>2. CASE ApproveRequest(r)
    <2>1. PICK asset \in {"none", "held"}, qty \in 1 .. requests[r].qty :
              requests' = [Moved(S, "approved") EXCEPT ![r].asset = asset, ![r].qty = qty]
      BY <1>2 DEF ApproveRequest
    <2>2. /\ Moved(S, "approved") \in [Requests -> Request]
          /\ \A x \in Requests : Moved(S, "approved")[x].status = IF x \in S THEN "approved" ELSE Status(x)
      BY MovedRows DEF Statuses
    <2>3. \A x \in S : Status(x) = "pending"
      BY <1>2 DEF ApproveRequest
    <2> HIDE DEF S
    <2>4. \A x \in Requests : requests'[x].status = IF x \in S THEN "approved" ELSE Status(x)
      BY <2>1, <2>2 DEF Request
    <2> QED BY <2>3, <2>4
  <1>3. CASE DenyRequest(r)
    <2>1. \A x \in Requests : requests'[x].status = IF x \in S THEN "denied" ELSE Status(x)
      BY <1>3, MovedRows DEF DenyRequest, Statuses
    <2>2. \A x \in S : Status(x) = "pending"
      BY <1>3 DEF DenyRequest
    <2> QED BY <2>1, <2>2
  <1>4. CASE CheckoutElsewhere(r) \/ CheckinAsset(r) \/ BulkReceive(r)
    BY <1>4 DEF RequestTypeOK, Request, CheckoutElsewhere, CheckinAsset, BulkReceive, Status
  <1>5. ASSUME NEW T, NEW h \in BOOLEAN, \A x \in T : Status(x) # "procurement",
               \/ requests' = Fulfilled(T, h)
               \/ requests' = ParentCompleted(Fulfilled(T, h), r)
               \/ requests' = [Fulfilled(T, h) EXCEPT ![r].status = "fulfilled"] /\ Status(r) = "approved"
        PROVE  \A x \in Requests : requests'[x].status = "procurement" <=> Status(x) = "procurement"
    <2> DEFINE rows == Fulfilled(T, h)
    <2>1. /\ rows \in [Requests -> Request]
          /\ \A x \in Requests : rows[x].status = IF x \in T THEN "fulfilled" ELSE Status(x)
      BY FulfilledRows
    <2>2. \A x \in Requests : rows[x].status = "procurement" <=> Status(x) = "procurement"
      BY <1>5, <2>1
    <2> HIDE DEF rows
    <2>3. CASE requests' = rows
      BY <2>2, <2>3
    <2>4. CASE requests' = ParentCompleted(rows, r)
      BY <2>1, <2>2, <2>4, ParentCompletedRows
    <2>5. CASE requests' = [rows EXCEPT ![r].status = "fulfilled"] /\ Status(r) = "approved"
      BY <2>1, <2>2, <2>5 DEF Request
    <2> QED BY <1>5, <2>3, <2>4, <2>5 DEF rows
  <1>6. CASE AutoFulfill(r)
    <2> DEFINE T == {r}
    <2>1. \A x \in T : Status(x) # "procurement"
      BY <1>6 DEF AutoFulfill, MatchesCheckout
    <2>2. \E h \in BOOLEAN : requests' = ParentCompleted(Fulfilled(T, h), r)
      BY <1>6 DEF AutoFulfill
    <2> HIDE DEF T
    <2> QED BY <1>5, <2>1, <2>2
  <1>7. CASE ClaimRequest(r) \/ ManuallyCompleteRequest(r)
    <2>1. Status(r) = "approved" /\ \A x \in U : Status(x) # "procurement"
      BY <1>7 DEF ClaimRequest, ManuallyCompleteRequest, Completable
    <2>2. PICK h \in BOOLEAN : \/ requests' = Fulfilled(U, h)
                               \/ requests' = ParentCompleted(Fulfilled(U, h), r)
                               \/ requests' = [Fulfilled(U, h) EXCEPT ![r].status = "fulfilled"]
      BY <1>7 DEF ClaimRequest, ManuallyCompleteRequest
    <2> HIDE DEF U
    <2>3. \/ requests' = Fulfilled(U, h)
          \/ requests' = ParentCompleted(Fulfilled(U, h), r)
          \/ requests' = [Fulfilled(U, h) EXCEPT ![r].status = "fulfilled"] /\ Status(r) = "approved"
      BY <2>1, <2>2
    <2> QED BY <1>5, <2>1, <2>3
  <1> QED BY <1>1, <1>2, <1>3, <1>4, <1>6, <1>7

(* The units a receipt completes have nothing outstanding after it. *)
LEMMA CompletedIsServed ==
    ASSUME BookInv, NEW o, NEW q, IsQuantities(q), ReceivePurchaseOrder(o, q),
           NEW r \in Completed(o, q)
    PROVE  \E l \in Lines : r \in LiveLinks(l) /\ LinkOutstanding(links'[l][r]) = 0
  <1>1. lines \in [Lines -> Line] /\ links \in [Lines -> [Requests -> Link]]
    BY DEF BookInv, ProcurementTypeOK
  <1>2. r \in Requests
    BY DEF Completed
  <1>3. PICK l \in LiveLines(o) : /\ Attributed(l, r, QtyOf(q, l)) > 0
                                  /\ Attributed(l, r, QtyOf(q, l)) = LinkOutstanding(links[l][r])
    BY DEF Completed
  <1>4. l \in Lines
    BY DEF LiveLines
  <1>5. r \in LiveLinks(l)
    BY <1>3 DEF Attributed, Receivable
  <1>6. /\ links'[l][r].allocated = links[l][r].allocated
        /\ links'[l][r].received = links[l][r].received + LinkOutstanding(links[l][r])
    BY <1>1, <1>2, <1>3, <1>4, ReceivedRows
  <1>7. links[l][r] \in Link
    BY <1>1, <1>2, <1>4
  <1>8. /\ links[l][r].allocated \in Nat /\ links[l][r].received \in Nat
        /\ LinkOutstanding(links[l][r]) = links[l][r].allocated - links[l][r].received
    BY <1>3, <1>7, OutstandingIsNat DEF Link
  <1>9. LinkOutstanding(links'[l][r]) = 0
    BY <1>6, <1>8 DEF LinkOutstanding
  <1> QED BY <1>4, <1>5, <1>9

(* Only units that were given back or served leave procurement: a group     *)
(* parent that follows them is no unit.                                     *)
LEMMA ReleasedUnits ==
    ASSUME RequestTypeOK, NEW D \in SUBSET Requests, NEW served \in BOOLEAN,
           requests' = Released(D, served), NEW r \in Requests, ~IsGroup(r)
    PROVE  requests'[r].status = IF r \in D THEN "approved" ELSE Status(r)
  <1>1. requests'[r].status = IF r \in D \cup CompletedParents(D) THEN "approved" ELSE Status(r)
    BY ReleasedRows
  <1>2. r \in CompletedParents(D) => r \in D
    <2> SUFFICES ASSUME r \in CompletedParents(D) PROVE r \in D
      OBVIOUS
    <2>1. SubRequests(r) = {}
      BY DEF IsGroup
    <2>2. PICK c \in D : r = Parent[c]
      BY DEF CompletedParents
    <2> QED BY <2>1, <2>2 DEF SubRequests
  <1> QED BY <1>1, <1>2

(* A unit that leaves procurement as approved was served, or its order is   *)
(* being cancelled.                                                         *)
ServedOrGivenBack ==
    \A r \in Requests :
        (~IsGroup(r) /\ Status(r) = "procurement" /\ requests'[r].status = "approved") =>
            \E l \in Lines :
                /\ r \in LiveLinks(l)
                /\ \/ LinkOutstanding(links'[l][r]) = 0
                   \/ orders'[lines[l].order].status = "cancelled"

LEMMA ApprovalStep ==
    ASSUME BookInv, [Next]_pvars
    PROVE  ServedOrGivenBack
  <1> SUFFICES ASSUME NEW r \in Requests, ~IsGroup(r), Status(r) = "procurement",
                      requests'[r].status = "approved"
               PROVE  \E l \in Lines :
                        /\ r \in LiveLinks(l)
                        /\ \/ LinkOutstanding(links'[l][r]) = 0
                           \/ orders'[lines[l].order].status = "cancelled"
    BY DEF ServedOrGivenBack
  <1>1. RequestTypeOK
    BY DEF BookInv, ProcurementTypeOK
  <1>2. requests' # requests
    BY DEF Status
  <1>3. ~RequestOperation
    BY <1>1, OnlyOrdersMoveProcurement
  <1>4. ASSUME NEW x \in Requests, CancelLinkedRequest(x) PROVE FALSE
    <2>1. requests' = Moved({x} \cup CancelledUnits(x), "cancelled")
      BY <1>4 DEF CancelLinkedRequest, CancelRequest
    <2> QED BY <1>1, <2>1, MovedRows DEF Statuses
  <1>5. ASSUME NEW x \in Requests, NEW o \in Orders, NEW l \in Lines, LinkRequest(x, o, l)
        PROVE  FALSE
    <2>1. requests' = Moved({x} \cup Targets(x), "procurement")
      BY <1>5 DEF LinkRequest, Procure
    <2> QED BY <1>1, <2>1, MovedRows DEF Statuses
  <1>6. ASSUME NEW o \in Orders, CancelOrder(o)
        PROVE  \E l \in Lines : r \in LiveLinks(l) /\ orders'[lines[l].order].status = "cancelled"
    <2>1. requests' = Released(Reverted(o), FALSE) /\ Reverted(o) \in SUBSET Requests
      BY <1>6 DEF CancelOrder, Reverted
    <2>2. r \in Reverted(o)
      BY <1>1, <2>1, ReleasedUnits
    <2>3. PICK l \in LiveLines(o) : r \in LiveLinks(l)
      BY <2>2 DEF Reverted
    <2>4. l \in Lines /\ lines[l].order = o
      BY DEF LiveLines
    <2>5. orders'[o].status = "cancelled"
      BY <1>6 DEF CancelOrder, Transition, BookInv, ProcurementTypeOK, Order
    <2> QED BY <2>3, <2>4, <2>5
  <1>7. ASSUME NEW t \in Tabs, (\E q \in Typed(t) : SubmitReceipt(t, q)) \/ SubmitAssets(t)
        PROVE  \E l \in Lines : r \in LiveLinks(l) /\ LinkOutstanding(links'[l][r]) = 0
    <2>1. PICK q : IsQuantities(q) /\ ReceivePurchaseOrder(forms[t].order, q)
      BY <1>7, ReceiptFacts
    <2> DEFINE o == forms[t].order
    <2>2. requests' = Released(Completed(o, q), TRUE) /\ Completed(o, q) \in SUBSET Requests
      BY <2>1 DEF ReceivePurchaseOrder, Completed
    <2>3. r \in Completed(o, q)
      BY <1>1, <2>2, ReleasedUnits
    <2> QED BY <2>1, <2>3, CompletedIsServed
  <1>8. ASSUME NEW o \in Orders, OrderOperation(o) PROVE CancelOrder(o)
    BY <1>2, <1>8
    DEF OrderOperation, ApproveOrder, OrderOrder, ReopenOrder, ArchiveOrder, RestoreOrder
  <1>9. ASSUME NEW l \in Lines PROVE ~ReadForEdit(l) /\ ~SaveEdit(l) /\ ~DeleteLine(l)
    <2>1. ~ReadForEdit(l)
      BY <1>2 DEF ReadForEdit
    <2>2. SaveEdit(l) => requests' = requests
      BY DEF SaveEdit
    <2>3. ~DeleteLine(l)
      BY <1>2 DEF DeleteLine
    <2> QED BY <1>2, <2>1, <2>2, <2>3
  <1>10. ASSUME NEW t \in Tabs, NEW q \in Typed(t) PROVE ~SubmitQuantities(t, q)
    BY <1>2 DEF SubmitQuantities
  <1>11. ASSUME NEW o \in Orders, NEW t \in Tabs PROVE ~OpenForm(t, o)
    BY <1>2 DEF OpenForm
  <1>12. ASSUME NEW o \in Orders, NEW l \in Lines PROVE ~AddLine(o, l)
    BY <1>2 DEF AddLine
  <1> QED
    BY <1>2, <1>3, <1>4, <1>5, <1>6, <1>7, <1>8, <1>9, <1>10, <1>11, <1>12 DEF Next, pvars

(* A unit leaves procurement for approved only because its full share has   *)
(* arrived or because its order is being cancelled: no decision, handover,  *)
(* partial delivery or line edit does it.                                   *)
THEOREM ApprovedWhenServed == Spec => ApprovalNeedsDelivery
  <1>1. BookInv /\ [Next]_pvars =>
          [\A r \in Requests :
            (~IsGroup(r) /\ Status(r) = "procurement" /\ requests'[r].status = "approved") =>
                \E l \in Lines :
                    /\ r \in LiveLinks(l)
                    /\ \/ LinkOutstanding(links'[l][r]) = 0
                       \/ orders'[lines[l].order].status = "cancelled"]_pvars
    BY ApprovalStep DEF ServedOrGivenBack
  <1> QED BY <1>1, BooksHold, PTL DEF Spec, ApprovalNeedsDelivery

-----------------------------------------------------------------------------
(* Nothing is booked twice, while nobody edits lines by hand *)

NobodyEdits == \A l \in Lines : ~edits[l].open

Fits == \A l \in Lines : lines[l].received <= lines[l].ordered

(* A form that booked a line expects less than is recorded by now. *)
BookedIsPast ==
    \A t \in Tabs, l \in Lines :
        forms[t].booked[l] > 0 =>
            /\ forms[t].booked[l] = 1
            /\ l \in DOMAIN forms[t].expected
            /\ forms[t].expected[l] < lines[l].received

OnceInv == NobodyEdits /\ Fits /\ BookedIsPast

Receipt(t) == (\E q \in Typed(t) : SubmitReceipt(t, q)) \/ SubmitAssets(t)

(* A step that is no receipt books nothing on any line ... *)
QuietLines ==
    \A l \in Lines :
        /\ lines'[l].received = lines[l].received
        /\ lines'[l].ordered = lines[l].ordered \/ lines'[l].received = 0

(* ... credits no link ... *)
QuietLinks ==
    \A l \in Lines, r \in Requests :
        /\ links'[l][r].received = links[l][r].received
        /\ links'[l][r].allocated = links[l][r].allocated \/ links'[l][r].received = 0

(* ... and a form that is not rendered anew keeps its snapshot. *)
QuietForms ==
    \A t \in Tabs :
        \/ forms'[t].booked = forms[t].booked /\ forms'[t].expected = forms[t].expected
        \/ \A l \in Lines : forms'[t].booked[l] = 0

LEMMA StateOfLine ==
    ASSUME NEW k \in Line, NEW state \in {"live", "deleted", "archived"}
    PROVE  LET new == [k EXCEPT !.state = state] IN
           /\ new \in Line /\ new.state = state /\ new.order = k.order
           /\ new.received = k.received /\ new.ordered = k.ordered
  <1> DEFINE new == [k EXCEPT !.state = state]
  <1>1. new \in Line
    BY DEF Line
  <1>2. /\ new.state = state /\ new.order = k.order
        /\ new.received = k.received /\ new.ordered = k.ordered
    BY DEF Line
  <1> QED BY <1>1, <1>2

(* Steps that only change the states of lines. *)
LEMMA MovesAreQuiet ==
    ASSUME BookInv, NEW S, NEW state \in {"live", "deleted", "archived"},
           lines' = [l \in Lines |-> IF l \in S THEN [lines[l] EXCEPT !.state = state] ELSE lines[l]]
    PROVE  /\ QuietLines
           /\ \A l \in Lines : /\ lines'[l].order = lines[l].order
                               /\ lines'[l].state = IF l \in S THEN state ELSE lines[l].state
  <1>1. lines \in [Lines -> Line]
    BY DEF BookInv, ProcurementTypeOK
  <1> SUFFICES ASSUME NEW l \in Lines
               PROVE  /\ lines'[l].received = lines[l].received
                      /\ lines'[l].ordered = lines[l].ordered
                      /\ lines'[l].order = lines[l].order
                      /\ lines'[l].state = IF l \in S THEN state ELSE lines[l].state
    BY DEF QuietLines
  <1>2. lines'[l] = IF l \in S THEN [lines[l] EXCEPT !.state = state] ELSE lines[l]
    OBVIOUS
  <1>3. lines[l] \in Line
    BY <1>1
  <1>4. LET new == [lines[l] EXCEPT !.state = state] IN
           /\ new.state = state /\ new.order = lines[l].order
           /\ new.received = lines[l].received /\ new.ordered = lines[l].ordered
    BY <1>3, StateOfLine
  <1> QED BY <1>2, <1>4

(* A new line starts empty, as its unused key was. *)
LEMMA NewLinesAreQuiet ==
    ASSUME BookInv, NEW l \in Lines, NEW row, lines[l].state = "unused", row.received = 0,
           lines' = [lines EXCEPT ![l] = row]
    PROVE  QuietLines
  <1>1. lines \in [Lines -> Line] /\ lines[l].received = 0
    BY DEF BookInv, ProcurementTypeOK, UnusedIsBlank
  <1>2. \A m \in Lines : lines'[m] = IF m = l THEN row ELSE lines[m]
    BY <1>1
  <1> QED BY <1>1, <1>2 DEF QuietLines

(* The states and rows a step that moves lines gives them. *)
LEMMA LineStep ==
    ASSUME BookInv, NobodyEdits, Next, \A t \in Tabs : ~Receipt(t)
    PROVE  QuietLines
  <1>1. CASE UNCHANGED lines
    BY <1>1 DEF QuietLines
  <1>2. ASSUME NEW o \in Orders, OrderOperation(o) PROVE QuietLines
    <2>1. CASE CancelOrder(o)
      <3> DEFINE S == {l \in Lines : l \in LiveLines(o) /\ LiveLinks(l) # {}}
      <3>1. lines' = [l \in Lines |-> IF l \in S THEN [lines[l] EXCEPT !.state = "deleted"] ELSE lines[l]]
        BY <2>1 DEF CancelOrder
      <3> QED BY <3>1, MovesAreQuiet
    <2>2. CASE ArchiveOrder(o)
      <3> DEFINE S == LiveLines(o)
      <3>1. lines' = [l \in Lines |-> IF l \in S THEN [lines[l] EXCEPT !.state = "archived"] ELSE lines[l]]
        BY <2>2 DEF ArchiveOrder
      <3> QED BY <3>1, MovesAreQuiet
    <2>3. CASE RestoreOrder(o)
      <3> DEFINE S == {l \in Lines : lines[l].order = o /\ lines[l].state = "archived"}
      <3>1. lines' = [l \in Lines |-> IF l \in S THEN [lines[l] EXCEPT !.state = "live"] ELSE lines[l]]
        BY <2>3 DEF RestoreOrder
      <3> QED BY <3>1, MovesAreQuiet
    <2> QED BY <1>1, <1>2, <2>1, <2>2, <2>3
      DEF OrderOperation, ApproveOrder, OrderOrder, ReopenOrder
  <1>3. ASSUME NEW r \in Requests, NEW o \in Orders, NEW l \in Lines, LinkRequest(r, o, l)
        PROVE  QuietLines
    BY <1>3, LinkedLine, NewLinesAreQuiet
  <1>4. ASSUME NEW o \in Orders, NEW l \in Lines, AddLine(o, l) PROVE QuietLines
    <2>1. lines[l].state = "unused"
      BY <1>4, NextKeyIsUnused, ProcurementAssumption DEF AddLine
    <2>2. PICK s \in BOOLEAN, n \in 1 .. MaxQty : lines' = [lines EXCEPT ![l] = NewLine(o, s, n)]
      BY <1>4 DEF AddLine
    <2>3. NewLine(o, s, n).received = 0
      BY DEF NewLine
    <2> QED BY <2>1, <2>2, <2>3, NewLinesAreQuiet
  <1>5. ASSUME NEW l \in Lines, DeleteLine(l) PROVE QuietLines
    <2> DEFINE S == {l}
    <2>1. lines \in [Lines -> Line]
      BY DEF BookInv, ProcurementTypeOK
    <2>2. lines' = [m \in Lines |-> IF m \in S THEN [lines[m] EXCEPT !.state = "deleted"] ELSE lines[m]]
      BY <1>5, <2>1 DEF DeleteLine
    <2> QED BY <2>2, MovesAreQuiet
  <1>6. ASSUME NEW l \in Lines PROVE ~SaveEdit(l) /\ (ReadForEdit(l) => QuietLines)
    <2>1. SaveEdit(l) => edits[l].open
      BY DEF SaveEdit
    <2>2. ReadForEdit(l) => UNCHANGED lines
      BY DEF ReadForEdit
    <2> QED BY <1>1, <2>1, <2>2 DEF NobodyEdits
  <1>7. ASSUME NEW t \in Tabs, NEW q \in Typed(t), SubmitQuantities(t, q) PROVE QuietLines
    BY <1>1, <1>7 DEF SubmitQuantities
  <1>8. ASSUME NEW t \in Tabs, NEW o \in Orders, OpenForm(t, o) PROVE QuietLines
    BY <1>1, <1>8 DEF OpenForm
  <1>9. ASSUME NEW r \in Requests, CancelLinkedRequest(r) PROVE QuietLines
    BY <1>1, <1>9 DEF CancelLinkedRequest
  <1> QED
    BY <1>1, <1>2, <1>3, <1>4, <1>5, <1>6, <1>7, <1>8, <1>9 DEF Next, Receipt

LEMMA LinkStep ==
    ASSUME BookInv, Next, \A t \in Tabs : ~Receipt(t)
    PROVE  QuietLinks
  <1>1. CASE UNCHANGED links
    BY <1>1 DEF QuietLinks
  <1>2. ASSUME NEW L, NEW R, links' = LinksClosed(L, R) PROVE QuietLinks
    BY <1>2, LinksClosedRows DEF QuietLinks, BookInv, ProcurementTypeOK
  <1>3. ASSUME NEW r \in Requests, NEW o \in Orders, NEW l \in Lines, LinkRequest(r, o, l)
        PROVE  QuietLinks
    <2>1. \A m \in Lines \ {l} : links'[m] = links[m]
      BY <1>3, LinkedRows
    <2>2. \A c \in Requests : links[l][c].received = 0
      BY <1>3, LinkedLine DEF BookInv, UnusedIsBlank
    <2>3. ASSUME NEW c \in Requests PROVE links'[l][c].received = 0
      <3>1. \/ links'[l][c] = [state |-> "live", allocated |-> requests[c].qty, received |-> 0]
            \/ links'[l][c] = links[l][c]
        BY <1>3, LinkedRows
      <3> QED BY <2>2, <3>1
    <2> QED BY <2>1, <2>2, <2>3 DEF QuietLinks
  <1>4. ASSUME NEW o \in Orders, OrderOperation(o) PROVE QuietLinks
    BY <1>1, <1>2, <1>4
    DEF OrderOperation, ApproveOrder, OrderOrder, ReopenOrder, ArchiveOrder, RestoreOrder, CancelOrder
  <1>5. ASSUME NEW l \in Lines PROVE (ReadForEdit(l) \/ SaveEdit(l) \/ DeleteLine(l)) => UNCHANGED links
    <2>1. ReadForEdit(l) => UNCHANGED links
      BY DEF ReadForEdit
    <2>2. SaveEdit(l) => UNCHANGED links
      BY DEF SaveEdit
    <2>3. DeleteLine(l) => UNCHANGED links
      BY DEF DeleteLine
    <2> QED BY <2>1, <2>2, <2>3
  <1>6. ASSUME NEW t \in Tabs, NEW q \in Typed(t), SubmitQuantities(t, q) PROVE QuietLinks
    BY <1>1, <1>6 DEF SubmitQuantities
  <1>7. ASSUME NEW t \in Tabs, NEW o \in Orders, OpenForm(t, o) PROVE QuietLinks
    BY <1>1, <1>7 DEF OpenForm
  <1>8. ASSUME NEW o \in Orders, NEW l \in Lines, AddLine(o, l) PROVE QuietLinks
    BY <1>1, <1>8 DEF AddLine
  <1>9. ASSUME NEW r \in Requests, CancelLinkedRequest(r) PROVE QuietLinks
    BY <1>2, <1>9 DEF CancelLinkedRequest
  <1> QED
    BY <1>1, <1>3, <1>4, <1>5, <1>6, <1>7, <1>8, <1>9 DEF Next, Receipt

LEMMA FormStep ==
    ASSUME BookInv, Next, \A t \in Tabs : ~Receipt(t)
    PROVE  QuietForms
  <1>1. DOMAIN forms = Tabs /\ \A t \in Tabs : IsForm(forms[t])
    BY DEF BookInv, ProcurementTypeOK
  <1>2. CASE UNCHANGED forms
    BY <1>2 DEF QuietForms
  <1>3. ASSUME NEW t \in Tabs, NEW o \in Orders, OpenForm(t, o) PROVE QuietForms
    <2> DEFINE seen == [l \in LiveLines(o) |-> lines[l].received]
               new == [NoForm EXCEPT !.page = "quantities", !.order = o, !.expected = seen]
    <2>1. forms' = [forms EXCEPT ![t] = new]
      BY <1>3 DEF OpenForm
    <2>2. \A l \in Lines : new.booked[l] = 0
      BY DEF NoForm
    <2> HIDE DEF new
    <2>3. \A u \in Tabs : forms'[u] = IF u = t THEN new ELSE forms[u]
      BY <1>1, <2>1
    <2> QED BY <2>2, <2>3 DEF QuietForms
  <1>4. ASSUME NEW t \in Tabs, NEW q \in Typed(t), SubmitQuantities(t, q) PROVE QuietForms
    <2> DEFINE new == [forms[t] EXCEPT !.page = "assets", !.entered = q]
    <2>1. forms' = [forms EXCEPT ![t] = new]
      BY <1>1, <1>4 DEF SubmitQuantities
    <2>2. new.booked = forms[t].booked /\ new.expected = forms[t].expected
      OBVIOUS
    <2> HIDE DEF new
    <2>3. \A u \in Tabs : forms'[u] = IF u = t THEN new ELSE forms[u]
      BY <1>1, <2>1
    <2> QED BY <2>2, <2>3 DEF QuietForms
  <1>5. ASSUME NEW o \in Orders, OrderOperation(o) PROVE UNCHANGED forms
    BY <1>5
    DEF OrderOperation, ApproveOrder, OrderOrder, ReopenOrder, ArchiveOrder, RestoreOrder, CancelOrder
  <1>6. ASSUME NEW l \in Lines PROVE (ReadForEdit(l) \/ SaveEdit(l) \/ DeleteLine(l)) => UNCHANGED forms
    <2>1. ReadForEdit(l) => UNCHANGED forms
      BY DEF ReadForEdit
    <2>2. SaveEdit(l) => UNCHANGED forms
      BY DEF SaveEdit
    <2>3. DeleteLine(l) => UNCHANGED forms
      BY DEF DeleteLine
    <2> QED BY <2>1, <2>2, <2>3
  <1>7. ASSUME NEW r \in Requests, NEW o \in Orders, NEW l \in Lines, LinkRequest(r, o, l)
        PROVE  UNCHANGED forms
    BY <1>7 DEF LinkRequest
  <1>8. ASSUME NEW o \in Orders, NEW l \in Lines, AddLine(o, l) PROVE UNCHANGED forms
    BY <1>8 DEF AddLine
  <1>9. ASSUME NEW r \in Requests, CancelLinkedRequest(r) PROVE UNCHANGED forms
    BY <1>9 DEF CancelLinkedRequest
  <1> QED
    BY <1>2, <1>3, <1>4, <1>5, <1>6, <1>7, <1>8, <1>9 DEF Next, Receipt

LEMMA NobodyEditsStep ==
    ASSUME BookInv, NobodyEdits, Editors = {}, [Next]_pvars
    PROVE  NobodyEdits'
  <1>1. CASE UNCHANGED edits
    BY <1>1 DEF NobodyEdits
  <1>2. ASSUME NEW l \in Lines PROVE ~ReadForEdit(l) /\ ~SaveEdit(l) /\ (DeleteLine(l) => UNCHANGED edits)
    <2>1. ~ReadForEdit(l)
      BY DEF ReadForEdit
    <2>2. SaveEdit(l) => edits[l].open
      BY DEF SaveEdit
    <2>3. DeleteLine(l) => UNCHANGED edits
      BY DEF DeleteLine
    <2> QED BY <2>1, <2>2, <2>3 DEF NobodyEdits
  <1>3. ASSUME NEW o \in Orders, OrderOperation(o) PROVE UNCHANGED edits
    BY <1>3
    DEF OrderOperation, ApproveOrder, OrderOrder, ReopenOrder, ArchiveOrder, RestoreOrder, CancelOrder
  <1>4. ASSUME NEW r \in Requests, NEW o \in Orders, NEW l \in Lines, LinkRequest(r, o, l)
        PROVE  UNCHANGED edits
    BY <1>4 DEF LinkRequest
  <1>5. ASSUME NEW o \in Orders, NEW l \in Lines, AddLine(o, l) PROVE UNCHANGED edits
    BY <1>5 DEF AddLine
  <1>6. ASSUME NEW t \in Tabs, NEW o \in Orders, OpenForm(t, o) PROVE UNCHANGED edits
    BY <1>6 DEF OpenForm
  <1>7. ASSUME NEW t \in Tabs, NEW q \in Typed(t), SubmitQuantities(t, q) PROVE UNCHANGED edits
    BY <1>7 DEF SubmitQuantities
  <1>8. ASSUME NEW t \in Tabs, Receipt(t) PROVE UNCHANGED edits
    BY <1>8, ReceiptFacts DEF Receipt
  <1>9. ASSUME NEW r \in Requests, CancelLinkedRequest(r) PROVE UNCHANGED edits
    BY <1>9 DEF CancelLinkedRequest
  <1> QED
    BY <1>1, <1>2, <1>3, <1>4, <1>5, <1>6, <1>7, <1>8, <1>9 DEF Next, Receipt, pvars

(* A receipt books a line only if the form's snapshot of it is up to date,  *)
(* and no more than is outstanding.                                         *)
LEMMA ReceiptOnce ==
    ASSUME BookInv, OnceInv, NEW t \in Tabs, Receipt(t)
    PROVE  Fits' /\ BookedIsPast'
  <1>1. PICK q : /\ IsQuantities(q)
                 /\ ReceiptAccepted(forms[t].order, q, forms[t].expected)
                 /\ ReceivePurchaseOrder(forms[t].order, q)
                 /\ forms' = [forms EXCEPT ![t] = BookedThrough(@, q)]
    BY ReceiptFacts DEF Receipt
  <1> DEFINE o == forms[t].order
             new == BookedThrough(forms[t], q)
  <1>2. /\ lines \in [Lines -> Line] /\ links \in [Lines -> [Requests -> Link]]
        /\ DOMAIN forms = Tabs /\ \A u \in Tabs : IsForm(forms[u])
    BY DEF BookInv, ProcurementTypeOK
  <1>3. \A l \in Lines : QtyOf(q, l) \in Nat /\ lines[l].received \in Nat /\ lines[l].ordered \in Nat
    BY <1>1, <1>2, QtyIsNat DEF Line
  <1>4. \A l \in Lines : /\ lines'[l].ordered = lines[l].ordered
                         /\ l \in LiveLines(o) => lines'[l].received = lines[l].received + QtyOf(q, l)
                         /\ l \notin LiveLines(o) => lines'[l].received = lines[l].received
    BY <1>1, <1>2, ReceivedRows
  <1>5. \A l \in LiveLines(o) : QtyOf(q, l) > 0 =>
            /\ l \in DOMAIN forms[t].expected /\ forms[t].expected[l] = lines[l].received
            /\ QtyOf(q, l) <= Outstanding(l)
    BY <1>1 DEF ReceiptAccepted, StateAsExpected
  <1>6. \A u \in Tabs : forms'[u] = IF u = t THEN new ELSE forms[u]
    BY <1>1, <1>2
  <1>7. /\ new.expected = forms[t].expected
        /\ \A l \in Lines : new.booked[l] \in {forms[t].booked[l], forms[t].booked[l] + 1}
        /\ \A l \in Lines : ~(l \in LiveLines(o) /\ QtyOf(q, l) > 0) => new.booked[l] = forms[t].booked[l]
    BY <1>2, BookedForm
  <1>8. \A u \in Tabs : /\ forms[u].booked \in [Lines -> 0 .. 2]
                        /\ forms[u].expected \in [DOMAIN forms[u].expected -> Nat]
    BY <1>2 DEF IsForm, IsQuantities
  <1> HIDE DEF o, new
  <1>9. Fits'
    <2> SUFFICES ASSUME NEW l \in Lines PROVE lines'[l].received <= lines'[l].ordered
      BY DEF Fits
    <2>1. lines[l].received <= lines[l].ordered
      BY DEF OnceInv, Fits
    <2>2. CASE l \in LiveLines(o) /\ QtyOf(q, l) > 0
      <3>1. QtyOf(q, l) <= lines[l].ordered - lines[l].received
        BY <1>3, <1>5, <2>2 DEF Outstanding
      <3> QED BY <1>3, <1>4, <2>2, <3>1
    <2> QED BY <1>3, <1>4, <2>1, <2>2
  <1>10. BookedIsPast'
    <2> SUFFICES ASSUME NEW u \in Tabs, NEW l \in Lines, forms'[u].booked[l] > 0
                 PROVE  /\ forms'[u].booked[l] = 1
                        /\ l \in DOMAIN forms'[u].expected
                        /\ forms'[u].expected[l] < lines'[l].received
      BY DEF BookedIsPast
    <2>1. lines'[l].received >= lines[l].received /\ lines'[l].received \in Nat
      BY <1>3, <1>4
    <2>2. forms[u].booked[l] > 0 => /\ forms[u].booked[l] = 1
                                    /\ l \in DOMAIN forms[u].expected
                                    /\ forms[u].expected[l] < lines[l].received
      BY DEF OnceInv, BookedIsPast
    <2>3. l \in DOMAIN forms[u].expected => forms[u].expected[l] \in Nat
      BY <1>8
    <2>4. CASE u # t
      BY <1>3, <1>6, <2>1, <2>2, <2>3, <2>4
    <2>5. CASE u = t /\ ~(l \in LiveLines(o) /\ QtyOf(q, l) > 0)
      BY <1>3, <1>6, <1>7, <2>1, <2>2, <2>3, <2>5
    <2>6. CASE u = t /\ l \in LiveLines(o) /\ QtyOf(q, l) > 0
      <3>1. l \in DOMAIN forms[t].expected /\ forms[t].expected[l] = lines[l].received
        BY <1>5, <2>6
      <3>2. forms[t].booked[l] \in 0 .. 2 /\ ~(forms[t].booked[l] > 0)
        BY <1>3, <1>8, <2>2, <2>6, <3>1
      <3>3. new.booked[l] \in {0, 1}
        BY <1>7, <3>2
      <3>4. lines'[l].received = lines[l].received + QtyOf(q, l)
        BY <1>4, <2>6
      <3> QED BY <1>3, <1>6, <1>7, <2>6, <3>1, <3>3, <3>4
    <2> QED BY <2>4, <2>5, <2>6
  <1> QED BY <1>9, <1>10

LEMMA OnceStep ==
    ASSUME BookInv, BookInv', OnceInv, Editors = {}, [Next]_pvars
    PROVE  OnceInv'
  <1>1. NobodyEdits'
    BY NobodyEditsStep DEF OnceInv
  <1>2. CASE UNCHANGED pvars
    BY <1>2 DEF OnceInv, NobodyEdits, Fits, BookedIsPast, pvars
  <1>3. CASE \E t \in Tabs : Receipt(t)
    BY <1>1, <1>3, ReceiptOnce DEF OnceInv
  <1>4. CASE Next /\ \A t \in Tabs : ~Receipt(t)
    <2>1. QuietLines /\ QuietForms
      BY <1>4, LineStep, FormStep DEF OnceInv
    <2>2. \A l \in Lines : lines[l].received \in Nat /\ lines[l].ordered \in Nat
      BY DEF BookInv, ProcurementTypeOK, Line
    <2>3. Fits'
      <3> SUFFICES ASSUME NEW l \in Lines PROVE lines'[l].received <= lines'[l].ordered
        BY DEF Fits
      <3>1. lines'[l].ordered \in Nat
        BY DEF BookInv, ProcurementTypeOK, Line
      <3>2. lines[l].received <= lines[l].ordered
        BY DEF OnceInv, Fits
      <3> QED BY <2>1, <2>2, <3>1, <3>2 DEF QuietLines
    <2>4. BookedIsPast'
      BY <2>1 DEF OnceInv, BookedIsPast, QuietLines, QuietForms
    <2> QED BY <1>1, <2>3, <2>4 DEF OnceInv
  <1> QED BY <1>2, <1>3, <1>4

(* Nothing is booked twice: however often a receive form is submitted, from *)
(* whichever page and tab and in whichever order, it books each line at     *)
(* most once, and no line receives more than was ordered.  Nobody edits a   *)
(* line by hand meanwhile: the editor writes a received quantity back that  *)
(* it read before.                                                          *)
THEOREM NothingIsBookedTwice ==
    ASSUME Editors = {}
    PROVE  Spec => []BooksOnce
  <1>1. Init => OnceInv
    <2>1. \A t \in Tabs, l \in Lines : forms[t].booked[l] = 0 \/ ~Init
      BY DEF Init, NoForm
    <2>2. Init => NobodyEdits /\ Fits
      BY DEF Init, NobodyEdits, Fits, NoEdit
    <2> QED BY <2>1, <2>2 DEF OnceInv, BookedIsPast
  <1>2. BookInv /\ BookInv' /\ OnceInv /\ [Next]_pvars => OnceInv'
    BY OnceStep
  <1>3. BookInv /\ OnceInv => BooksOnce
    <2> SUFFICES ASSUME BookInv, OnceInv, NEW t \in Tabs, NEW l \in Lines
                 PROVE  forms[t].booked[l] <= 1
      BY DEF BooksOnce, OnceInv, Fits
    <2>1. forms[t].booked[l] \in 0 .. 2
      BY DEF BookInv, ProcurementTypeOK, IsForm
    <2> QED BY <2>1 DEF OnceInv, BookedIsPast
  <1> QED BY <1>1, <1>2, <1>3, BooksHold, PTL DEF Spec

-----------------------------------------------------------------------------
(* The ledger *)

(* Together the requests on a line get at most what arrived on it. *)
LEMMA SharesFit ==
    ASSUME links \in [Lines -> [Requests -> Link]], NEW l \in Lines, NEW n \in Nat
    PROVE  SumFunctionOnSet([r \in Requests |-> Attributed(l, r, n)], Requests) <= n
  <1> DEFINE R == Receivable(l)
             f == [c \in Requests |-> LinkOutstanding(links[l][c])]
             g == [r \in Requests |-> Attributed(l, r, n)]
  <1>1. IsFiniteSet(Requests) /\ R \in SUBSET Requests /\ Requests \subseteq Nat
    BY ProcurementAssumption, RequestAssumption DEF Receivable, LiveLinks
  <1>2. \A c \in Requests : f[c] \in Nat
    BY OutstandingIsNat
  <1>3. \A c \in Requests : g[c] \in Nat /\ (c \notin R => g[c] = 0)
    BY AttributedShare
  <1>4. f \in [Requests -> Int] /\ g \in [Requests -> Int]
    BY <1>2, <1>3
  <1>5. ASSUME NEW x \in R
        PROVE  LET before == SumFunctionOnSet(f, {c \in R : c < x}) IN
               g[x] = IF n <= before THEN 0 ELSE IF n - before < f[x] THEN n - before ELSE f[x]
    <2>1. Ahead(l, x) = SumFunctionOnSet(f, {c \in R : c < x})
      BY DEF Ahead
    <2>2. x \in Requests
      BY <1>1
    <2>3. g[x] = IF n <= Ahead(l, x) THEN 0
                 ELSE IF n - Ahead(l, x) < f[x] THEN n - Ahead(l, x) ELSE f[x]
      BY <2>2 DEF Attributed
    <2> QED BY <2>1, <2>3
  <1> HIDE DEF R, f, g
  <1>6. ServesInOrder(f, g, R, n)
    BY <1>5 DEF ServesInOrder
  <1>7. R \subseteq Nat /\ \A x \in R : f[x] \in Nat
    BY <1>1, <1>2
  <1>8. /\ IsFiniteSet(Requests) /\ Requests \in SUBSET Requests /\ R \in SUBSET Requests
        /\ \A x \in Requests : x \notin R => g[x] = 0
    BY <1>1, <1>3
  <1>9. SumFunctionOnSet(g, R) <= n
    BY ONLY <1>1, <1>4, <1>6, <1>7, n \in Nat, ServedInOrder
  <1>10. SumFunctionOnSet(g, Requests) = SumFunctionOnSet(g, R)
    BY ONLY <1>4, <1>8, SumRestrict
  <1> QED BY <1>9, <1>10 DEF g

(* What the links of a line were credited with. *)
Credited(l) == SumFunctionOnSet([r \in Requests |-> links[l][r].received], Requests)

LEMMA CreditedType ==
    ASSUME BookInv, NEW l \in Lines
    PROVE  /\ [r \in Requests |-> links[l][r].received] \in [Requests -> Int]
           /\ Credited(l) \in Int
  <1> DEFINE f == [r \in Requests |-> links[l][r].received]
  <1>1. f \in [Requests -> Int]
    BY DEF BookInv, ProcurementTypeOK, Link
  <1> HIDE DEF f
  <1>2. SumFunctionOnSet(f, Requests) \in Int
    BY <1>1, SumType, ProcurementAssumption
  <1> QED BY <1>1, <1>2 DEF f, Credited

LEMMA LedgerLine ==
    ASSUME LinkLedger, NEW l \in Lines
    PROVE  /\ \A r \in Requests : links[l][r].received <= links[l][r].allocated
           /\ Credited(l) <= lines[l].received
  <1>1. \A r \in Requests : links[l][r].received <= links[l][r].allocated
    BY DEF LinkLedger
  <1>2. SumFunctionOnSet([r \in Requests |-> links[l][r].received], Requests) <= lines[l].received
    BY DEF LinkLedger
  <1>3. Credited(l) <= lines[l].received
    BY <1>2 DEF Credited
  <1> QED BY <1>1, <1>3

LEMMA QuietLedger ==
    ASSUME BookInv, BookInv', LinkLedger, QuietLines, QuietLinks
    PROVE  LinkLedger'
  <1> SUFFICES ASSUME NEW l \in Lines
               PROVE  /\ \A r \in Requests : links'[l][r].received <= links'[l][r].allocated
                      /\ SumFunctionOnSet([r \in Requests |-> links'[l][r].received], Requests)
                            <= lines'[l].received
    BY DEF LinkLedger
  <1>1. ASSUME NEW r \in Requests PROVE links'[l][r].received <= links'[l][r].allocated
    <2>1. links'[l][r].allocated \in Nat
      BY DEF BookInv, ProcurementTypeOK, Link
    <2>2. /\ links'[l][r].received = links[l][r].received
          /\ links'[l][r].allocated = links[l][r].allocated \/ links'[l][r].received = 0
      BY DEF QuietLinks
    <2>3. links[l][r].received <= links[l][r].allocated
      BY DEF LinkLedger
    <2> QED BY <2>1, <2>2, <2>3
  <1>2. [r \in Requests |-> links'[l][r].received] = [r \in Requests |-> links[l][r].received]
    BY DEF QuietLinks
  <1>3. SumFunctionOnSet([r \in Requests |-> links[l][r].received], Requests) <= lines[l].received
    BY DEF LinkLedger
  <1>4. lines'[l].received = lines[l].received
    BY DEF QuietLines
  <1> QED BY <1>1, <1>2, <1>3, <1>4

LEMMA ReceiptLedger ==
    ASSUME BookInv, LinkLedger, NEW o, NEW q, IsQuantities(q), ReceivePurchaseOrder(o, q)
    PROVE  LinkLedger'
  <1> SUFFICES ASSUME NEW l \in Lines
               PROVE  /\ \A r \in Requests : links'[l][r].received <= links'[l][r].allocated
                      /\ SumFunctionOnSet([r \in Requests |-> links'[l][r].received], Requests)
                            <= lines'[l].received
    BY DEF LinkLedger
  <1>1. lines \in [Lines -> Line] /\ links \in [Lines -> [Requests -> Link]]
    BY DEF BookInv, ProcurementTypeOK
  <1>2. /\ \A r \in Requests : links[l][r].received <= links[l][r].allocated
        /\ Credited(l) <= lines[l].received
    BY LedgerLine
  <1>3. CASE l \notin LiveLines(o)
    <2>1. lines'[l] = lines[l] /\ links'[l] = links[l]
      BY <1>1, <1>3, ReceivedRows
    <2> QED BY <1>2, <2>1 DEF Credited
  <1>4. CASE l \in LiveLines(o)
    <2> DEFINE n == QtyOf(q, l)
               f == [r \in Requests |-> links[l][r].received]
               g == [r \in Requests |-> Attributed(l, r, n)]
               h == [r \in Requests |-> links'[l][r].received]
    <2>1. n \in Nat /\ lines[l].received \in Nat /\ lines'[l].received = lines[l].received + n
      BY <1>1, <1>4, QtyIsNat, ReceivedRows DEF Line
    <2>2. ASSUME NEW r \in Requests
          PROVE  /\ Attributed(l, r, n) \in Nat
                 /\ links'[l][r].received = links[l][r].received + Attributed(l, r, n)
                 /\ links'[l][r].received <= links'[l][r].allocated
      <3>1. Attributed(l, r, n) \in Nat /\ Attributed(l, r, n) <= LinkOutstanding(links[l][r])
        BY <1>1, <2>1, AttributedShare
      <3>2. /\ links'[l][r].received = links[l][r].received + Attributed(l, r, n)
            /\ links'[l][r].allocated = links[l][r].allocated
        BY <1>1, <1>4, ReceivedRows
      <3>3. links[l][r].received <= links[l][r].allocated
        BY <1>2
      <3>4. links[l][r].received \in Nat /\ links[l][r].allocated \in Nat
        BY <1>1 DEF Link
      <3> HIDE DEF n
      <3>5. Attributed(l, r, n) <= links[l][r].allocated - links[l][r].received
        BY <3>1, <3>3, <3>4 DEF LinkOutstanding
      <3> QED BY <3>1, <3>2, <3>4, <3>5
    <2> HIDE DEF n
    <2>3. f \in [Requests -> Int]
      BY CreditedType
    <2>4. g \in [Requests -> Int] /\ \A r \in Requests : g[r] \in Nat
      BY <2>2
    <2>5. \A r \in Requests : h[r] = f[r] + g[r]
      BY <2>2
    <2>6. h \in [Requests -> Int]
      <3>1. h = [r \in Requests |-> f[r] + g[r]]
        BY <2>5
      <3> HIDE DEF f, g, h
      <3> QED BY <2>3, <2>4, <3>1
    <2>7. SumFunctionOnSet(g, Requests) <= n
      BY <1>1, <2>1, SharesFit
    <2>8. SumFunctionOnSet(f, Requests) <= lines[l].received
      BY <1>2 DEF Credited
    <2> HIDE DEF f, g, h
    <2>9. SumFunctionOnSet(h, Requests) = SumFunctionOnSet(f, Requests) + SumFunctionOnSet(g, Requests)
      BY <2>3, <2>4, <2>5, <2>6, SumPlus, ProcurementAssumption
    <2>10. SumFunctionOnSet(f, Requests) \in Int /\ SumFunctionOnSet(g, Requests) \in Int
      BY <2>3, <2>4, SumType, ProcurementAssumption
    <2>11. SumFunctionOnSet(h, Requests) <= lines'[l].received
      BY <2>1, <2>7, <2>8, <2>9, <2>10
    <2> QED BY <2>2, <2>11 DEF h
  <1> QED BY <1>3, <1>4

LEMMA LedgerStep ==
    ASSUME BookInv, BookInv', NobodyEdits, LinkLedger, [Next]_pvars
    PROVE  LinkLedger'
  <1>1. CASE UNCHANGED pvars
    BY <1>1 DEF LinkLedger, pvars
  <1>2. CASE \E t \in Tabs : Receipt(t)
    BY <1>2, ReceiptFacts, ReceiptLedger DEF Receipt
  <1>3. CASE Next /\ \A t \in Tabs : ~Receipt(t)
    BY <1>3, LineStep, LinkStep, QuietLedger
  <1> QED BY <1>1, <1>2, <1>3

(* No request is credited with more than its share, and the links of a      *)
(* line, closed ones included, together with no more than arrived on it,    *)
(* for any number of requests, lines and receipts, while nobody edits lines *)
(* by hand.                                                                 *)
THEOREM LedgerBalances ==
    ASSUME Editors = {}
    PROVE  Spec => []LinkLedger
  <1>1. Init => NobodyEdits
    BY DEF Init, NobodyEdits, NoEdit
  <1>2. BookInv /\ NobodyEdits /\ [Next]_pvars => NobodyEdits'
    BY NobodyEditsStep
  <1>3. Init /\ BookInv => LinkLedger
    <2> SUFFICES ASSUME Init, BookInv, NEW l \in Lines
                 PROVE  /\ \A r \in Requests : links[l][r].received <= links[l][r].allocated
                        /\ SumFunctionOnSet([r \in Requests |-> links[l][r].received], Requests)
                             <= lines[l].received
      BY DEF LinkLedger
    <2> DEFINE f == [r \in Requests |-> links[l][r].received]
    <2>1. /\ \A r \in Requests : links[l][r].received = 0 /\ links[l][r].allocated = 0
          /\ lines[l].received = 0
      BY DEF Init
    <2>2. f \in [Requests -> Int] /\ \A r \in Requests : f[r] = 0
      BY <2>1
    <2> HIDE DEF f
    <2>3. SumFunctionOnSet(f, Requests) = 0
      BY <2>2, SumZero, ProcurementAssumption
    <2> QED BY <2>1, <2>3 DEF f
  <1>4. BookInv /\ BookInv' /\ NobodyEdits /\ LinkLedger /\ [Next]_pvars => LinkLedger'
    BY LedgerStep
  <1> QED BY <1>1, <1>2, <1>3, <1>4, BooksHold, PTL DEF Spec

-----------------------------------------------------------------------------
(* Supply, while nobody deletes lines by hand *)

(* A live link is on a live line of an order that stands ... *)
LinksAreServed ==
    \A l \in Lines, r \in Requests : links[l][r].state = "live" =>
        /\ lines[l].state = "live"
        /\ ~orders[lines[l].order].archived /\ orders[lines[l].order].status # "cancelled"

(* ... no request has two of them, and a unit in procurement has one that   *)
(* still waits for something.                                               *)
OneLink ==
    \A l, m \in Lines, r \in Requests :
        links[l][r].state = "live" /\ links[m][r].state = "live" => l = m

UnitsAreSupplied ==
    \A r \in Requests : (Status(r) = "procurement" /\ ~IsGroup(r)) =>
        \E l \in Lines : links[l][r].state = "live" /\ LinkOutstanding(links[l][r]) > 0

SupplyInv == LinksAreServed /\ OneLink /\ UnitsAreSupplied

LEMMA SupplyIsEnough == SupplyInv => UnitHasSupply
  <1> SUFFICES ASSUME SupplyInv, NEW r \in Requests, Status(r) = "procurement", ~IsGroup(r)
               PROVE  \E l \in Lines :
                        /\ {m \in Lines : r \in LiveLinks(m)} = {l}
                        /\ LinkOutstanding(links[l][r]) > 0
                        /\ lines[l].state = "live" /\ Live(lines[l].order)
                        /\ orders[lines[l].order].status # "cancelled"
    BY DEF UnitHasSupply
  <1>1. PICK l \in Lines : links[l][r].state = "live" /\ LinkOutstanding(links[l][r]) > 0
    BY DEF SupplyInv, UnitsAreSupplied
  <1>2. \A m \in Lines : r \in LiveLinks(m) <=> m = l
    BY <1>1 DEF SupplyInv, OneLink, LiveLinks
  <1>3. lines[l].state = "live" /\ Live(lines[l].order) /\ orders[lines[l].order].status # "cancelled"
    BY <1>1 DEF SupplyInv, LinksAreServed, Live
  <1> QED BY <1>1, <1>2, <1>3

(* A step that opens no link keeps the supply if the links that stay are    *)
(* served and the units that stay in procurement keep what they wait for.   *)
LinksStayServed ==
    \A l \in Lines, r \in Requests : links'[l][r].state = "live" =>
        /\ links[l][r].state = "live"
        /\ lines'[l].state = "live"
        /\ ~orders'[lines'[l].order].archived /\ orders'[lines'[l].order].status # "cancelled"

UnitsKeepWaiting ==
    \A r \in Requests : (requests'[r].status = "procurement" /\ ~IsGroup(r)) =>
        /\ Status(r) = "procurement"
        /\ \A l \in Lines : links[l][r].state = "live" /\ LinkOutstanding(links[l][r]) > 0 =>
               links'[l][r].state = "live" /\ LinkOutstanding(links'[l][r]) > 0

LEMMA SupplyKept ==
    ASSUME SupplyInv, LinksStayServed, UnitsKeepWaiting
    PROVE  SupplyInv'
  <1>1. LinksAreServed'
    BY DEF LinksAreServed, LinksStayServed
  <1>2. OneLink'
    BY DEF SupplyInv, OneLink, LinksStayServed
  <1>3. UnitsAreSupplied'
    <2> SUFFICES ASSUME NEW r \in Requests, requests'[r].status = "procurement", ~IsGroup(r)
                 PROVE  \E l \in Lines : links'[l][r].state = "live" /\ LinkOutstanding(links'[l][r]) > 0
      BY DEF UnitsAreSupplied, Status, LinkOutstanding, IsGroup, SubRequests
    <2>1. PICK l \in Lines : links[l][r].state = "live" /\ LinkOutstanding(links[l][r]) > 0
      BY DEF SupplyInv, UnitsAreSupplied, UnitsKeepWaiting
    <2> QED BY <2>1 DEF UnitsKeepWaiting
  <1> QED BY <1>1, <1>2, <1>3 DEF SupplyInv

(* Requests move on their own, or nothing happens to the supply at all. *)
LEMMA LinesSameSupply ==
    ASSUME SupplyInv, UNCHANGED <<orders, lines, links>>,
           \A r \in Requests : requests'[r].status = "procurement" => Status(r) = "procurement"
    PROVE  SupplyInv'
  <1>1. LinksStayServed
    BY DEF SupplyInv, LinksAreServed, LinksStayServed
  <1>2. UnitsKeepWaiting
    BY DEF UnitsKeepWaiting
  <1> QED BY <1>1, <1>2, SupplyKept

LEMMA RequestsSameSupply ==
    ASSUME SupplyInv, UNCHANGED <<requests, links>>,
           \A l \in Lines, r \in Requests : links[l][r].state = "live" =>
               /\ lines'[l].state = "live"
               /\ ~orders'[lines'[l].order].archived /\ orders'[lines'[l].order].status # "cancelled"
    PROVE  SupplyInv'
  <1>1. LinksStayServed
    BY DEF LinksStayServed
  <1>2. UnitsKeepWaiting
    BY DEF UnitsKeepWaiting, Status
  <1> QED BY <1>1, <1>2, SupplyKept

(* A request that is cancelled takes its links along. *)
LEMMA CancelRequestSupply ==
    ASSUME BookInv, SupplyInv, NEW x \in Requests, CancelLinkedRequest(x)
    PROVE  SupplyInv'
  <1> DEFINE S == {x} \cup CancelledUnits(x)
  <1>1. RequestTypeOK /\ links \in [Lines -> [Requests -> Link]]
    BY DEF BookInv, ProcurementTypeOK
  <1>2. requests' = Moved(S, "cancelled") /\ links' = LinksClosed(Lines, S) /\ UNCHANGED <<orders, lines>>
    BY DEF CancelLinkedRequest, CancelRequest
  <1> HIDE DEF S
  <1>3. \A r \in Requests : requests'[r].status = IF r \in S THEN "cancelled" ELSE Status(r)
    BY <1>1, <1>2, MovedRows DEF Statuses
  <1>4. \A l \in Lines, r \in Requests :
           links'[l][r].state = IF r \in S /\ links[l][r].state = "live" THEN "closed" ELSE links[l][r].state
    BY <1>1, <1>2, LinksClosedRows
  <1>5. \A l \in Lines, r \in Requests : r \notin S => links'[l][r] = links[l][r]
    BY <1>2 DEF LinksClosed
  <1>6. LinksStayServed
    BY <1>2, <1>4 DEF SupplyInv, LinksAreServed, LinksStayServed
  <1>7. UnitsKeepWaiting
    BY <1>3, <1>5 DEF UnitsKeepWaiting
  <1> QED BY <1>6, <1>7, SupplyKept

(* A cancelled order gives back exactly the units it supplied. *)
LEMMA CancelOrderSupply ==
    ASSUME BookInv, SupplyInv, NEW o \in Orders, CancelOrder(o)
    PROVE  SupplyInv'
  <1>1. /\ RequestTypeOK /\ links \in [Lines -> [Requests -> Link]]
        /\ orders \in [Orders -> Order] /\ lines \in [Lines -> Line]
    BY DEF BookInv, ProcurementTypeOK
  <1>2. links' = LinksClosed(LiveLines(o), Requests) /\ requests' = Released(Reverted(o), FALSE)
    BY DEF CancelOrder
  <1>3. \A l \in Lines, r \in Requests :
           /\ links'[l][r].state = "live" => links[l][r].state = "live" /\ l \notin LiveLines(o)
           /\ l \notin LiveLines(o) => links'[l][r] = links[l][r]
    <2>1. \A l \in Lines, r \in Requests : links'[l][r].state =
             IF l \in LiveLines(o) /\ links[l][r].state = "live" THEN "closed" ELSE links[l][r].state
      BY <1>1, <1>2, LinksClosedRows
    <2>2. \A l \in Lines, r \in Requests : l \notin LiveLines(o) => links'[l][r] = links[l][r]
      BY <1>2 DEF LinksClosed
    <2> QED BY <2>1, <2>2
  <1>4. \A l \in Lines : l \notin LiveLines(o) => lines'[l] = lines[l]
    BY DEF CancelOrder
  <1>5. \A p : p # o => orders'[p] = orders[p]
    BY <1>1 DEF CancelOrder, Transition
  <1>6. LinksStayServed
    <2> SUFFICES ASSUME NEW l \in Lines, NEW r \in Requests, links'[l][r].state = "live"
                 PROVE  /\ links[l][r].state = "live"
                        /\ lines'[l].state = "live"
                        /\ ~orders'[lines'[l].order].archived /\ orders'[lines'[l].order].status # "cancelled"
      BY DEF LinksStayServed
    <2>1. links[l][r].state = "live" /\ l \notin LiveLines(o)
      BY <1>3
    <2>2. /\ lines[l].state = "live"
          /\ ~orders[lines[l].order].archived /\ orders[lines[l].order].status # "cancelled"
      BY <2>1 DEF SupplyInv, LinksAreServed
    <2>3. lines[l].order # o
      BY <2>1, <2>2 DEF LiveLines
    <2> QED BY <1>4, <1>5, <2>1, <2>2, <2>3
  <1>7. UnitsKeepWaiting
    <2> SUFFICES ASSUME NEW r \in Requests, requests'[r].status = "procurement", ~IsGroup(r)
                 PROVE  /\ Status(r) = "procurement"
                        /\ \A l \in Lines : links[l][r].state = "live" => links'[l][r] = links[l][r]
      BY DEF UnitsKeepWaiting
    <2>1. Reverted(o) \in SUBSET Requests
      BY DEF Reverted
    <2>2. r \notin Reverted(o) /\ Status(r) = "procurement"
      BY <1>1, <1>2, <2>1, ReleasedUnits
    <2>3. \A l \in Lines : links[l][r].state = "live" => l \notin LiveLines(o)
      BY <2>2 DEF Reverted, LiveLinks
    <2> QED BY <1>3, <2>2, <2>3
  <1> QED BY <1>6, <1>7, SupplyKept

(* An order with live links is neither archived nor waiting to be restored. *)
LEMMA ArchiveSupply ==
    ASSUME BookInv, SupplyInv, NEW o \in Orders, ArchiveOrder(o) \/ RestoreOrder(o)
    PROVE  SupplyInv'
  <1>1. orders \in [Orders -> Order] /\ lines \in [Lines -> Line]
    BY DEF BookInv, ProcurementTypeOK
  <1>2. \A p : p # o => orders'[p] = orders[p]
    <2>1. PICK b \in BOOLEAN : orders' = [orders EXCEPT ![o].archived = b]
      BY DEF ArchiveOrder, RestoreOrder
    <2> QED BY <1>1, <2>1
  <1>3. ASSUME NEW l \in Lines, NEW r \in Requests, links[l][r].state = "live"
        PROVE  lines[l].order # o /\ lines'[l] = lines[l]
    <2>1. lines[l].state = "live" /\ ~orders[lines[l].order].archived
      BY <1>3 DEF SupplyInv, LinksAreServed
    <2>2. CASE ArchiveOrder(o)
      <3>1. l \notin LiveLines(o)
        BY <1>3, <2>2 DEF ArchiveOrder, LiveLinks
      <3> QED BY <2>1, <2>2, <3>1 DEF ArchiveOrder, LiveLines
    <2>3. CASE RestoreOrder(o)
      BY <2>1, <2>3 DEF RestoreOrder, Live
    <2> QED BY <2>2, <2>3
  <1>4. UNCHANGED <<requests, links>>
    BY DEF ArchiveOrder, RestoreOrder
  <1>5. \A l \in Lines, r \in Requests : links[l][r].state = "live" =>
               /\ lines'[l].state = "live"
               /\ ~orders'[lines'[l].order].archived /\ orders'[lines'[l].order].status # "cancelled"
    BY <1>2, <1>3 DEF SupplyInv, LinksAreServed
  <1> QED BY <1>4, <1>5, RequestsSameSupply

LEMMA TransitionSupply ==
    ASSUME BookInv, SupplyInv, NEW o \in Orders, NEW from, NEW to \in OrderStatuses,
           to # "cancelled", Transition(o, from, to), UNCHANGED <<requests, lines, links>>
    PROVE  SupplyInv'
  <1> DEFINE new == [orders[o] EXCEPT !.status = to]
  <1>1. orders \in [Orders -> Order]
    BY DEF BookInv, ProcurementTypeOK
  <1>2. new.status = to
    BY <1>1 DEF Order
  <1>3. new.archived = orders[o].archived
    BY <1>1 DEF Order
  <1>4. orders' = [orders EXCEPT ![o] = new]
    BY <1>1 DEF Transition
  <1> HIDE DEF new
  <1>5. orders'[o] = new /\ \A p : p # o => orders'[p] = orders[p]
    BY <1>1, <1>4
  <1>6. \A l \in Lines, r \in Requests : links[l][r].state = "live" =>
               /\ lines'[l].state = "live"
               /\ ~orders'[lines'[l].order].archived /\ orders'[lines'[l].order].status # "cancelled"
    BY <1>2, <1>3, <1>5 DEF SupplyInv, LinksAreServed
  <1> QED BY <1>6, RequestsSameSupply

(* A unit that is not completed by a receipt still waits for something. *)
LEMMA ReceiptSupply ==
    ASSUME BookInv, SupplyInv, NEW o \in Orders, NEW q, IsQuantities(q), ReceivePurchaseOrder(o, q)
    PROVE  SupplyInv'
  <1>1. /\ RequestTypeOK /\ links \in [Lines -> [Requests -> Link]]
        /\ orders \in [Orders -> Order] /\ lines \in [Lines -> Line]
    BY DEF BookInv, ProcurementTypeOK
  <1>2. \A l \in Lines : lines'[l].state = lines[l].state /\ lines'[l].order = lines[l].order
    BY <1>1, ReceivedRows
  <1>3. \A p : orders'[p].archived = orders[p].archived
    <2>1. PICK st \in {"partial", "received"} : orders' = [orders EXCEPT ![o].status = st]
      BY DEF ReceivePurchaseOrder
    <2> DEFINE new == [orders[o] EXCEPT !.status = st]
    <2>2. new.archived = orders[o].archived
      BY <1>1 DEF Order
    <2>3. orders' = [orders EXCEPT ![o] = new]
      BY <1>1, <2>1
    <2> HIDE DEF new
    <2>4. \A p : orders'[p] = orders[p] \/ (p = o /\ orders'[p] = new)
      BY <1>1, <2>3
    <2> QED BY <2>2, <2>4
  <1>4. \A p : orders'[p].status = orders[p].status \/ orders'[p].status # "cancelled"
    <2>1. PICK st \in {"partial", "received"} : orders' = [orders EXCEPT ![o].status = st]
      BY DEF ReceivePurchaseOrder
    <2>2. orders'[o].status = st /\ \A p : p # o => orders'[p] = orders[p]
      BY <1>1, <2>1 DEF Order
    <2> QED BY <2>2
  <1>5. \A l \in Lines, r \in Requests : links'[l][r].state = links[l][r].state
    BY <1>1, ReceivedRows
  <1>6. LinksStayServed
    BY <1>2, <1>3, <1>4, <1>5 DEF SupplyInv, LinksAreServed, LinksStayServed
  <1>7. UnitsKeepWaiting
    <2> SUFFICES ASSUME NEW r \in Requests, requests'[r].status = "procurement", ~IsGroup(r)
                 PROVE  /\ Status(r) = "procurement"
                        /\ \A l \in Lines : links[l][r].state = "live" /\ LinkOutstanding(links[l][r]) > 0 =>
                             LinkOutstanding(links'[l][r]) > 0
      BY <1>5 DEF UnitsKeepWaiting
    <2>1. requests' = Released(Completed(o, q), TRUE) /\ Completed(o, q) \in SUBSET Requests
      BY DEF ReceivePurchaseOrder, Completed
    <2>2. Status(r) = "procurement" /\ r \notin Completed(o, q)
      BY <1>1, <2>1, ReleasedUnits
    <2>3. ASSUME NEW l \in Lines, LinkOutstanding(links[l][r]) > 0
          PROVE  LinkOutstanding(links'[l][r]) > 0
      <3> DEFINE a == Attributed(l, r, QtyOf(q, l))
      <3>1. CASE l \notin LiveLines(o)
        <4>1. links'[l] = links[l]
          BY <1>1, <3>1, ReceivedRows
        <4> QED BY <2>3, <4>1
      <3>2. CASE l \in LiveLines(o)
        <4>1. a \in Nat /\ a <= LinkOutstanding(links[l][r])
          BY <1>1, QtyIsNat, AttributedShare
        <4>2. ~(a > 0 /\ a = LinkOutstanding(links[l][r]))
          BY <2>2, <3>2 DEF Completed
        <4>3. /\ links'[l][r].allocated = links[l][r].allocated
              /\ links'[l][r].received = links[l][r].received + a
          BY <1>1, <3>2, ReceivedRows
        <4>4. links[l][r] \in Link
          BY <1>1
        <4>5. /\ links[l][r].allocated \in Nat /\ links[l][r].received \in Nat
              /\ LinkOutstanding(links[l][r]) = links[l][r].allocated - links[l][r].received
          BY <2>3, <4>4, OutstandingIsNat DEF Link
        <4> HIDE DEF a
        <4>6. links[l][r].received + a < links[l][r].allocated
          BY <2>3, <4>1, <4>2, <4>5
        <4> QED BY <4>1, <4>3, <4>5, <4>6 DEF LinkOutstanding
      <3> QED BY <3>1, <3>2
    <2> QED BY <2>2, <2>3
  <1> QED BY <1>6, <1>7, SupplyKept

(* Linking: the request and its units had no live link, and the new line is *)
(* on a draft order.                                                        *)
LEMMA LinkRequestSupply ==
    ASSUME BookInv, SupplyInv, NEW x \in Requests, NEW o \in Orders, NEW l \in Lines,
           LinkRequest(x, o, l)
    PROVE  SupplyInv'
  <1>1. /\ RequestTypeOK /\ lines \in [Lines -> Line] /\ requests \in [Requests -> Request]
    BY DEF BookInv, ProcurementTypeOK, RequestTypeOK
  <1>2. /\ ~orders[o].archived /\ orders[o].status # "cancelled" /\ orders' = orders
        /\ requests' = Moved({x} \cup Targets(x), "procurement")
        /\ \A m \in Lines, c \in Targets(x) : c \in Requests => links[m][c].state # "live"
    BY DEF LinkRequest, Live, Procure, Linked, LiveLinks
  <1>3. \A r \in Requests : requests'[r].status =
           IF r \in {x} \cup Targets(x) THEN "procurement" ELSE Status(r)
    BY <1>1, <1>2, MovedRows DEF Statuses
  <1>4. PICK row \in Line :
           /\ lines[l].state = "unused" /\ lines' = [lines EXCEPT ![l] = row]
           /\ row.state = "live" /\ row.order = o
    BY LinkedLine
  <1>5. lines'[l] = row /\ \A m \in Lines \ {l} : lines'[m] = lines[m]
    BY <1>1, <1>4
  <1>6. \A c \in Requests : links[l][c].state = "none"
    BY <1>4 DEF BookInv, UnusedIsBlank
  <1>7. \A m \in Lines \ {l} : links'[m] = links[m]
    BY LinkedRows
  <1>8. \A c \in Requests : c \notin Targets(x) => links'[l][c] = links[l][c]
    BY LinkedRows
  <1>9. ASSUME NEW c \in Requests, c \in Targets(x)
        PROVE  links'[l][c].state = "live" /\ LinkOutstanding(links'[l][c]) > 0
    <2>1. links'[l][c] = [state |-> "live", allocated |-> requests[c].qty, received |-> 0]
      BY <1>9, LinkedRows
    <2>2. requests[c].qty \in Nat /\ requests[c].qty > 0
      BY <1>1 DEF Request
    <2> QED BY <2>1, <2>2 DEF LinkOutstanding
  <1>10. LinksAreServed'
    <2> SUFFICES ASSUME NEW m \in Lines, NEW r \in Requests, links'[m][r].state = "live"
                 PROVE  /\ lines'[m].state = "live"
                        /\ ~orders[lines'[m].order].archived /\ orders[lines'[m].order].status # "cancelled"
      BY <1>2 DEF LinksAreServed
    <2>1. CASE m = l
      BY <1>2, <1>4, <1>5, <2>1
    <2>2. CASE m # l
      BY <1>5, <1>7, <2>2 DEF SupplyInv, LinksAreServed
    <2> QED BY <2>1, <2>2
  <1>11. OneLink'
    <2> SUFFICES ASSUME NEW m \in Lines, NEW k \in Lines, NEW r \in Requests,
                        links'[m][r].state = "live", links'[k][r].state = "live"
                 PROVE  m = k
      BY DEF OneLink
    <2>1. CASE r \in Targets(x)
      <3>1. \A y \in Lines : links[y][r].state # "live"
        BY <1>2, <2>1
      <3> QED BY <1>7, <3>1
    <2>2. CASE r \notin Targets(x)
      <3>1. links'[l][r].state # "live"
        BY <1>6, <1>8, <2>2
      <3>2. links[m][r].state = "live" /\ links[k][r].state = "live"
        BY <1>7, <3>1
      <3> QED BY <3>2 DEF SupplyInv, OneLink
    <2> QED BY <2>1, <2>2
  <1>12. UnitsAreSupplied'
    <2> SUFFICES ASSUME NEW r \in Requests, requests'[r].status = "procurement", ~IsGroup(r)
                 PROVE  \E m \in Lines : links'[m][r].state = "live" /\ LinkOutstanding(links'[m][r]) > 0
      BY DEF UnitsAreSupplied, Status, LinkOutstanding, IsGroup, SubRequests
    <2>1. CASE r \in Targets(x)
      BY <1>9, <2>1
    <2>2. CASE r \notin Targets(x)
      <3>1. r # x
        BY <2>2 DEF Targets
      <3>2. Status(r) = "procurement"
        BY <1>3, <2>2, <3>1
      <3>3. PICK m \in Lines : links[m][r].state = "live" /\ LinkOutstanding(links[m][r]) > 0
        BY <3>2 DEF SupplyInv, UnitsAreSupplied
      <3>4. m # l
        BY <1>6, <3>3
      <3> QED BY <1>7, <3>3, <3>4
    <2> QED BY <2>1, <2>2
  <1> QED BY <1>10, <1>11, <1>12 DEF SupplyInv

(* Lines by hand: a new line carries no link, and an editor that saves      *)
(* brings its line back.                                                    *)
LEMMA HandLineSupply ==
    ASSUME BookInv, SupplyInv, NEW l \in Lines, SaveEdit(l) \/ \E o \in Orders : AddLine(o, l)
    PROVE  SupplyInv'
  <1>1. lines \in [Lines -> Line]
    BY DEF BookInv, ProcurementTypeOK
  <1>2. CASE SaveEdit(l)
    <2>1. PICK qty \in 1 .. MaxQty :
             lines' = [lines EXCEPT ![l].ordered = qty, ![l].received = edits[l].received,
                                    ![l].state = "live"]
      BY <1>2 DEF SaveEdit
    <2> DEFINE new == [lines[l] EXCEPT !.ordered = qty, !.received = edits[l].received, !.state = "live"]
    <2>2. new.state = "live" /\ new.order = lines[l].order
      BY <1>1 DEF Line
    <2>3. lines' = [lines EXCEPT ![l] = new]
      BY <1>1, <2>1
    <2> HIDE DEF new
    <2>4. lines'[l] = new /\ \A m \in Lines \ {l} : lines'[m] = lines[m]
      BY <1>1, <2>3
    <2>5. UNCHANGED <<requests, orders, links>>
      BY <1>2 DEF SaveEdit
    <2>6. \A m \in Lines, r \in Requests : links[m][r].state = "live" =>
               /\ lines'[m].state = "live"
               /\ ~orders'[lines'[m].order].archived /\ orders'[lines'[m].order].status # "cancelled"
      BY <2>2, <2>4, <2>5 DEF SupplyInv, LinksAreServed
    <2> QED BY <2>5, <2>6, RequestsSameSupply
  <1>3. ASSUME NEW o \in Orders, AddLine(o, l) PROVE SupplyInv'
    <2>1. lines[l].state = "unused"
      BY <1>3, NextKeyIsUnused, ProcurementAssumption DEF AddLine
    <2>2. \E row : lines' = [lines EXCEPT ![l] = row]
      BY <1>3 DEF AddLine
    <2>3. \A m \in Lines \ {l} : lines'[m] = lines[m]
      BY <1>1, <2>2
    <2>4. UNCHANGED <<requests, orders, links>>
      BY <1>3 DEF AddLine
    <2>5. \A m \in Lines, r \in Requests : links[m][r].state = "live" =>
               /\ lines'[m].state = "live"
               /\ ~orders'[lines'[m].order].archived /\ orders'[lines'[m].order].status # "cancelled"
      BY <2>1, <2>3, <2>4 DEF SupplyInv, LinksAreServed
    <2> QED BY <2>4, <2>5, RequestsSameSupply
  <1> QED BY <1>2, <1>3

LEMMA SupplyStep ==
    ASSUME BookInv, SupplyInv, Deleters = {}, [Next]_pvars
    PROVE  SupplyInv'
  <1>1. CASE UNCHANGED <<requests, orders, lines, links>>
    BY <1>1, LinesSameSupply DEF Status
  <1>2. CASE RequestOperation /\ UNCHANGED <<orders, lines, links, forms, session, edits>>
    BY <1>2, OnlyOrdersMoveProcurement, LinesSameSupply DEF BookInv, ProcurementTypeOK
  <1>3. ASSUME NEW r \in Requests, CancelLinkedRequest(r) PROVE SupplyInv'
    BY <1>3, CancelRequestSupply
  <1>4. ASSUME NEW o \in Orders, OrderOperation(o) PROVE SupplyInv'
    <2>1. CASE ApproveOrder(o)
      BY <2>1, TransitionSupply DEF ApproveOrder, OrderStatuses
    <2>2. CASE OrderOrder(o)
      BY <2>2, TransitionSupply DEF OrderOrder, OrderStatuses
    <2>3. CASE ReopenOrder(o)
      BY <2>3, TransitionSupply DEF ReopenOrder, OrderStatuses
    <2>4. CASE CancelOrder(o)
      BY <2>4, CancelOrderSupply
    <2>5. CASE ArchiveOrder(o) \/ RestoreOrder(o)
      BY <2>5, ArchiveSupply
    <2> QED BY <1>4, <2>1, <2>2, <2>3, <2>4, <2>5 DEF OrderOperation
  <1>5. ASSUME NEW r \in Requests, NEW o \in Orders, NEW l \in Lines, LinkRequest(r, o, l)
        PROVE  SupplyInv'
    BY <1>5, LinkRequestSupply
  <1>6. ASSUME NEW t \in Tabs, NEW o \in Orders, OpenForm(t, o) PROVE SupplyInv'
    BY <1>1, <1>6 DEF OpenForm
  <1>7. ASSUME NEW t \in Tabs, NEW q \in Typed(t), SubmitQuantities(t, q) PROVE SupplyInv'
    BY <1>1, <1>7 DEF SubmitQuantities
  <1>8. ASSUME NEW t \in Tabs, Receipt(t) PROVE SupplyInv'
    <2>1. PICK q : /\ IsQuantities(q) /\ forms[t].page # "none"
                   /\ ReceivePurchaseOrder(forms[t].order, q)
      BY <1>8, ReceiptFacts DEF Receipt
    <2>2. forms[t].order \in Orders
      BY <2>1 DEF BookInv, FormsHaveOrders
    <2> QED BY <2>1, <2>2, ReceiptSupply
  <1>9. ASSUME NEW l \in Lines, SaveEdit(l) \/ \E o \in Orders : AddLine(o, l) PROVE SupplyInv'
    BY <1>9, HandLineSupply
  <1>10. ASSUME NEW l \in Lines PROVE ~DeleteLine(l) /\ (ReadForEdit(l) => SupplyInv')
    <2>1. ~DeleteLine(l)
      BY DEF DeleteLine
    <2>2. ReadForEdit(l) => UNCHANGED <<requests, orders, lines, links>>
      BY DEF ReadForEdit
    <2> QED BY <1>1, <2>1, <2>2
  <1> QED
    BY <1>1, <1>2, <1>3, <1>4, <1>5, <1>6, <1>7, <1>8, <1>9, <1>10 DEF Next, Receipt, pvars

(* Every unit that awaits procurement has exactly one live link, with       *)
(* something outstanding, on a live line of an order that stands, through   *)
(* every archiving, cancellation, partial delivery and edit, while nobody   *)
(* deletes a line by hand (DeleteLine leaves its links behind).             *)
THEOREM UnitsHaveSupply ==
    ASSUME Deleters = {}
    PROVE  Spec => []UnitHasSupply
  <1>1. Init => SupplyInv
    <2>1. Init => \A l \in Lines, r \in Requests : links[l][r].state = "none"
      BY DEF Init
    <2>2. Init => \A r \in Requests : Status(r) # "procurement"
      <3> SUFFICES ASSUME Init, NEW r \in Requests PROVE requests[r].status # "procurement"
        BY DEF Status
      <3>1. requests[r] = [status |-> "pending", asset |-> "none", qty |-> Qty[r]]
        BY DEF Init, RequestInit
      <3> QED BY <3>1
    <2> QED BY <2>1, <2>2 DEF SupplyInv, LinksAreServed, OneLink, UnitsAreSupplied
  <1>2. BookInv /\ SupplyInv /\ [Next]_pvars => SupplyInv'
    BY SupplyStep
  <1> QED BY <1>1, <1>2, SupplyIsEnough, BooksHold, PTL DEF Spec
=============================================================================
