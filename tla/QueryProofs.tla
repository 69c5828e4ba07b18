----------------------------- MODULE QueryProofs -----------------------------
(***************************************************************************)
(* What holds of the queries whatever they are asked of: of sums over sets *)
(* of rows, of rows in an order, and of the cards that are made of rows.   *)
(* Induction is on a set of numbers, of which well-foundedness gives a     *)
(* least one outside.                                                      *)
(***************************************************************************)
EXTENDS Rows, FiniteSetsExt, SequencesExt, FiniteSetTheorems, TLAPS

-----------------------------------------------------------------------------
(* A set that has 0, and with a number the next one, has them all.         *)
LEMMA AllNumbers ==
  ASSUME NEW Q \in SUBSET Nat, 0 \in Q, \A n \in Nat : n \in Q => n + 1 \in Q
  PROVE  Q = Nat
  <1> DEFINE Less == {p \in Nat \X Nat : p[1] < p[2]}
  <1>1. IsWellFoundedOn(Less, Nat)
    BY Zenon, NatLessThanWellFounded DEF OpToRel
  <1> HIDE DEF Less
  <1>2. SUFFICES ASSUME Nat \ Q # {} PROVE FALSE
    OBVIOUS
  <1>3. PICK n \in Nat \ Q : \A m \in Nat \ Q : <<m, n>> \notin Less
    BY <1>1, <1>2, WFMin
  <1>4. n # 0 /\ n - 1 \in Nat
    BY <1>3
  <1>5. <<n - 1, n>> \in Less
    BY <1>4 DEF Less
  <1>6. n - 1 \in Q
    BY <1>3, <1>4, <1>5
  <1>7. QED
    BY <1>3, <1>4, <1>6

(* The sets of at most n elements.                                         *)
Small(S, n) == {s \in SUBSET S : Cardinality(s) <= n}

LEMMA SmallSets ==
  ASSUME NEW S, IsFiniteSet(S)
  PROVE  /\ Small(S, 0) = {{}}
         /\ Small(S, Cardinality(S)) = SUBSET S
         /\ \A n \in Nat : Small(S, n) \subseteq Small(S, n + 1)
         /\ \A n \in Nat : \A s \in Small(S, n + 1) : \A x \in s : s \ {x} \in Small(S, n)
  <1>1. \A s \in SUBSET S : /\ IsFiniteSet(s) /\ Cardinality(s) \in Nat
                            /\ Cardinality(s) <= Cardinality(S)
    BY FS_Subset, FS_CardinalityType
  <1>2. Small(S, 0) = {{}}
    BY <1>1, FS_EmptySet DEF Small
  <1>3. Small(S, Cardinality(S)) = SUBSET S
    BY <1>1 DEF Small
  <1>4. ASSUME NEW n \in Nat PROVE Small(S, n) \subseteq Small(S, n + 1)
    BY <1>1 DEF Small
  <1>5. ASSUME NEW n \in Nat, NEW s \in Small(S, n + 1), NEW x \in s
        PROVE  s \ {x} \in Small(S, n)
    <2>1. s \in SUBSET S /\ Cardinality(s) <= n + 1
      BY DEF Small
    <2>2. Cardinality(s \ {x}) = Cardinality(s) - 1
      BY <1>1, <1>5, <2>1, FS_RemoveElement
    <2>3. QED
      BY <1>1, <2>1, <2>2 DEF Small
  <1>6. QED
    BY <1>2, <1>3, <1>4, <1>5

(* What holds of a set when it holds of its parts by one element less      *)
(* holds of every finite set.                                              *)
LEMMA AllFiniteSets ==
  ASSUME NEW S, IsFiniteSet(S), NEW P \in SUBSET SUBSET S, {} \in P,
         \A s \in SUBSET S : (s # {} /\ \A x \in s : s \ {x} \in P) => s \in P
  PROVE  P = SUBSET S
  <1> DEFINE Q == {n \in Nat : Small(S, n) \subseteq P}
  <1>1. 0 \in Q
    BY SmallSets
  <1>2. ASSUME NEW n \in Nat, n \in Q PROVE n + 1 \in Q
    <2>1. ASSUME NEW s \in Small(S, n + 1), s # {} PROVE s \in P
      <3>1. \A x \in s : s \ {x} \in P
        BY <1>2, SmallSets DEF Small
      <3>2. QED
        BY <2>1, <3>1 DEF Small
    <2>2. QED
      BY <2>1
  <1>3. Cardinality(S) \in Q
    <2> HIDE DEF Q
    <2>1. Q \in SUBSET Nat
      BY DEF Q
    <2>2. Q = Nat
      BY <1>1, <1>2, <2>1, AllNumbers
    <2>3. QED
      BY <2>2, FS_CardinalityType
  <1>4. QED
    BY <1>3, SmallSets

-----------------------------------------------------------------------------
(* Sums.  A sum is a fold, that is a function f on the subsets of S that   *)
(* takes one element out after the other.                                  *)
First(s) == CHOOSE x \in s : TRUE
Adds(f, S, w) ==
    f = [s \in SUBSET S |-> IF s = {} THEN 0 ELSE w[First(s)] + f[s \ {First(s)}]]

(* There is such a function: one for sets of n elements gives one for sets *)
(* of n + 1.                                                               *)
LEMMA SumExists ==
  ASSUME NEW S, IsFiniteSet(S), NEW w
  PROVE  \E f : Adds(f, S, w)
  <1> DEFINE IsFor(f, n) ==
               f = [s \in Small(S, n) |-> IF s = {} THEN 0 ELSE w[First(s)] + f[s \ {First(s)}]]
             Q == {n \in Nat : \E f : IsFor(f, n)}
  <1>1. 0 \in Q
    <2>1. IsFor([s \in {{}} |-> 0], 0)
      BY SmallSets
    <2>2. QED
      BY <2>1
  <1>2. ASSUME NEW n \in Nat, n \in Q PROVE n + 1 \in Q
    <2>1. PICK f : IsFor(f, n)
      BY <1>2
    <2> DEFINE g == [s \in Small(S, n + 1) |->
                       IF s = {} THEN 0 ELSE w[First(s)] + f[s \ {First(s)}]]
    <2>2. ASSUME NEW s \in Small(S, n + 1), s # {} PROVE s \ {First(s)} \in Small(S, n)
      <3>1. First(s) \in s
        BY <2>2 DEF First
      <3>2. QED
        BY <3>1, SmallSets
    <2>3. ASSUME NEW s \in Small(S, n) PROVE g[s] = f[s]
      <3>1. s \in Small(S, n + 1)
        BY SmallSets
      <3>2. f[s] = IF s = {} THEN 0 ELSE w[First(s)] + f[s \ {First(s)}]
        BY <2>1, Zenon
      <3>3. QED
        BY <3>1, <3>2, Zenon
    <2>4. \A s \in Small(S, n + 1) :
             g[s] = IF s = {} THEN 0 ELSE w[First(s)] + g[s \ {First(s)}]
      BY <2>2, <2>3, Zenon
    <2>5. IsFor(g, n + 1)
      BY <2>4, Zenon
    <2>6. \E h : IsFor(h, n + 1)
      BY <2>5, Zenon
    <2> HIDE DEF IsFor
    <2>7. QED
      BY <2>6
  <1>3. Cardinality(S) \in Q
    <2> HIDE DEF Q
    <2>1. Q \in SUBSET Nat
      BY DEF Q
    <2>2. Q = Nat
      BY <1>1, <1>2, <2>1, AllNumbers
    <2>3. QED
      BY <2>2, FS_CardinalityType
  <1>4. PICK f : IsFor(f, Cardinality(S))
    BY <1>3
  <1>5. Adds(f, S, w)
    BY <1>4, SmallSets, Zenon DEF Adds
  <1>6. QED
    BY <1>5

(* Two that add the same are the same.                                     *)
LEMMA SumsAgree ==
  ASSUME NEW T, IsFiniteSet(T), NEW v, NEW w, NEW f, NEW g,
         Adds(f, T, v), Adds(g, T, w), \A x \in T : v[x] = w[x]
  PROVE  \A s \in SUBSET T : f[s] = g[s]
  <1> DEFINE P == {s \in SUBSET T : f[s] = g[s]}
  <1>1. \A s \in SUBSET T :
           /\ f[s] = IF s = {} THEN 0 ELSE v[First(s)] + f[s \ {First(s)}]
           /\ g[s] = IF s = {} THEN 0 ELSE w[First(s)] + g[s \ {First(s)}]
    BY Zenon DEF Adds
  <1>2. {} \in P
    BY <1>1
  <1>3. ASSUME NEW s \in SUBSET T, s # {}, \A x \in s : s \ {x} \in P PROVE s \in P
    <2>1. First(s) \in s
      BY <1>3 DEF First
    <2>2. f[s \ {First(s)}] = g[s \ {First(s)}] /\ v[First(s)] = w[First(s)]
      BY <1>3, <2>1
    <2>3. f[s] = g[s]
      BY <1>1, <1>3, <2>2
    <2>4. QED
      BY <2>3
  <1>4. P = SUBSET T
    <2> HIDE DEF P
    <2>1. P \in SUBSET SUBSET T
      BY DEF P
    <2>2. QED
      BY <1>2, <1>3, <2>1, AllFiniteSets
  <1>5. QED
    BY <1>4

(* So the sum is what any of them gives.                                   *)
LEMMA SumIs ==
  ASSUME NEW S, IsFiniteSet(S), NEW w, NEW f, Adds(f, S, w)
  PROVE  SumFunctionOnSet(w, S) = f[S]
  <1> DEFINE g == CHOOSE iter : iter =
               [s \in SUBSET S |->
                  IF s = {} THEN 0
                  ELSE w[CHOOSE x \in s : TRUE] + iter[s \ {CHOOSE x \in s : TRUE}]]
  <1>1. g = [s \in SUBSET S |->
               IF s = {} THEN 0 ELSE w[CHOOSE x \in s : TRUE] + g[s \ {CHOOSE x \in s : TRUE}]]
    <2>1. f = [s \in SUBSET S |->
                 IF s = {} THEN 0 ELSE w[CHOOSE x \in s : TRUE] + f[s \ {CHOOSE x \in s : TRUE}]]
      BY Zenon DEF Adds, First
    <2>2. QED
      BY <2>1, Zenon
  <1>2. Adds(g, S, w)
    <2> HIDE DEF g
    <2>1. QED
      BY <1>1, Zenon DEF Adds, First
  <1>3. SumFunctionOnSet(w, S) = g[S]
    BY DEF SumFunctionOnSet, FoldFunctionOnSet, MapThenFoldSet
  <1>4. f[S] = g[S]
    <2> HIDE DEF g
    <2>1. QED
      BY <1>2, SumsAgree
  <1>5. QED
    BY <1>3, <1>4

(* The sum over nothing, and over a set of which one element is first.     *)
LEMMA SumFirst ==
  ASSUME NEW S, IsFiniteSet(S), NEW w
  PROVE  SumFunctionOnSet(w, S) =
           IF S = {} THEN 0 ELSE w[First(S)] + SumFunctionOnSet(w, S \ {First(S)})
  <1> DEFINE T == S \ {First(S)}
  <1>1. PICK f : Adds(f, S, w)
    BY SumExists
  <1>2. IsFiniteSet(T)
    BY FS_RemoveElement
  <1> DEFINE g == [s \in SUBSET T |-> f[s]]
  <1>3. Adds(g, T, w)
    <2>1. \A s \in SUBSET T : s \in SUBSET S /\ s \ {First(s)} \in SUBSET T
      OBVIOUS
    <2> HIDE DEF T
    <2>2. \A s \in SUBSET T : f[s] = IF s = {} THEN 0 ELSE w[First(s)] + f[s \ {First(s)}]
      BY <1>1, <2>1, Zenon DEF Adds
    <2>3. \A s \in SUBSET T : g[s] = IF s = {} THEN 0 ELSE w[First(s)] + g[s \ {First(s)}]
      BY <2>1, <2>2, Zenon
    <2>4. QED
      BY <2>3, Zenon DEF Adds
  <1>4. f[T] = g[T]
    BY Zenon
  <1>5. SumFunctionOnSet(w, S) = f[S] /\ SumFunctionOnSet(w, T) = g[T]
    BY <1>1, <1>2, <1>3, SumIs
  <1>6. f[S] = IF S = {} THEN 0 ELSE w[First(S)] + f[T]
    BY <1>1, Zenon DEF Adds
  <1>7. QED
    BY <1>4, <1>5, <1>6, Zenon

(* It depends on what is summed only.                                      *)
LEMMA SumSame ==
  ASSUME NEW S, IsFiniteSet(S), NEW v, NEW w, \A x \in S : v[x] = w[x]
  PROVE  SumFunctionOnSet(v, S) = SumFunctionOnSet(w, S)
  <1>1. PICK f : Adds(f, S, v)
    BY SumExists
  <1>2. PICK g : Adds(g, S, w)
    BY SumExists
  <1>3. f[S] = g[S]
    <2>1. S \in SUBSET S
      OBVIOUS
    <2>2. \A s \in SUBSET S : f[s] = g[s]
      BY <1>1, <1>2, <2>1, SumsAgree
    <2>3. QED
      BY <2>1, <2>2
  <1>4. QED
    BY <1>1, <1>2, <1>3, SumIs

(* It is a number.                                                         *)
LEMMA SumTyped ==
  ASSUME NEW S, IsFiniteSet(S), NEW w, \A x \in S : w[x] \in Nat
  PROVE  SumFunctionOnSet(w, S) \in Nat
  <1> DEFINE P == {s \in SUBSET S : SumFunctionOnSet(w, s) \in Nat}
  <1>1. \A s \in SUBSET S : IsFiniteSet(s)
    BY FS_Subset
  <1>2. {} \in P
    BY <1>1, SumFirst
  <1>3. ASSUME NEW s \in SUBSET S, s # {}, \A x \in s : s \ {x} \in P PROVE s \in P
    <2>1. First(s) \in s
      BY <1>3 DEF First
    <2>2. SumFunctionOnSet(w, s \ {First(s)}) \in Nat /\ w[First(s)] \in Nat
      BY <1>3, <2>1
    <2>3. SumFunctionOnSet(w, s) = w[First(s)] + SumFunctionOnSet(w, s \ {First(s)})
      BY <1>1, <1>3, SumFirst
    <2>4. SumFunctionOnSet(w, s) \in Nat
      BY <2>2, <2>3
    <2>5. QED
      BY <2>4
  <1>4. P = SUBSET S
    <2> HIDE DEF P
    <2>1. P \in SUBSET SUBSET S
      BY DEF P
    <2>2. QED
      BY <1>2, <1>3, <2>1, AllFiniteSets
  <1>5. QED
    BY <1>4

(* Whichever element is taken out, it is the rest and that one.            *)
LEMMA SumRest ==
  ASSUME NEW S, IsFiniteSet(S), NEW w, \A x \in S : w[x] \in Nat, NEW x \in S
  PROVE  SumFunctionOnSet(w, S) = w[x] + SumFunctionOnSet(w, S \ {x})
  <1> DEFINE Out(s, y) == SumFunctionOnSet(w, s) = w[y] + SumFunctionOnSet(w, s \ {y})
             P == {s \in SUBSET S : \A y \in s : Out(s, y)}
  <1>1. \A s \in SUBSET S : IsFiniteSet(s) /\ SumFunctionOnSet(w, s) \in Nat
    BY FS_Subset, SumTyped
  <1>2. {} \in P
    OBVIOUS
  <1>3. ASSUME NEW s \in SUBSET S, s # {}, \A y \in s : s \ {y} \in P PROVE s \in P
    <2> DEFINE z == First(s)
    <2>1. z \in s
      BY <1>3 DEF First
    <2>2. Out(s, z)
      BY <1>1, <1>3, SumFirst
    <2>3. ASSUME NEW y \in s, y # z PROVE Out(s, y)
      <3> HIDE DEF z
      <3>1. Out(s \ {z}, y) /\ Out(s \ {y}, z)
        BY <1>3, <2>1, <2>3
      <3>2. (s \ {z}) \ {y} = (s \ {y}) \ {z}
        OBVIOUS
      <3>3. /\ w[y] \in Nat /\ w[z] \in Nat
            /\ SumFunctionOnSet(w, (s \ {y}) \ {z}) \in Nat
        BY <1>1, <2>1
      <3>4. QED
        BY <2>2, <3>1, <3>2, <3>3
    <2>4. QED
      BY <2>2, <2>3
  <1>4. P = SUBSET S
    <2> HIDE DEF P
    <2>1. P \in SUBSET SUBSET S
      BY DEF P
    <2>2. QED
      BY <1>2, <1>3, <2>1, AllFiniteSets
  <1>5. QED
    BY <1>4

(* Over two sets that share nothing it is the sum of the two.              *)
LEMMA SumUnion ==
  ASSUME NEW A, NEW B, IsFiniteSet(A), IsFiniteSet(B), A \cap B = {},
         NEW w, \A x \in A \cup B : w[x] \in Nat
  PROVE  SumFunctionOnSet(w, A \cup B) = SumFunctionOnSet(w, A) + SumFunctionOnSet(w, B)
  <1> DEFINE Both(s) == SumFunctionOnSet(w, A \cup s)
                          = SumFunctionOnSet(w, A) + SumFunctionOnSet(w, s)
             P == {s \in SUBSET B : Both(s)}
  <1>1. ASSUME NEW s \in SUBSET B
        PROVE  /\ IsFiniteSet(s) /\ SumFunctionOnSet(w, s) \in Nat
               /\ IsFiniteSet(A \cup s) /\ SumFunctionOnSet(w, A \cup s) \in Nat
    <2>1. IsFiniteSet(s)
      BY FS_Subset
    <2>2. IsFiniteSet(A \cup s)
      BY <2>1, FS_Union
    <2>3. QED
      BY <2>1, <2>2, SumTyped
  <1>2. SumFunctionOnSet(w, A) \in Nat
    BY SumTyped
  <1>3. {} \in P
    <2>1. SumFunctionOnSet(w, {}) = 0
      BY <1>1, SumFirst
    <2>2. A \cup {} = A
      OBVIOUS
    <2>3. Both({})
      BY <1>2, <2>1, <2>2
    <2>4. QED
      BY <2>3
  <1>4. ASSUME NEW s \in SUBSET B, s # {}, \A x \in s : s \ {x} \in P PROVE s \in P
    <2>1. PICK x \in s : TRUE
      BY <1>4
    <2>2. Both(s \ {x}) /\ w[x] \in Nat
      BY <1>4, <2>1
    <2>3. (A \cup s) \ {x} = A \cup (s \ {x}) /\ x \in A \cup s
      BY <2>1
    <2>4. SumFunctionOnSet(w, s) = w[x] + SumFunctionOnSet(w, s \ {x})
      BY <1>1, <2>1, SumRest
    <2>5. SumFunctionOnSet(w, A \cup s) = w[x] + SumFunctionOnSet(w, A \cup (s \ {x}))
      <3> DEFINE C == A \cup s
      <3>1. IsFiniteSet(C) /\ x \in C /\ C \ {x} = A \cup (s \ {x})
        BY <1>1, <2>3
      <3>2. \A y \in C : w[y] \in Nat
        OBVIOUS
      <3>3. SumFunctionOnSet(w, C) = w[x] + SumFunctionOnSet(w, C \ {x})
        <4> HIDE DEF C
        <4>1. QED
          BY <3>1, <3>2, SumRest
      <3>4. QED
        BY <3>1, <3>3
    <2>6. SumFunctionOnSet(w, s \ {x}) \in Nat
      BY <1>1
    <2>7. Both(s)
      BY <1>2, <2>2, <2>4, <2>5, <2>6
    <2>8. QED
      BY <2>7
  <1>5. P = SUBSET B
    <2> HIDE DEF P
    <2>1. P \in SUBSET SUBSET B
      BY DEF P
    <2>2. QED
      BY <1>3, <1>4, <2>1, AllFiniteSets
  <1>6. Both(B)
    BY <1>5
  <1>7. QED
    BY <1>6

(* So it grows with the set.                                               *)
LEMMA SumGrows ==
  ASSUME NEW S, IsFiniteSet(S), NEW T \in SUBSET S, NEW w, \A x \in S : w[x] \in Nat
  PROVE  SumFunctionOnSet(w, T) <= SumFunctionOnSet(w, S)
  <1>1. IsFiniteSet(T) /\ IsFiniteSet(S \ T) /\ T \cap (S \ T) = {} /\ T \cup (S \ T) = S
    BY FS_Subset
  <1>2. SumFunctionOnSet(w, S) = SumFunctionOnSet(w, T) + SumFunctionOnSet(w, S \ T)
    BY <1>1, SumUnion
  <1>3. SumFunctionOnSet(w, T) \in Nat /\ SumFunctionOnSet(w, S \ T) \in Nat
    BY <1>1, SumTyped
  <1>4. QED
    BY <1>2, <1>3

(* Of parts that share nothing, the sum of their sums is the sum over all. *)
Apart(I, part) == \A i, j \in I : i # j => part[i] \cap part[j] = {}
SumsOf(v, I, part, w) ==
    \A i \in I : /\ IsFiniteSet(part[i]) /\ \A x \in part[i] : w[x] \in Nat
                 /\ v[i] = SumFunctionOnSet(w, part[i])

LEMMA SumOfParts ==
  ASSUME NEW I, IsFiniteSet(I), NEW part, NEW w, NEW v,
         Apart(I, part), SumsOf(v, I, part, w)
  PROVE  /\ IsFiniteSet(UNION {part[i] : i \in I})
         /\ SumFunctionOnSet(v, I) = SumFunctionOnSet(w, UNION {part[i] : i \in I})
  <1> DEFINE All(s) == UNION {part[i] : i \in s}
             Right(s) == IsFiniteSet(All(s))
                           /\ SumFunctionOnSet(v, s) = SumFunctionOnSet(w, All(s))
             P == {s \in SUBSET I : Right(s)}
  <1> USE DEF Apart, SumsOf
  <1>1. {} \in P
    <2>1. All({}) = {}
      OBVIOUS
    <2>2. IsFiniteSet({})
      BY FS_EmptySet
    <2>3. SumFunctionOnSet(v, {}) = 0 /\ SumFunctionOnSet(w, {}) = 0
      BY <2>2, SumFirst
    <2>4. QED
      BY <2>1, <2>2, <2>3
  <1>2. ASSUME NEW s \in SUBSET I, s # {}, \A i \in s : s \ {i} \in P PROVE s \in P
    <2>1. PICK i \in s : TRUE
      BY <1>2
    <2>2. Right(s \ {i})
      BY <1>2, <2>1
    <2>3. All(s) = All(s \ {i}) \cup part[i]
      BY <2>1
    <2>4. All(s \ {i}) \cap part[i] = {}
      BY <2>1
    <2>5. \A x \in All(s) : w[x] \in Nat
      OBVIOUS
    <2>6. \A j \in s : v[j] \in Nat
      BY SumTyped
    <2>7. IsFiniteSet(s)
      BY FS_Subset
    <2>8. SumFunctionOnSet(v, s) = v[i] + SumFunctionOnSet(v, s \ {i})
      BY <2>1, <2>6, <2>7, SumRest
    <2> HIDE DEF All
    <2>9. IsFiniteSet(All(s))
      <3>1. IsFiniteSet(part[i]) /\ IsFiniteSet(All(s \ {i}))
        BY <2>1, <2>2
      <3>2. IsFiniteSet(All(s \ {i}) \cup part[i])
        BY <3>1, FS_Union
      <3>3. QED
        BY <2>3, <3>2
    <2>10. SumFunctionOnSet(w, All(s)) = SumFunctionOnSet(w, All(s \ {i})) + v[i]
      <3>1. IsFiniteSet(part[i]) /\ v[i] = SumFunctionOnSet(w, part[i])
        BY <2>1
      <3>2. \A x \in All(s \ {i}) \cup part[i] : w[x] \in Nat
        BY <2>3, <2>5
      <3>3. IsFiniteSet(All(s \ {i}))
        BY <2>2
      <3>4. SumFunctionOnSet(w, All(s \ {i}) \cup part[i])
              = SumFunctionOnSet(w, All(s \ {i})) + SumFunctionOnSet(w, part[i])
        <4> DEFINE a == All(s \ {i})
                   b == part[i]
        <4>1. IsFiniteSet(a) /\ IsFiniteSet(b) /\ a \cap b = {}
          BY <2>4, <3>1, <3>3
        <4>2. \A x \in a \cup b : w[x] \in Nat
          BY <3>2
        <4> HIDE DEF a, b
        <4>3. SumFunctionOnSet(w, a \cup b) = SumFunctionOnSet(w, a) + SumFunctionOnSet(w, b)
          BY <4>1, <4>2, SumUnion
        <4>4. QED
          BY <4>3 DEF a, b
      <3>5. QED
        BY <2>3, <3>1, <3>4
    <2>11. v[i] \in Nat /\ SumFunctionOnSet(v, s \ {i}) \in Nat
      <3>1. IsFiniteSet(s \ {i})
        BY <2>7, FS_RemoveElement
      <3>2. QED
        BY <2>1, <2>6, <3>1, SumTyped
    <2>12. Right(s)
      BY <2>2, <2>8, <2>9, <2>10, <2>11
    <2>13. QED
      BY <2>12
  <1>3. P = SUBSET I
    <2> HIDE DEF P
    <2>1. P \in SUBSET SUBSET I
      BY DEF P
    <2>2. QED
      BY <1>1, <1>2, <2>1, AllFiniteSets
  <1>4. Right(I)
    BY <1>3
  <1>5. QED
    BY <1>4

(* Of positive numbers up to M, it is at least as many as they are, and at *)
(* most M times as much.                                                   *)
LEMMA SumBounded ==
  ASSUME NEW S, IsFiniteSet(S), NEW M \in Nat, NEW w, \A x \in S : w[x] \in 1..M
  PROVE  /\ SumFunctionOnSet(w, S) \in Nat
         /\ Cardinality(S) <= SumFunctionOnSet(w, S)
         /\ SumFunctionOnSet(w, S) <= Cardinality(S) * M
  <1> DEFINE Within(s) == /\ Cardinality(s) <= SumFunctionOnSet(w, s)
                          /\ SumFunctionOnSet(w, s) <= Cardinality(s) * M
             P == {s \in SUBSET S : Within(s)}
  <1>1. \A s \in SUBSET S : /\ IsFiniteSet(s) /\ Cardinality(s) \in Nat
                            /\ SumFunctionOnSet(w, s) \in Nat
    <2>1. \A x \in S : w[x] \in Nat
      OBVIOUS
    <2>2. QED
      BY <2>1, FS_Subset, FS_CardinalityType, SumTyped
  <1>2. {} \in P
    <2>1. Cardinality({}) = 0 /\ SumFunctionOnSet(w, {}) = 0
      BY SumFirst, FS_EmptySet
    <2>2. QED
      BY <2>1
  <1>3. ASSUME NEW s \in SUBSET S, s # {}, \A x \in s : s \ {x} \in P PROVE s \in P
    <2>1. PICK x \in s : TRUE
      BY <1>3
    <2>2. Within(s \ {x}) /\ w[x] \in 1..M
      BY <1>3, <2>1
    <2>3. Cardinality(s \ {x}) = Cardinality(s) - 1 /\ Cardinality(s \ {x}) \in Nat
      BY <1>1, <2>1, FS_RemoveElement
    <2>4. SumFunctionOnSet(w, s) = w[x] + SumFunctionOnSet(w, s \ {x})
      <3>1. \A y \in s : w[y] \in Nat
        OBVIOUS
      <3>2. QED
        BY <1>1, <2>1, <3>1, SumRest
    <2> DEFINE c == Cardinality(s \ {x})
               t == SumFunctionOnSet(w, s \ {x})
    <2>5. (c + 1) * M = c * M + M /\ c * M \in Nat
      BY <2>3
    <2>6. Cardinality(s) = c + 1 /\ t \in Nat
      BY <1>1, <2>3
    <2>7. Cardinality(s) <= SumFunctionOnSet(w, s)
      BY <2>2, <2>3, <2>4, <2>6
    <2>8. SumFunctionOnSet(w, s) <= Cardinality(s) * M
      <3>1. w[x] + t <= c * M + M
        <4> HIDE DEF c, t
        <4>1. t <= c * M
          BY <2>2 DEF c, t
        <4>2. QED
          BY <2>2, <2>5, <2>6, <4>1
      <3>2. QED
        BY <2>4, <2>5, <2>6, <3>1
    <2>9. QED
      BY <2>7, <2>8
  <1>4. P = SUBSET S
    <2> HIDE DEF P
    <2>1. P \in SUBSET SUBSET S
      BY DEF P
    <2>2. QED
      BY <1>2, <1>3, <2>1, AllFiniteSets
  <1>5. Within(S)
    BY <1>4
  <1>6. QED
    BY <1>1, <1>5

-----------------------------------------------------------------------------
(* Rows in an order.                                                       *)
IsOrder(S, R) ==
    /\ \A s \in S : <<s, s>> \notin R
    /\ \A s, t, u \in S : (<<s, t>> \in R /\ <<t, u>> \in R) => <<s, u>> \in R
    /\ \A s, t \in S : s # t => (<<s, t>> \in R \/ <<t, s>> \in R)

Ahead(S, R, t) == {s \in S : <<s, t>> \in R}

(* Before a row there are fewer than all, and more before a later one.     *)
LEMMA AheadCounted ==
  ASSUME NEW S, IsFiniteSet(S), NEW R, IsOrder(S, R), NEW t \in S
  PROVE  /\ Cardinality(Ahead(S, R, t)) \in 0..(Cardinality(S) - 1)
         /\ \A u \in S : <<t, u>> \in R =>
              Cardinality(Ahead(S, R, t)) < Cardinality(Ahead(S, R, u))
  <1>1. IsFiniteSet(S \ {t}) /\ Cardinality(S \ {t}) = Cardinality(S) - 1
    BY FS_RemoveElement
  <1>2. Ahead(S, R, t) \in SUBSET (S \ {t})
    BY DEF Ahead, IsOrder
  <1>3. IsFiniteSet(Ahead(S, R, t)) /\ Cardinality(Ahead(S, R, t)) <= Cardinality(S) - 1
    BY <1>1, <1>2, FS_Subset
  <1>4. Cardinality(Ahead(S, R, t)) \in Nat /\ Cardinality(S) \in Nat
    BY <1>3, FS_CardinalityType
  <1>5. ASSUME NEW u \in S, <<t, u>> \in R
        PROVE  Cardinality(Ahead(S, R, t)) < Cardinality(Ahead(S, R, u))
    <2>1. Ahead(S, R, t) \cup {t} \in SUBSET Ahead(S, R, u) /\ t \notin Ahead(S, R, t)
      BY <1>5 DEF Ahead, IsOrder
    <2>2. Cardinality(Ahead(S, R, t) \cup {t}) = Cardinality(Ahead(S, R, t)) + 1
      BY <1>3, <2>1, FS_AddElement
    <2>3. Ahead(S, R, u) \in SUBSET S
      BY DEF Ahead
    <2>4. IsFiniteSet(Ahead(S, R, u)) /\ Cardinality(Ahead(S, R, u)) \in Nat
      BY <2>3, FS_Subset, FS_CardinalityType
    <2>5. Cardinality(Ahead(S, R, t) \cup {t}) <= Cardinality(Ahead(S, R, u))
      BY <2>1, <2>4, FS_Subset
    <2>6. QED
      BY <1>4, <2>2, <2>4, <2>5
  <1>6. QED
    BY <1>3, <1>4, <1>5

(* Each place is taken by one row.                                         *)
LEMMA RowAtPlace ==
  ASSUME NEW S, IsFiniteSet(S), NEW R, IsOrder(S, R), NEW i \in 1..Cardinality(S)
  PROVE  \E t \in S : Cardinality(Ahead(S, R, t)) = i - 1
  <1> DEFINE n == Cardinality(S)
             place == [t \in S |-> Cardinality(Ahead(S, R, t))]
  <1>1. n \in Nat
    BY FS_CardinalityType
  <1>2. IsFiniteSet(0..(n - 1)) /\ Cardinality(0..(n - 1)) = n
    <2>1. 0 \in Int /\ n - 1 \in Int
      BY <1>1
    <2>2. /\ IsFiniteSet(0..(n - 1))
          /\ Cardinality(0..(n - 1)) = IF 0 > n - 1 THEN 0 ELSE (n - 1) - 0 + 1
      BY <2>1, FS_Interval
    <2>3. QED
      BY <1>1, <2>2
  <1>3. place \in [S -> 0..(n - 1)]
    BY AheadCounted
  <1>4. ASSUME NEW s \in S, NEW t \in S, place[s] = place[t] PROVE s = t
    <2>1. SUFFICES ASSUME s # t PROVE FALSE
      OBVIOUS
    <2>2. <<s, t>> \in R \/ <<t, s>> \in R
      BY <2>1 DEF IsOrder
    <2>3. place[s] < place[t] \/ place[t] < place[s]
      BY <2>2, AheadCounted
    <2>4. place[s] \in Int /\ place[t] \in Int
      BY <1>3
    <2>5. QED
      BY <1>4, <2>3, <2>4
  <1>5. place \in Injection(S, 0..(n - 1))
    BY <1>3, <1>4 DEF Injection, IsInjective
  <1>6. place \in Surjection(S, 0..(n - 1))
    <2> HIDE DEF place
    <2>1. QED
      BY <1>2, <1>5, FS_Injection
  <1>7. i - 1 \in 0..(n - 1)
    BY <1>1
  <1>8. PICK t \in S : place[t] = i - 1
    <2> HIDE DEF place
    <2>1. QED
      BY <1>6, <1>7 DEF Surjection
  <1>9. QED
    BY <1>8

(* What ORDER BY gives: all rows, each of them once, an earlier one at an  *)
(* earlier place.                                                          *)
LEMMA Ordered ==
  ASSUME NEW S, IsFiniteSet(S), NEW R, IsOrder(S, R)
  PROVE  /\ OrderBy(S, R) \in Seq(S) /\ Len(OrderBy(S, R)) = Cardinality(S)
         /\ IsInjective(OrderBy(S, R)) /\ ToSet(OrderBy(S, R)) = S
         /\ \A i, j \in 1..Cardinality(S) :
              i < j <=> <<OrderBy(S, R)[i], OrderBy(S, R)[j]>> \in R
  <1> DEFINE n == Cardinality(S)
             rows == OrderBy(S, R)
  <1>1. n \in Nat
    BY FS_CardinalityType
  <1>2. ASSUME NEW i \in 1..n
        PROVE  rows[i] \in S /\ Cardinality(Ahead(S, R, rows[i])) = i - 1
    <2>1. \E t \in S : Cardinality({r \in S : <<r, t>> \in R}) = i - 1
      BY RowAtPlace DEF Ahead
    <2>2. rows[i] = CHOOSE t \in S : Cardinality({r \in S : <<r, t>> \in R}) = i - 1
      BY DEF OrderBy
    <2>3. QED
      BY <2>1, <2>2 DEF Ahead
  <1>3. rows = [i \in 1..n |-> rows[i]]
    <2> DEFINE at(i) == CHOOSE t \in S : Cardinality({r \in S : <<r, t>> \in R}) = i - 1
    <2>1. rows = [i \in 1..n |-> at(i)]
      BY DEF OrderBy
    <2> HIDE DEF rows, at, n
    <2>2. QED
      BY <2>1
  <1> HIDE DEF rows
  <1>4. rows \in [1..n -> S]
    BY <1>2, <1>3
  <1>5. rows \in Seq(S) /\ Len(rows) = n /\ DOMAIN rows = 1..n
    BY <1>1, <1>4
  <1>6. ASSUME NEW i \in 1..n, NEW j \in 1..n
        PROVE  i < j <=> <<rows[i], rows[j]>> \in R
    <2>1. i \in Int /\ j \in Int
      OBVIOUS
    <2>2. <<rows[i], rows[j]>> \in R => i < j
      BY <1>2, <2>1, AheadCounted
    <2>3. <<rows[j], rows[i]>> \in R => j < i
      BY <1>2, <2>1, AheadCounted
    <2>4. rows[i] = rows[j] => i = j
      BY <1>2, <2>1
    <2>5. rows[i] = rows[j] \/ <<rows[i], rows[j]>> \in R \/ <<rows[j], rows[i]>> \in R
      BY <1>2 DEF IsOrder
    <2>6. QED
      BY <2>1, <2>2, <2>3, <2>4, <2>5
  <1>7. IsInjective(rows)
    BY <1>2, <1>5 DEF IsInjective
  <1>8. ToSet(rows) = S
    <2>1. ToSet(rows) \in SUBSET S
      BY <1>4, <1>5 DEF ToSet
    <2>2. ASSUME NEW t \in S PROVE t \in ToSet(rows)
      <3>1. Cardinality(Ahead(S, R, t)) \in 0..(n - 1)
        BY AheadCounted
      <3>2. PICK i \in 1..n : Cardinality(Ahead(S, R, t)) = i - 1
        <4>1. Cardinality(Ahead(S, R, t)) + 1 \in 1..n
          BY <1>1, <3>1
        <4>2. QED
          BY <3>1, <4>1
      <3>3. Cardinality(Ahead(S, R, rows[i])) = Cardinality(Ahead(S, R, t)) /\ rows[i] \in S
        BY <1>2, <3>2
      <3>4. rows[i] = t \/ <<rows[i], t>> \in R \/ <<t, rows[i]>> \in R
        BY <3>3 DEF IsOrder
      <3>5. rows[i] = t
        BY <3>1, <3>3, <3>4, AheadCounted
      <3>6. QED
        BY <1>5, <3>5 DEF ToSet
    <2>3. QED
      BY <2>1, <2>2
  <1>9. QED
    BY <1>5, <1>6, <1>7, <1>8 DEF rows

(* LIMIT keeps the first of them.                                          *)
LEMMA Limited ==
  ASSUME NEW S, NEW seq \in Seq(S), NEW n \in Nat
  PROVE  /\ FirstOf(seq, n) \in Seq(S)
         /\ Len(FirstOf(seq, n)) = IF n < Len(seq) THEN n ELSE Len(seq)
         /\ \A i \in 1..Len(FirstOf(seq, n)) : i \in 1..Len(seq) /\ FirstOf(seq, n)[i] = seq[i]
         /\ Len(seq) <= n => FirstOf(seq, n) = seq
  <1> DEFINE m == IF n < Len(seq) THEN n ELSE Len(seq)
  <1>1. m \in 0..Len(seq) /\ Len(seq) \in Nat
    OBVIOUS
  <1>2. FirstOf(seq, n) = SubSeq(seq, 1, m)
    BY DEF FirstOf
  <1> HIDE DEF m
  <1>3. SubSeq(seq, 1, m) = [i \in 1..m |-> seq[i]]
    BY <1>1
  <1>4. FirstOf(seq, n) \in [1..m -> S]
    <2>1. \A i \in 1..m : seq[i] \in S
      BY <1>1
    <2>2. QED
      BY <1>2, <1>3, <2>1
  <1>5. FirstOf(seq, n) \in Seq(S) /\ Len(FirstOf(seq, n)) = m
    BY <1>1, <1>4
  <1>6. Len(seq) <= n => FirstOf(seq, n) = seq
    <2>1. Len(seq) <= n => m = Len(seq)
      BY DEF m
    <2>2. seq = [i \in 1..Len(seq) |-> seq[i]]
      OBVIOUS
    <2>3. QED
      BY <1>2, <1>3, <2>1, <2>2
  <1>7. \A i \in 1..m : i \in 1..Len(seq) /\ FirstOf(seq, n)[i] = seq[i]
    <2>1. ASSUME NEW i \in 1..m PROVE i \in 1..Len(seq)
      BY <1>1
    <2>2. ASSUME NEW i \in 1..m PROVE FirstOf(seq, n)[i] = seq[i]
      BY <1>2, <1>3
    <2>3. QED
      BY <2>1, <2>2
  <1>8. QED
    BY <1>5, <1>6, <1>7 DEF m

(* The order is the only one in which an earlier row is at an earlier      *)
(* place: rows that stand so are what ORDER BY gives.                      *)
LEMMA OnlyOrder ==
  ASSUME NEW S, IsFiniteSet(S), NEW R, IsOrder(S, R), NEW seq \in Seq(S), ToSet(seq) = S,
         \A i, j \in 1..Len(seq) : i < j => <<seq[i], seq[j]>> \in R
  PROVE  seq = OrderBy(S, R)
  <1> DEFINE n == Len(seq)
  <1>1. n \in Nat /\ DOMAIN seq = 1..n /\ \A i \in 1..n : seq[i] \in S
    OBVIOUS
  <1>2. ASSUME NEW i \in 1..n, NEW j \in 1..n, i # j PROVE seq[i] # seq[j]
    <2>1. i < j \/ j < i
      BY <1>1, <1>2
    <2>2. <<seq[i], seq[j]>> \in R \/ <<seq[j], seq[i]>> \in R
      BY <2>1
    <2>3. QED
      BY <1>1, <2>2 DEF IsOrder
  <1>3. ASSUME NEW i \in 1..n PROVE Cardinality(Ahead(S, R, seq[i])) = i - 1
    <2> DEFINE A == Ahead(S, R, seq[i])
               f == [j \in 1..(i - 1) |-> seq[j]]
    <2>1. \A j \in 1..(i - 1) : j \in 1..n /\ j < i /\ j # i
      BY <1>1
    <2>2. \A j \in 1..(i - 1) : seq[j] \in A
      BY <1>1, <2>1 DEF Ahead
    <2>3. ASSUME NEW s \in A PROVE \E j \in 1..(i - 1) : seq[j] = s
      <3>1. s \in S /\ <<s, seq[i]>> \in R
        BY DEF Ahead
      <3>2. PICK j \in 1..n : seq[j] = s
        BY <1>1, <3>1 DEF ToSet
      <3>3. ~(i < j) /\ i # j
        BY <1>1, <3>1, <3>2 DEF IsOrder
      <3>4. j \in 1..(i - 1)
        BY <1>1, <3>3
      <3>5. QED
        BY <3>2, <3>4
    <2> HIDE DEF A
    <2>4. f \in Surjection(1..(i - 1), A)
      BY <2>2, <2>3 DEF Surjection
    <2>5. f \in Injection(1..(i - 1), A)
      BY <1>2, <2>1, <2>2 DEF Injection, IsInjective
    <2>6. IsFiniteSet(1..(i - 1)) /\ Cardinality(1..(i - 1)) = i - 1
      <3>1. 1 \in Int /\ i - 1 \in Int
        OBVIOUS
      <3>2. /\ IsFiniteSet(1..(i - 1))
            /\ Cardinality(1..(i - 1)) = IF 1 > i - 1 THEN 0 ELSE (i - 1) - 1 + 1
        BY <3>1, FS_Interval
      <3>3. QED
        BY <3>2
    <2> HIDE DEF f
    <2>7. Cardinality(A) = Cardinality(1..(i - 1))
      BY <2>4, <2>5, <2>6, FS_Surjection
    <2>8. QED
      BY <2>6, <2>7 DEF A
  <1>4. Cardinality(S) = n
    <2> DEFINE f == [j \in 1..n |-> seq[j]]
    <2>1. f \in Surjection(1..n, S)
      BY <1>1 DEF Surjection, ToSet
    <2>2. f \in Injection(1..n, S)
      BY <1>1, <1>2 DEF Injection, IsInjective
    <2>3. IsFiniteSet(1..n) /\ Cardinality(1..n) = n
      <3>1. 1 \in Int /\ n \in Int
        BY <1>1
      <3>2. IsFiniteSet(1..n) /\ Cardinality(1..n) = IF 1 > n THEN 0 ELSE n - 1 + 1
        BY <3>1, FS_Interval
      <3>3. QED
        BY <1>1, <3>2
    <2> HIDE DEF f, n
    <2>4. QED
      BY <2>1, <2>2, <2>3, FS_Surjection
  <1>5. ASSUME NEW i \in 1..n PROVE OrderBy(S, R)[i] = seq[i]
    <2>1. OrderBy(S, R)[i] = CHOOSE t \in S : Cardinality(Ahead(S, R, t)) = i - 1
      BY <1>4 DEF OrderBy, Ahead
    <2>2. ASSUME NEW t \in S, Cardinality(Ahead(S, R, t)) = i - 1 PROVE t = seq[i]
      <3>1. seq[i] \in S /\ Cardinality(Ahead(S, R, seq[i])) = i - 1 /\ i \in Int
        BY <1>1, <1>3
      <3>2. t = seq[i] \/ <<t, seq[i]>> \in R \/ <<seq[i], t>> \in R
        BY <3>1 DEF IsOrder
      <3>3. QED
        BY <2>2, <3>1, <3>2, AheadCounted
    <2>3. seq[i] \in S /\ Cardinality(Ahead(S, R, seq[i])) = i - 1
      BY <1>1, <1>3
    <2>4. QED
      BY <2>1, <2>2, <2>3
  <1>6. OrderBy(S, R) \in Seq(S) /\ Len(OrderBy(S, R)) = n
    BY <1>4, Ordered
  <1>7. QED
    BY <1>1, <1>5, <1>6

(* A page of the rows that fewer than n others come before has no more     *)
(* than n.                                                                 *)
LEMMA PageCounted ==
  ASSUME NEW S, IsFiniteSet(S), NEW R, IsOrder(S, R), NEW n \in Nat,
         NEW P \in SUBSET S, \A t \in P : Cardinality(Ahead(S, R, t)) < n
  PROVE  IsFiniteSet(P) /\ Cardinality(P) <= n
  <1> DEFINE place == [t \in P |-> Cardinality(Ahead(S, R, t))]
  <1>1. IsFiniteSet(0..(n - 1)) /\ Cardinality(0..(n - 1)) = n
    <2>1. 0 \in Int /\ n - 1 \in Int
      OBVIOUS
    <2>2. /\ IsFiniteSet(0..(n - 1))
          /\ Cardinality(0..(n - 1)) = IF 0 > n - 1 THEN 0 ELSE (n - 1) - 0 + 1
      BY <2>1, FS_Interval
    <2>3. QED
      BY <2>2
  <1>2. \A t \in P : Cardinality(Ahead(S, R, t)) \in 0..(n - 1)
    <2>1. \A t \in P : Cardinality(Ahead(S, R, t)) \in 0..(Cardinality(S) - 1)
      BY AheadCounted
    <2>2. QED
      BY <2>1
  <1>3. ASSUME NEW s \in P, NEW t \in P, place[s] = place[t] PROVE s = t
    <2>1. SUFFICES ASSUME s # t PROVE FALSE
      OBVIOUS
    <2>2. <<s, t>> \in R \/ <<t, s>> \in R
      BY <2>1 DEF IsOrder
    <2>3. place[s] < place[t] \/ place[t] < place[s]
      BY <2>2, AheadCounted
    <2>4. place[s] \in Int /\ place[t] \in Int
      BY <1>2
    <2>5. QED
      BY <1>3, <2>3, <2>4
  <1>4. place \in Injection(P, 0..(n - 1))
    BY <1>2, <1>3 DEF Injection, IsInjective
  <1> HIDE DEF place
  <1>5. QED
    BY <1>1, <1>4, FS_Injection

-----------------------------------------------------------------------------
(* A fold: base for the empty set, and step for an element that is picked  *)
(* and what the others give.                                               *)
Folds(f, S, pick, base, step) ==
    f = [s \in SUBSET S |-> IF s = {} THEN base ELSE step[pick[s], f[s \ {pick[s]}]]]

LEMMA FoldExists ==
  ASSUME NEW S, IsFiniteSet(S), NEW V, NEW base \in V, NEW pick,
         \A s \in SUBSET S : s # {} => pick[s] \in s, NEW step \in [S \X V -> V]
  PROVE  \E f \in [SUBSET S -> V] : Folds(f, S, pick, base, step)
  <1> DEFINE At(f, s) == IF s = {} THEN base ELSE step[pick[s], f[s \ {pick[s]}]]
             IsFor(f, n) == f \in [Small(S, n) -> V] /\ \A s \in Small(S, n) : f[s] = At(f, s)
             Q == {n \in Nat : \E f : IsFor(f, n)}
  <1>1. 0 \in Q
    <2>1. IsFor([s \in {{}} |-> base], 0)
      BY SmallSets
    <2>2. QED
      BY <2>1
  <1>2. ASSUME NEW n \in Nat, n \in Q PROVE n + 1 \in Q
    <2>1. PICK f : IsFor(f, n)
      BY <1>2
    <2> DEFINE g == [s \in Small(S, n + 1) |-> At(f, s)]
    <2>2. ASSUME NEW s \in Small(S, n + 1), s # {}
          PROVE  pick[s] \in S /\ s \ {pick[s]} \in Small(S, n)
      <3>1. s \in SUBSET S
        BY DEF Small
      <3>2. pick[s] \in s
        BY <2>2, <3>1
      <3>3. QED
        BY <3>1, <3>2, SmallSets
    <2>3. ASSUME NEW s \in Small(S, n) PROVE g[s] = f[s]
      <3>1. s \in Small(S, n + 1)
        BY SmallSets
      <3>2. f[s] = At(f, s)
        BY <2>1
      <3>3. QED
        BY <3>1, <3>2, Zenon
    <2>4. ASSUME NEW s \in Small(S, n + 1) PROVE At(f, s) \in V /\ At(f, s) = At(g, s)
      <3>1. CASE s = {}
        BY <3>1
      <3>2. CASE s # {}
        <4> DEFINE r == s \ {pick[s]}
        <4>1. pick[s] \in S /\ r \in Small(S, n)
          BY <2>2, <3>2
        <4>2. f[r] \in V /\ g[r] = f[r]
          BY <2>1, <2>3, <4>1
        <4> HIDE DEF r, g
        <4>3. step[pick[s], f[r]] \in V /\ step[pick[s], f[r]] = step[pick[s], g[r]]
          BY <4>1, <4>2
        <4>4. At(f, s) = step[pick[s], f[r]] /\ At(g, s) = step[pick[s], g[r]]
          BY <3>2 DEF r
        <4>5. QED
          BY <4>3, <4>4
      <3>3. QED
        BY <3>1, <3>2
    <2> HIDE DEF At
    <2>5. IsFor(g, n + 1)
      BY <2>4
    <2>6. \E h : IsFor(h, n + 1)
      BY <2>5, Zenon
    <2> HIDE DEF IsFor
    <2>7. QED
      BY <2>6
  <1>3. Cardinality(S) \in Q
    <2> HIDE DEF Q
    <2>1. Q \in SUBSET Nat
      BY DEF Q
    <2>2. Q = Nat
      BY <1>1, <1>2, <2>1, AllNumbers
    <2>3. QED
      BY <2>2, FS_CardinalityType
  <1>4. PICK f : IsFor(f, Cardinality(S))
    BY <1>3
  <1>5. f \in [SUBSET S -> V] /\ \A s \in SUBSET S : f[s] = At(f, s)
    BY <1>4, SmallSets
  <1> HIDE DEF At
  <1>6. f = [s \in SUBSET S |-> At(f, s)]
    BY <1>5
  <1>7. Folds(f, S, pick, base, step)
    BY <1>6 DEF At, Folds
  <1>8. QED
    BY <1>5, <1>7

-----------------------------------------------------------------------------
(* A finite set of numbers has a greatest and a least one: the last and    *)
(* the first in their order.                                               *)
LEMMA GreatestAndLeast ==
  ASSUME NEW S \in SUBSET Int, IsFiniteSet(S), S # {}
  PROVE  /\ \E m \in S : \A j \in S : j <= m
         /\ \E m \in S : \A j \in S : m <= j
  <1> DEFINE R == {p \in S \X S : p[1] < p[2]}
             seq == OrderBy(S, R)
             n == Cardinality(S)
  <1>1. n \in Nat /\ n # 0
    BY FS_CardinalityType, FS_EmptySet
  <1>2. \A s, t \in S : <<s, t>> \in R <=> s < t
    OBVIOUS
  <1> HIDE DEF R
  <1>3. IsOrder(S, R)
    BY <1>2 DEF IsOrder
  <1> HIDE DEF n
  <1>4. /\ seq \in Seq(S) /\ Len(seq) = n /\ ToSet(seq) = S
        /\ \A i, j \in 1..n : i < j <=> <<seq[i], seq[j]>> \in R
    BY <1>3, Ordered DEF n
  <1> HIDE DEF seq
  <1>5. \A i \in 1..n : seq[i] \in S
    BY <1>4
  <1>6. \A s \in S : \E i \in 1..n : s = seq[i]
    BY <1>4 DEF ToSet
  <1>7. \A i, j \in 1..n : i < j => seq[i] < seq[j]
    BY <1>2, <1>4, <1>5
  <1>8. 1 \in 1..n /\ n \in 1..n
    BY <1>1
  <1>9. ASSUME NEW s \in S PROVE s <= seq[n] /\ seq[1] <= s
    <2>1. PICK i \in 1..n : s = seq[i]
      BY <1>6
    <2>2. (i = n \/ i < n) /\ (i = 1 \/ 1 < i)
      BY <1>1
    <2>3. s \in Int /\ seq[n] \in Int /\ seq[1] \in Int
      BY <1>5, <1>8
    <2>4. QED
      BY <1>7, <1>8, <2>1, <2>2, <2>3
  <1>10. QED
    BY <1>5, <1>8, <1>9

-----------------------------------------------------------------------------
(* Rows of a gallery and the cards that are made of them.                  *)

Pairs == Nat \X Nat
Rank(a, b) == a[1] > b[1] \/ (a[1] = b[1] /\ a[2] < b[2])
Ranks(S) == {p \in S \X S : Rank(p[1], p[2])}
Sorted(rows) == \A i, j \in 1..Len(rows) : i < j => Rank(rows[i], rows[j])

LEMMA RanksAreOrder ==
  ASSUME NEW S \in SUBSET Pairs
  PROVE  IsOrder(S, Ranks(S))
  <1>1. \A s, t \in S : <<s, t>> \in Ranks(S) <=> Rank(s, t)
    BY DEF Ranks
  <1>2. \A s \in S : s[1] \in Nat /\ s[2] \in Nat /\ s = <<s[1], s[2]>>
    BY DEF Pairs
  <1>3. \A s \in S : ~Rank(s, s)
    BY <1>2 DEF Rank
  <1>4. \A s, t, u \in S : Rank(s, t) /\ Rank(t, u) => Rank(s, u)
    BY <1>2 DEF Rank
  <1>5. \A s, t \in S : s # t => Rank(s, t) \/ Rank(t, s)
    BY <1>2 DEF Rank
  <1>6. QED
    BY <1>1, <1>3, <1>4, <1>5 DEF IsOrder

(* Rows that come before all of others come before them when the others    *)
(* are added at the end.                                                   *)
LEMMA SortedJoin ==
  ASSUME NEW s \in Seq(Pairs), NEW t \in Seq(Pairs), Sorted(s), Sorted(t),
         \A a \in ToSet(s), b \in ToSet(t) : Rank(a, b)
  PROVE  s \o t \in Seq(Pairs) /\ Sorted(s \o t) /\ ToSet(s \o t) = ToSet(s) \cup ToSet(t)
  <1> DEFINE m == Len(s)
             n == Len(t)
             st == s \o t
  <1>1. m \in Nat /\ n \in Nat /\ DOMAIN s = 1..m /\ DOMAIN t = 1..n
    OBVIOUS
  <1>2. /\ st \in Seq(Pairs) /\ Len(st) = m + n /\ DOMAIN st = 1..(m + n)
        /\ \A i \in 1..m : st[i] = s[i]
        /\ \A i \in 1..n : st[m + i] = t[i]
    OBVIOUS
  <1>3. \A i \in 1..m : s[i] \in ToSet(s)
    BY <1>1 DEF ToSet
  <1>4. \A i \in 1..n : t[i] \in ToSet(t)
    BY <1>1 DEF ToSet
  <1>5. (\A i, j \in 1..m : i < j => Rank(s[i], s[j])) /\ \A i, j \in 1..n : i < j => Rank(t[i], t[j])
    BY DEF Sorted
  <1> HIDE DEF st, m, n
  <1>6. ASSUME NEW i \in 1..(m + n), NEW j \in 1..(m + n), i < j
        PROVE  Rank(st[i], st[j])
    <2>1. CASE j \in 1..m
      <3>1. i \in 1..m
        BY <1>1, <1>6, <2>1
      <3>2. QED
        BY <1>2, <1>5, <1>6, <2>1, <3>1
    <2>2. CASE i \in 1..m /\ j \notin 1..m
      <3>1. j - m \in 1..n /\ m + (j - m) = j
        BY <1>1, <1>6, <2>2
      <3>2. st[j] = t[j - m] /\ st[i] = s[i]
        BY <1>2, <2>2, <3>1
      <3>3. QED
        BY <1>3, <1>4, <2>2, <3>1, <3>2
    <2>3. CASE i \notin 1..m
      <3>1. /\ j - m \in 1..n /\ m + (j - m) = j /\ i - m \in 1..n /\ m + (i - m) = i
            /\ i - m < j - m
        BY <1>1, <1>6, <2>3
      <3>2. st[j] = t[j - m] /\ st[i] = t[i - m]
        BY <1>2, <3>1
      <3>3. QED
        BY <1>5, <3>1, <3>2
    <2>4. QED
      BY <2>1, <2>2, <2>3
  <1>7. ToSet(st) = ToSet(s) \cup ToSet(t)
    <2>1. ASSUME NEW i \in 1..(m + n) PROVE st[i] \in ToSet(s) \cup ToSet(t)
      <3>1. CASE i \in 1..m
        BY <1>2, <1>3, <3>1
      <3>2. CASE i \notin 1..m
        <4>1. i - m \in 1..n /\ m + (i - m) = i
          BY <1>1, <2>1, <3>2
        <4>2. st[i] = t[i - m]
          BY <1>2, <4>1
        <4>3. QED
          BY <1>4, <4>1, <4>2
      <3>3. QED
        BY <3>1, <3>2
    <2>2. ASSUME NEW i \in 1..m PROVE s[i] \in ToSet(st)
      <3>1. i \in 1..(m + n)
        BY <1>1
      <3>2. QED
        BY <1>2, <3>1 DEF ToSet
    <2>3. ASSUME NEW i \in 1..n PROVE t[i] \in ToSet(st)
      <3>1. m + i \in 1..(m + n)
        BY <1>1
      <3>2. QED
        BY <1>2, <3>1 DEF ToSet
    <2>4. ToSet(st) \subseteq ToSet(s) \cup ToSet(t)
      <3>1. ToSet(st) = {st[i] : i \in 1..(m + n)}
        BY <1>2 DEF ToSet
      <3>2. QED
        BY <2>1, <3>1
    <2>5. ToSet(s) = {s[i] : i \in 1..m} /\ ToSet(t) = {t[i] : i \in 1..n}
      BY <1>1 DEF ToSet
    <2>6. QED
      BY <2>2, <2>3, <2>4, <2>5
  <1>8. Sorted(st)
    BY <1>2, <1>6 DEF Sorted
  <1>9. QED
    BY <1>2, <1>7, <1>8 DEF st

LEMMA SortedRow ==
  ASSUME NEW row \in Pairs
  PROVE  <<row>> \in Seq(Pairs) /\ Sorted(<<row>>) /\ ToSet(<<row>>) = {row}
  <1>1. <<row>> \in Seq(Pairs) /\ Len(<<row>>) = 1 /\ <<row>>[1] = row /\ DOMAIN <<row>> = 1..1
    OBVIOUS
  <1> DEFINE s == <<row>>
  <1> HIDE DEF s
  <1>2. s \in Seq(Pairs) /\ Len(s) = 1 /\ s[1] = row /\ DOMAIN s = {1}
    BY <1>1 DEF s
  <1>3. Sorted(s)
    BY <1>2 DEF Sorted
  <1>4. ToSet(s) = {row}
    BY <1>2 DEF ToSet
  <1>5. QED
    BY <1>2, <1>3, <1>4 DEF s

(* A sorted sequence is its rows in their order.                           *)
LEMMA SortedIsOrder ==
  ASSUME NEW s \in Seq(Pairs), Sorted(s), NEW S, ToSet(s) = S, IsFiniteSet(S)
  PROVE  s = OrderBy(S, Ranks(S))
  <1>1. S \in SUBSET Pairs
    BY DEF ToSet
  <1>2. IsOrder(S, Ranks(S))
    BY <1>1, RanksAreOrder
  <1>3. \A i \in 1..Len(s) : s[i] \in S
    BY DEF ToSet
  <1>4. s \in Seq(S)
    BY <1>3
  <1>5. \A i, j \in 1..Len(s) : i < j => <<s[i], s[j]>> \in Ranks(S)
    BY <1>3 DEF Sorted, Ranks
  <1>6. QED
    BY <1>2, <1>4, <1>5, OnlyOrder

LEMMA OrderIsSorted ==
  ASSUME NEW S \in SUBSET Pairs, IsFiniteSet(S)
  PROVE  /\ OrderBy(S, Ranks(S)) \in Seq(Pairs) /\ Sorted(OrderBy(S, Ranks(S)))
         /\ ToSet(OrderBy(S, Ranks(S))) = S
  <1> DEFINE s == OrderBy(S, Ranks(S))
  <1>1. IsOrder(S, Ranks(S))
    BY RanksAreOrder
  <1>2. /\ s \in Seq(S) /\ Len(s) = Cardinality(S) /\ ToSet(s) = S
        /\ \A i, j \in 1..Cardinality(S) : i < j <=> <<s[i], s[j]>> \in Ranks(S)
    BY <1>1, Ordered
  <1> HIDE DEF s
  <1>3. s \in Seq(Pairs)
    BY <1>2
  <1>4. Sorted(s)
    BY <1>2 DEF Sorted, Ranks
  <1>5. QED
    BY <1>2, <1>3, <1>4 DEF s

-----------------------------------------------------------------------------
(* The cards that the first n rows give: one for each upload that has      *)
(* come, with its rows as they came.                                       *)
Card == [upload : Nat, count : Nat, images : Seq(Pairs)]

AddRow(cards, row, up) ==
    LET of == {c \in DOMAIN cards : cards[c].upload = row[1]} IN
    IF of = {}
    THEN Append(cards, [upload |-> row[1], count |-> up[row[1]].count, images |-> <<row>>])
    ELSE [cards EXCEPT ![Max(of)].images = Append(@, row)]

Of(cards, t) == {c \in DOMAIN cards : cards[c].upload = t}
Newest(cards) == \A b, c \in 1..Len(cards) : b < c => cards[b].upload > cards[c].upload
Had(rows, n, t) == {rows[i] : i \in {j \in 1..n : rows[j][1] = t}}

Made(cards, rows, n) ==
    /\ cards \in Seq(Card)
    /\ Newest(cards)
    /\ \A c \in 1..Len(cards) :
          /\ Sorted(cards[c].images)
          /\ ToSet(cards[c].images) = Had(rows, n, cards[c].upload)
          /\ \E j \in 1..n : rows[j][1] = cards[c].upload
    /\ \A j \in 1..n : \E c \in 1..Len(cards) : cards[c].upload = rows[j][1]

LEMMA CardFields ==
  ASSUME NEW card
  PROVE  /\ card \in Card => card.upload \in Nat /\ card.images \in Seq(Pairs)
         /\ \A t \in Nat, count \in Nat, images \in Seq(Pairs) :
              LET new == [upload |-> t, count |-> count, images |-> images]
              IN  new \in Card /\ new.upload = t /\ new.images = images
         /\ \A images \in Seq(Pairs) : card \in Card =>
              LET new == [card EXCEPT !.images = images]
              IN  new \in Card /\ new.upload = card.upload /\ new.images = images
  BY DEF Card

LEMMA HadNext ==
  ASSUME NEW rows, NEW n \in Nat, NEW t
  PROVE  Had(rows, n + 1, t) = IF rows[n + 1][1] = t THEN Had(rows, n, t) \cup {rows[n + 1]}
                               ELSE Had(rows, n, t)
  <1>1. 1..(n + 1) = (1..n) \cup {n + 1}
    OBVIOUS
  <1>2. QED
    BY <1>1 DEF Had

(* The card that a row goes to.                                            *)
LEMMA CardFound ==
  ASSUME NEW cards \in Seq(Card), NEW t,
         Newest(cards), Of(cards, t) # {}
  PROVE  \E c \in 1..Len(cards) : Of(cards, t) = {c} /\ Max(Of(cards, t)) = c
  <1> DEFINE of == Of(cards, t)
  <1>0. of = {c \in DOMAIN cards : cards[c].upload = t}
    BY DEF Of
  <1> HIDE DEF of
  <1>1. PICK c \in 1..Len(cards) : c \in of /\ cards[c].upload = t
    BY <1>0 DEF of
  <1>2. \A b \in of : b \in 1..Len(cards) /\ cards[b].upload = t
    BY <1>0
  <1>3. t \in Nat
    BY <1>1, CardFields
  <1>4. \A b \in of : b = c
    <2>1. ASSUME NEW b \in of PROVE ~(b < c) /\ ~(c < b) /\ b \in Nat /\ c \in Nat
      BY <1>1, <1>2, <1>3 DEF Newest
    <2>2. QED
      BY <2>1
  <1>5. of = {c}
    BY <1>1, <1>4
  <1>6. \A x \in of : (\A y \in of : x >= y) <=> x = c
    BY <1>1, <1>5
  <1> HIDE DEF Card
  <1>7. Max(of) = c
    BY <1>5, <1>6 DEF Max
  <1>8. QED
    BY <1>5, <1>7 DEF of

(* A row after n others: it opens a card of its own, or goes to its card.  *)
LEMMA RowAdded ==
  ASSUME NEW rows \in Seq(Pairs), Sorted(rows), NEW up,
         \A i \in DOMAIN rows : up[rows[i][1]].count \in Nat,
         NEW n \in 0..(Len(rows) - 1), NEW cards, Made(cards, rows, n)
  PROVE  Made(AddRow(cards, rows[n + 1], up), rows, n + 1)
  <1> DEFINE row == rows[n + 1]
             t == row[1]
             L == Len(cards)
             of == Of(cards, t)
             next == AddRow(cards, row, up)
  <1>1. /\ n \in Nat /\ n + 1 \in 1..Len(rows) /\ row \in Pairs /\ t \in Nat
        /\ up[t].count \in Nat /\ cards \in Seq(Card) /\ L \in Nat /\ DOMAIN cards = 1..L
        /\ 1..(n + 1) = (1..n) \cup {n + 1}
    <2>1. n \in Nat /\ n + 1 \in 1..Len(rows) /\ n + 1 \in DOMAIN rows /\ cards \in Seq(Card)
      BY DEF Made
    <2>2. row \in Pairs /\ t \in Nat /\ up[t].count \in Nat
      BY <2>1 DEF Pairs
    <2>3. QED
      BY <2>1, <2>2
  <1>2. \A b, c \in 1..L : b < c => cards[b].upload > cards[c].upload
    BY DEF Made, Newest
  <1>3. \A c \in 1..L : /\ Sorted(cards[c].images)
                        /\ ToSet(cards[c].images) = Had(rows, n, cards[c].upload)
                        /\ \E j \in 1..n : rows[j][1] = cards[c].upload
    BY DEF Made
  <1>4. \A j \in 1..n : \E c \in 1..L : cards[c].upload = rows[j][1]
    BY DEF Made
  <1>5. \A c \in 1..L : /\ cards[c] \in Card /\ cards[c].upload \in Nat
                        /\ cards[c].images \in Seq(Pairs)
    BY <1>1, CardFields
  <1>6. \A j \in 1..n : Rank(rows[j], row) /\ rows[j] \in Pairs
    <2>1. \A j \in 1..n : j \in 1..Len(rows) /\ j < n + 1
      BY <1>1
    <2>2. QED
      BY <1>1, <2>1 DEF Sorted
  <1>7. \A c \in 1..L : cards[c].upload >= t
    <2>1. \A a \in Pairs : Rank(a, row) => a[1] >= row[1]
      <3> HIDE DEF row
      <3>1. QED
        BY <1>1 DEF Rank, Pairs
    <2>2. \A j \in 1..n : rows[j][1] >= t
      BY <1>6, <2>1
    <2>3. QED
      BY <1>3, <2>2
  <1>8. \A u : Had(rows, n + 1, u) = IF t = u THEN Had(rows, n, u) \cup {row} ELSE Had(rows, n, u)
    BY <1>1, HadNext
  <1>9. \A u : \A a \in Had(rows, n, u) : Rank(a, row)
    BY <1>6 DEF Had
  <1>10. CASE of = {}
    <2> DEFINE card == [upload |-> t, count |-> up[t].count, images |-> <<row>>]
    <2>1. next = Append(cards, card)
      BY <1>10 DEF AddRow, Of
    <2>2. /\ <<row>> \in Seq(Pairs) /\ Sorted(<<row>>) /\ ToSet(<<row>>) = {row}
      BY <1>1, SortedRow
    <2>3. card \in Card /\ card.upload = t /\ card.images = <<row>>
      BY <1>1, <2>2, CardFields
    <2>4. \A c \in 1..L : cards[c].upload # t
      BY <1>1, <1>10 DEF Of
    <2> HIDE DEF card, next, row, t, L, of
    <2>5. /\ next \in Seq(Card) /\ Len(next) = L + 1 /\ next[L + 1] = card
          /\ \A c \in 1..L : next[c] = cards[c]
      BY <1>1, <2>1, <2>3 DEF L
    <2>6. Had(rows, n, t) = {}
      <3>1. \A j \in 1..n : rows[j][1] # t
        BY <1>4, <2>4
      <3>2. QED
        BY <3>1 DEF Had
    <2>7. ASSUME NEW b \in 1..(L + 1), NEW c \in 1..(L + 1), b < c
          PROVE  next[b].upload > next[c].upload
      <3>1. b \in 1..L /\ next[b] = cards[b]
        BY <1>1, <2>5, <2>7
      <3>2. CASE c \in 1..L
        BY <1>2, <2>5, <2>7, <3>1, <3>2
      <3>3. CASE c = L + 1
        <4>1. next[c].upload = t
          BY <2>3, <2>5, <3>3
        <4>2. cards[b].upload >= t /\ cards[b].upload # t /\ cards[b].upload \in Nat
          BY <1>5, <1>7, <2>4, <3>1
        <4>3. QED
          BY <1>1, <3>1, <4>1, <4>2
      <3>4. QED
        BY <1>1, <3>2, <3>3
    <2>8. ASSUME NEW c \in 1..(L + 1)
          PROVE  /\ Sorted(next[c].images)
                 /\ ToSet(next[c].images) = Had(rows, n + 1, next[c].upload)
                 /\ \E j \in 1..(n + 1) : rows[j][1] = next[c].upload
      <3>1. CASE c \in 1..L
        BY <1>1, <1>3, <1>8, <2>4, <2>5, <3>1
      <3>2. CASE c = L + 1
        <4>1. next[c].images = <<row>> /\ next[c].upload = t
          BY <2>3, <2>5, <3>2
        <4>2. Had(rows, n + 1, t) = {row}
          BY <1>8, <2>6
        <4>3. n + 1 \in 1..(n + 1) /\ rows[n + 1][1] = t
          BY <1>1 DEF row, t
        <4>4. QED
          BY <2>2, <4>1, <4>2, <4>3
      <3>3. QED
        BY <1>1, <3>1, <3>2
    <2>9. ASSUME NEW j \in 1..(n + 1)
          PROVE  \E c \in 1..(L + 1) : next[c].upload = rows[j][1]
      <3>1. 1..L \subseteq 1..(L + 1) /\ L + 1 \in 1..(L + 1)
        BY <1>1
      <3>2. CASE j \in 1..n
        BY <1>4, <2>5, <3>1, <3>2
      <3>3. CASE j = n + 1
        BY <2>3, <2>5, <3>1, <3>3 DEF row, t
      <3>4. QED
        BY <1>1, <3>2, <3>3
    <2>10. Made(next, rows, n + 1)
      BY <2>5, <2>7, <2>8, <2>9 DEF Made, Newest
    <2>11. QED
      BY <2>10 DEF next, row
  <1>11. CASE of # {}
    <2>0. of = {c \in DOMAIN cards : cards[c].upload = t}
      BY DEF Of
    <2>1. PICK c \in 1..L : of = {c} /\ Max(of) = c
      BY <1>1, <1>11, CardFound DEF Made
    <2> DEFINE images == Append(cards[c].images, row)
               card == [cards[c] EXCEPT !.images = images]
    <2>2. next = [cards EXCEPT ![c] = card]
      BY <1>11, <2>1 DEF AddRow, Of
    <2>3. c \in of /\ cards[c].upload = t /\ \A b \in 1..L : b # c => cards[b].upload # t
      BY <1>1, <2>0, <2>1
    <2>4. /\ <<row>> \in Seq(Pairs) /\ Sorted(<<row>>) /\ ToSet(<<row>>) = {row}
      BY <1>1, SortedRow
    <2> HIDE DEF row, t, L, of, next
    <2>5. images = cards[c].images \o <<row>>
      BY <1>1, <1>5
    <2> HIDE DEF images
    <2>6. \A a \in ToSet(cards[c].images), b \in ToSet(<<row>>) : Rank(a, b)
      BY <1>3, <1>9, <2>4
    <2> DEFINE had == cards[c].images
               new == <<row>>
    <2>7. had \in Seq(Pairs) /\ Sorted(had)
      BY <1>3, <1>5
    <2> HIDE DEF had, new
    <2>8. had \o new \in Seq(Pairs) /\ Sorted(had \o new) /\ ToSet(had \o new) = ToSet(had) \cup ToSet(new)
      BY <2>4, <2>6, <2>7, SortedJoin DEF had, new
    <2>9. images \in Seq(Pairs) /\ Sorted(images) /\ ToSet(images) = Had(rows, n, t) \cup {row}
      BY <1>3, <2>3, <2>4, <2>5, <2>8 DEF had, new
    <2>10. card \in Card /\ card.upload = t /\ card.images = images
      BY <1>5, <2>3, <2>9, CardFields
    <2> HIDE DEF card
    <2>11. /\ next \in Seq(Card) /\ Len(next) = L /\ next[c] = card
           /\ \A b \in 1..L : b # c => next[b] = cards[b]
      BY <1>1, <2>2, <2>10 DEF L
    <2>12. \A b \in 1..L : next[b].upload = cards[b].upload
      BY <2>3, <2>10, <2>11
    <2>13. ASSUME NEW b \in 1..L
           PROVE  /\ Sorted(next[b].images)
                  /\ ToSet(next[b].images) = Had(rows, n + 1, next[b].upload)
                  /\ \E j \in 1..(n + 1) : rows[j][1] = next[b].upload
      <3>1. CASE b # c
        BY <1>1, <1>3, <1>8, <2>3, <2>11, <3>1
      <3>2. CASE b = c
        <4>1. next[b].images = images /\ next[b].upload = t
          BY <2>10, <2>11, <3>2
        <4>2. Had(rows, n + 1, t) = Had(rows, n, t) \cup {row}
          BY <1>8
        <4>3. n + 1 \in 1..(n + 1) /\ rows[n + 1][1] = t
          BY <1>1 DEF row, t
        <4>4. QED
          BY <2>9, <4>1, <4>2, <4>3
      <3>3. QED
        BY <3>1, <3>2
    <2>14. ASSUME NEW j \in 1..(n + 1)
           PROVE  \E b \in 1..L : next[b].upload = rows[j][1]
      <3>1. CASE j \in 1..n
        BY <1>4, <2>12, <3>1
      <3>2. CASE j = n + 1
        BY <2>10, <2>11, <3>2 DEF row, t
      <3>3. QED
        BY <1>1, <3>1, <3>2
    <2>15. \A a, b \in 1..L : a < b => next[a].upload > next[b].upload
      BY <1>2, <2>12
    <2>16. Made(next, rows, n + 1)
      BY <2>11, <2>13, <2>14, <2>15 DEF Made, Newest
    <2>17. QED
      BY <2>16 DEF next, row
  <1>12. QED
    BY <1>10, <1>11

-----------------------------------------------------------------------------
(* A row goes to a card whatever the cards are.                            *)
LEMMA GreatestOf ==
  ASSUME NEW S \in SUBSET Int, IsFiniteSet(S), S # {}
  PROVE  Max(S) \in S
  <1>1. PICK m \in S : \A j \in S : j <= m
    BY GreatestAndLeast
  <1>2. \A j \in S : m >= j
    BY <1>1
  <1>3. QED
    BY <1>2 DEF Max

LEMMA GreatestOfInterval ==
  ASSUME NEW n \in Nat
  PROVE  Max(1..(n + 1)) = n + 1 /\ (1..(n + 1)) \ {n + 1} = 1..n
  <1> DEFINE S == 1..(n + 1)
  <1>1. n + 1 \in S /\ \A x \in S : (\A y \in S : x >= y) <=> x = n + 1
    OBVIOUS
  <1>2. S \ {n + 1} = 1..n
    OBVIOUS
  <1> HIDE DEF S
  <1>3. Max(S) = n + 1
    BY <1>1 DEF Max
  <1>4. QED
    BY <1>2, <1>3 DEF S

LEMMA RowTyped ==
  ASSUME NEW cards \in Seq(Card), NEW row \in Pairs, NEW up, up[row[1]].count \in Nat
  PROVE  AddRow(cards, row, up) \in Seq(Card)
  <1> DEFINE of == Of(cards, row[1])
             t == row[1]
  <1>1. t \in Nat
    BY DEF Pairs
  <1>2. <<row>> \in Seq(Pairs)
    OBVIOUS
  <1>3. CASE of = {}
    <2> DEFINE card == [upload |-> t, count |-> up[t].count, images |-> <<row>>]
    <2>1. card \in Card
      BY <1>1, <1>2, CardFields
    <2>2. AddRow(cards, row, up) = Append(cards, card)
      BY <1>3 DEF AddRow, Of
    <2> HIDE DEF card
    <2>3. QED
      BY <2>1, <2>2
  <1>4. CASE of # {}
    <2> DEFINE c == Max(of)
    <2>1. of \subseteq 1..Len(cards) /\ Len(cards) \in Nat
      BY DEF Of
    <2>2. IsFiniteSet(of) /\ of \in SUBSET Int
      <3> DEFINE D == 1..Len(cards)
      <3>1. IsFiniteSet(D)
        BY <2>1, FS_Interval
      <3>2. of \in SUBSET D /\ of \in SUBSET Int
        BY <2>1
      <3> HIDE DEF of, D
      <3>3. QED
        BY <3>1, <3>2, FS_Subset
    <2> HIDE DEF of
    <2>3. c \in 1..Len(cards)
      BY <1>4, <2>1, <2>2, GreatestOf
    <2> DEFINE images == Append(cards[c].images, row)
               card == [cards[c] EXCEPT !.images = images]
    <2>4. AddRow(cards, row, up) = [cards EXCEPT ![c] = card]
      BY <1>4 DEF AddRow, Of, of
    <2> HIDE DEF c
    <2>5. cards[c] \in Card
      BY <2>3
    <2>6. images \in Seq(Pairs)
      BY <2>5, CardFields
    <2> HIDE DEF images
    <2>7. card \in Card
      BY <2>5, <2>6, CardFields
    <2> HIDE DEF card
    <2>8. QED
      BY <2>3, <2>4, <2>7
  <1>5. QED
    BY <1>3, <1>4

(* There is a function that gathers the rows of a set, the last one last.  *)
Gathers(f, rows, up) ==
    f = [s \in SUBSET DOMAIN rows |->
           IF s = {} THEN <<>> ELSE AddRow(f[s \ {Max(s)}], rows[Max(s)], up)]

LEMMA GatherExists ==
  ASSUME NEW rows \in Seq(Pairs), NEW up, \A i \in DOMAIN rows : up[rows[i][1]].count \in Nat
  PROVE  \E f : Gathers(f, rows, up)
  <1> DEFINE D == DOMAIN rows
             V == Seq(Card)
             pick == [s \in SUBSET D |-> Max(s)]
             step == [x \in D \X V |-> AddRow(x[2], rows[x[1]], up)]
  <1>1. D = 1..Len(rows) /\ Len(rows) \in Nat
    OBVIOUS
  <1>2. IsFiniteSet(D)
    BY <1>1, FS_Interval
  <1>3. ASSUME NEW s \in SUBSET D, s # {} PROVE pick[s] \in s /\ pick[s] = Max(s)
    <2>1. s \in SUBSET Int /\ IsFiniteSet(s)
      BY <1>1, <1>2, FS_Subset
    <2>2. QED
      BY <1>3, <2>1, GreatestOf
  <1>4. step \in [D \X V -> V]
    <2>1. ASSUME NEW i \in D, NEW cards \in V PROVE AddRow(cards, rows[i], up) \in V
      <3>1. rows[i] \in Pairs /\ up[rows[i][1]].count \in Nat
        OBVIOUS
      <3>2. QED
        BY <3>1, RowTyped
    <2> HIDE DEF V, D
    <2>2. \A x \in D \X V : x[1] \in D /\ x[2] \in V
      OBVIOUS
    <2>3. QED
      BY <2>1, <2>2
  <1>5. <<>> \in V
    OBVIOUS
  <1>6. \A i \in D, cards \in V : step[i, cards] = AddRow(cards, rows[i], up)
    OBVIOUS
  <1> HIDE DEF D, V, pick, step
  <1>7. PICK f \in [SUBSET D -> V] : Folds(f, D, pick, <<>>, step)
    BY <1>2, <1>3, <1>4, <1>5, FoldExists
  <1>8. ASSUME NEW s \in SUBSET D
        PROVE  f[s] = IF s = {} THEN <<>> ELSE AddRow(f[s \ {Max(s)}], rows[Max(s)], up)
    <2>1. f[s] = IF s = {} THEN <<>> ELSE step[pick[s], f[s \ {pick[s]}]]
      BY <1>7, Zenon DEF Folds
    <2>2. ASSUME s # {}
          PROVE  step[pick[s], f[s \ {pick[s]}]] = AddRow(f[s \ {Max(s)}], rows[Max(s)], up)
      <3>1. pick[s] = Max(s) /\ Max(s) \in D
        BY <1>3, <2>2
      <3>2. f[s \ {Max(s)}] \in V
        BY <1>7
      <3>3. QED
        BY <1>6, <3>1, <3>2
    <2>3. QED
      BY <2>1, <2>2
  <1>9. f = [s \in SUBSET D |->
               IF s = {} THEN <<>> ELSE AddRow(f[s \ {Max(s)}], rows[Max(s)], up)]
    BY <1>7, <1>8
  <1>10. QED
    BY <1>9 DEF Gathers, D

(* Whatever gathers them makes the cards of all rows.                      *)
LEMMA RowsGathered ==
  ASSUME NEW rows \in Seq(Pairs), Sorted(rows), NEW up,
         \A i \in DOMAIN rows : up[rows[i][1]].count \in Nat,
         NEW f, Gathers(f, rows, up)
  PROVE  Made(f[DOMAIN rows], rows, Len(rows))
  <1> DEFINE Q == {n \in Nat : n <= Len(rows) => Made(f[1..n], rows, n)}
  <1>1. DOMAIN rows = 1..Len(rows) /\ Len(rows) \in Nat
    OBVIOUS
  <1>2. \A s \in SUBSET DOMAIN rows :
           f[s] = IF s = {} THEN <<>> ELSE AddRow(f[s \ {Max(s)}], rows[Max(s)], up)
    BY Zenon DEF Gathers
  <1>3. 0 \in Q
    <2>1. 1..0 = {}
      OBVIOUS
    <2>2. f[1..0] = <<>>
      BY <1>2, <2>1
    <2>3. <<>> \in Seq(Card) /\ Len(<<>>) = 0
      OBVIOUS
    <2>4. Made(<<>>, rows, 0)
      BY <2>1, <2>3 DEF Made, Newest
    <2>5. QED
      BY <2>2, <2>4
  <1>4. ASSUME NEW n \in Nat, n \in Q PROVE n + 1 \in Q
    <2>1. SUFFICES ASSUME n + 1 <= Len(rows) PROVE Made(f[1..(n + 1)], rows, n + 1)
      OBVIOUS
    <2>2. n \in 0..(Len(rows) - 1) /\ 1..(n + 1) \in SUBSET DOMAIN rows /\ n + 1 \in 1..(n + 1)
      BY <1>1, <2>1
    <2>3. Made(f[1..n], rows, n)
      BY <1>1, <1>4, <2>1
    <2> HIDE DEF Q
    <2>4. f[1..(n + 1)] = AddRow(f[1..n], rows[n + 1], up)
      <3> DEFINE s == 1..(n + 1)
      <3>1. s \in SUBSET DOMAIN rows /\ s # {}
        BY <2>2
      <3>2. Max(s) = n + 1 /\ s \ {n + 1} = 1..n
        BY GreatestOfInterval
      <3> HIDE DEF s
      <3>3. f[s] = AddRow(f[s \ {Max(s)}], rows[Max(s)], up)
        BY <1>2, <3>1
      <3>4. QED
        BY <3>2, <3>3 DEF s
    <2>5. Made(AddRow(f[1..n], rows[n + 1], up), rows, n + 1)
      BY <2>2, <2>3, RowAdded
    <2>6. QED
      BY <2>4, <2>5
  <1>5. Q = Nat
    <2> HIDE DEF Q
    <2>1. Q \in SUBSET Nat
      BY DEF Q
    <2>2. QED
      BY <1>3, <1>4, <2>1, AllNumbers
  <1>6. Len(rows) \in Q
    BY <1>1, <1>5
  <1>7. QED
    BY <1>1, <1>6

-----------------------------------------------------------------------------
(* The images of all cards, one card after the other, are the rows.        *)
Joins(g, parts) ==
    g = [i \in 1..Len(parts) |-> IF i = 1 THEN parts[i] ELSE g[i - 1] \o parts[i]]

LEMMA JoinExists ==
  ASSUME NEW parts \in Seq(Seq(Pairs))
  PROVE  \E g : Joins(g, parts)
  <1> DEFINE n == Len(parts)
             D == 1..n
             V == Seq(Pairs)
             pick == [s \in SUBSET D |-> Max(s)]
             step == [x \in D \X V |-> x[2] \o parts[x[1]]]
  <1>1. n \in Nat /\ IsFiniteSet(D) /\ <<>> \in V
    BY FS_Interval
  <1>2. ASSUME NEW s \in SUBSET D, s # {} PROVE pick[s] \in s /\ pick[s] = Max(s)
    <2>1. s \in SUBSET Int
      BY <1>1
    <2> HIDE DEF D
    <2>2. IsFiniteSet(s)
      BY <1>1, FS_Subset
    <2>3. QED
      BY <1>2, <2>1, <2>2, GreatestOf
  <1>3. step \in [D \X V -> V]
    <2>1. ASSUME NEW i \in D, NEW rows \in V PROVE rows \o parts[i] \in V
      OBVIOUS
    <2> HIDE DEF V, D
    <2>2. \A x \in D \X V : x[1] \in D /\ x[2] \in V
      OBVIOUS
    <2>3. QED
      BY <2>1, <2>2
  <1>4. \A i \in D, rows \in V : step[i, rows] = rows \o parts[i]
    OBVIOUS
  <1> HIDE DEF V, pick, step
  <1>5. PICK f \in [SUBSET D -> V] : Folds(f, D, pick, <<>>, step)
    <2> HIDE DEF D
    <2>1. QED
      BY <1>1, <1>2, <1>3, FoldExists
  <1> DEFINE g == [i \in 1..n |-> f[1..i]]
  <1>6. ASSUME NEW i \in D PROVE f[1..i] = f[1..(i - 1)] \o parts[i] /\ f[1..(i - 1)] \in V
    <2> DEFINE s == 1..i
               r == 1..(i - 1)
    <2>1. s \in SUBSET D /\ s # {} /\ r \in SUBSET D
      <3>1. i \in 1..i
        BY <1>1
      <3>2. s \subseteq D /\ r \subseteq D
        BY <1>1
      <3>3. QED
        BY <3>1, <3>2
    <2>2. Max(s) = i /\ s \ {i} = r
      <3>1. i - 1 \in Nat /\ (i - 1) + 1 = i
        BY <1>1
      <3>2. QED
        BY <3>1, GreatestOfInterval
    <2> HIDE DEF D, s, r
    <2>3. f[s] = step[pick[s], f[s \ {pick[s]}]]
      BY <1>5, <2>1, Zenon DEF Folds
    <2>4. pick[s] = i
      BY <1>2, <2>1, <2>2
    <2>5. f[r] \in V
      BY <1>5, <2>1
    <2>6. QED
      BY <1>4, <2>2, <2>3, <2>4, <2>5 DEF s, r
  <1>7. ASSUME NEW i \in D
        PROVE  g[i] = IF i = 1 THEN parts[i] ELSE g[i - 1] \o parts[i]
    <2>1. CASE i = 1
      <3>1. 1..(i - 1) = {}
        BY <2>1
      <3>2. f[{}] = <<>>
        BY <1>5, Zenon DEF Folds
      <3>3. <<>> \o parts[i] = parts[i]
        OBVIOUS
      <3>4. QED
        BY <1>6, <2>1, <3>1, <3>2, <3>3
    <2>2. CASE i # 1
      <3>1. i - 1 \in D
        BY <1>1, <2>2
      <3>2. QED
        BY <1>6, <2>2, <3>1
    <2>3. QED
      BY <2>1, <2>2
  <1>8. Joins(g, parts)
    <2> DEFINE h == [i \in 1..n |-> IF i = 1 THEN parts[i] ELSE g[i - 1] \o parts[i]]
    <2>1. g = h
      BY <1>7
    <2> HIDE DEF g
    <2>2. QED
      BY <2>1 DEF Joins
  <1>9. QED
    BY <1>8

LEMMA FlatIsJoined ==
  ASSUME NEW parts \in Seq(Seq(Pairs)), parts # <<>>
  PROVE  \E g : Joins(g, parts) /\ FlattenSeq(parts) = g[Len(parts)]
  <1> DEFINE g == CHOOSE h : Joins(h, parts)
  <1>1. Joins(g, parts)
    BY JoinExists
  <1>2. Len(parts) # 0
    OBVIOUS
  <1>3. FlattenSeq(parts) = g[Len(parts)]
    BY <1>2, Zenon DEF FlattenSeq, Joins
  <1>4. QED
    BY <1>1, <1>3

LEMMA CardsJoined ==
  ASSUME NEW rows \in Seq(Pairs), Sorted(rows), NEW cards, Made(cards, rows, Len(rows))
  PROVE  FlattenSeq([c \in DOMAIN cards |-> cards[c].images]) = rows
  <1> DEFINE n == Len(rows)
             L == Len(cards)
             parts == [c \in DOMAIN cards |-> cards[c].images]
             All == ToSet(rows)
             From(u) == {r \in All : r[1] >= u}
  <1>1. /\ n \in Nat /\ L \in Nat /\ DOMAIN rows = 1..n /\ DOMAIN cards = 1..L
        /\ cards \in Seq(Card)
    BY DEF Made
  <1>2. \A b, c \in 1..L : b < c => cards[b].upload > cards[c].upload
    BY DEF Made, Newest
  <1>3. \A c \in 1..L : /\ cards[c].upload \in Nat /\ cards[c].images \in Seq(Pairs)
                        /\ Sorted(cards[c].images)
                        /\ ToSet(cards[c].images) = Had(rows, n, cards[c].upload)
    <2>1. \A c \in 1..L : cards[c] \in Card
      BY <1>1
    <2>2. QED
      BY <2>1, CardFields DEF Made
  <1>4. /\ parts \in Seq(Seq(Pairs)) /\ Len(parts) = L
        /\ \A c \in 1..L : parts[c] = cards[c].images
    BY <1>1, <1>3
  <1>5. \A r \in All : /\ r \in Pairs /\ r[1] \in Nat
                       /\ \E c \in 1..L : cards[c].upload = r[1]
    <2>1. \A j \in 1..n : /\ rows[j] \in Pairs
                          /\ \E c \in 1..L : cards[c].upload = rows[j][1]
      BY <1>1 DEF Made
    <2>2. All = {rows[j] : j \in 1..n}
      BY <1>1 DEF ToSet
    <2>3. \A r \in Pairs : r[1] \in Nat
      BY DEF Pairs
    <2> HIDE DEF All
    <2>4. QED
      BY <2>1, <2>2, <2>3
  <1>6. \A u : Had(rows, n, u) = {r \in All : r[1] = u}
    BY <1>1 DEF Had, ToSet
  <1> HIDE DEF n, L, parts, All
  <1>7. CASE L = 0
    <2>1. n = 0
      <3>1. \A j \in 1..n : FALSE
        BY <1>1, <1>7 DEF Made, n, L
      <3>2. QED
        BY <1>1, <3>1
    <2>2. parts = <<>> /\ rows = <<>>
      BY <1>1, <1>4, <1>7, <2>1 DEF n
    <2>3. QED
      BY <1>4, <1>7, <2>2 DEF FlattenSeq, parts
  <1>8. CASE L # 0
    <2>1. parts # <<>> /\ L >= 1
      BY <1>1, <1>4, <1>8
    <2>2. PICK g : Joins(g, parts) /\ FlattenSeq(parts) = g[L]
      BY <1>4, <2>1, FlatIsJoined
    <2>3. \A i \in 1..L : g[i] = IF i = 1 THEN parts[i] ELSE g[i - 1] \o parts[i]
      BY <1>4, <2>2, Zenon DEF Joins
    <2> DEFINE Done(k) == /\ g[k] \in Seq(Pairs) /\ Sorted(g[k])
                          /\ ToSet(g[k]) = From(cards[k].upload)
               Q == {k \in Nat : k + 1 <= L => Done(k + 1)}
    <2>4. 0 \in Q
      <3>1. 1 \in 1..L /\ g[1] = cards[1].images
        BY <1>1, <1>4, <2>1, <2>3
      <3>2. \A r \in All : r[1] >= cards[1].upload => r[1] = cards[1].upload
        <4>1. ASSUME NEW r \in All, r[1] >= cards[1].upload PROVE r[1] = cards[1].upload
          <5>1. PICK c \in 1..L : cards[c].upload = r[1]
            BY <1>5
          <5>2. c = 1 \/ (1 < c /\ cards[1].upload > cards[c].upload)
            BY <1>1, <1>2, <3>1
          <5>3. cards[c].upload \in Nat /\ cards[1].upload \in Nat
            BY <1>3, <3>1
          <5>4. QED
            BY <4>1, <5>1, <5>2, <5>3
        <4>2. QED
          BY <4>1
      <3>3. From(cards[1].upload) = Had(rows, n, cards[1].upload)
        BY <1>3, <1>6, <3>1, <3>2
      <3>4. Done(0 + 1)
        BY <1>3, <3>1, <3>3
      <3>5. QED
        BY <3>4
    <2>5. ASSUME NEW k \in Nat, k \in Q PROVE k + 1 \in Q
      <3>1. SUFFICES ASSUME (k + 1) + 1 <= L PROVE Done((k + 1) + 1)
        OBVIOUS
      <3> DEFINE b == k + 1
                 c == (k + 1) + 1
                 u == cards[b].upload
                 v == cards[c].upload
      <3>2. b \in 1..L /\ c \in 1..L /\ c # 1 /\ c - 1 = b /\ b < c
        BY <1>1, <3>1
      <3>3. Done(b)
        BY <1>1, <2>5, <3>1
      <3>4. u \in Nat /\ v \in Nat /\ u > v
        BY <1>2, <1>3, <3>2
      <3> HIDE DEF Q, b, c
      <3>5. g[c] = g[b] \o cards[c].images
        BY <1>4, <2>3, <3>2
      <3>6. \A r \in All : r[1] >= v <=> (r[1] >= u \/ r[1] = v)
        <4>1. ASSUME NEW r \in All, r[1] >= v PROVE r[1] >= u \/ r[1] = v
          <5>1. PICK d \in 1..L : cards[d].upload = r[1]
            BY <1>5
          <5>2. d < b \/ d = b \/ d = c \/ d > c
            BY <1>1, <3>2
          <5>3. /\ d < b => cards[d].upload > u
                /\ d > c => v > cards[d].upload
            BY <1>2, <3>2
          <5>4. QED
            BY <1>3, <3>4, <4>1, <5>1, <5>2, <5>3
        <4>2. \A r \in All : r[1] >= u \/ r[1] = v => r[1] >= v
          BY <1>5, <3>4
        <4>3. QED
          BY <4>1, <4>2
      <3>7. ToSet(cards[c].images) = {r \in All : r[1] = v}
        BY <1>3, <1>6, <3>2
      <3>8. \A r \in ToSet(g[b]), s \in ToSet(cards[c].images) : Rank(r, s)
        <4>1. \A r \in ToSet(g[b]) : r[1] >= u /\ r[1] \in Nat
          BY <1>5, <3>3
        <4>2. \A s \in ToSet(cards[c].images) : s[1] = v
          BY <3>7
        <4>3. QED
          BY <3>4, <4>1, <4>2 DEF Rank
      <3> DEFINE first == g[b]
                 last == cards[c].images
      <3>9. first \in Seq(Pairs) /\ last \in Seq(Pairs) /\ Sorted(first) /\ Sorted(last)
        BY <1>3, <3>2, <3>3
      <3>10. \A r \in ToSet(first), s \in ToSet(last) : Rank(r, s)
        BY <3>8
      <3>11. ToSet(first) = From(u) /\ ToSet(last) = {r \in All : r[1] = v}
        BY <3>3, <3>7
      <3>12. g[c] = first \o last
        BY <3>5
      <3> HIDE DEF first, last, u, v
      <3>13. /\ first \o last \in Seq(Pairs) /\ Sorted(first \o last)
             /\ ToSet(first \o last) = ToSet(first) \cup ToSet(last)
        BY <3>9, <3>10, SortedJoin
      <3>14. ToSet(first) \cup ToSet(last) = From(v)
        BY <3>6, <3>11
      <3>15. QED
        BY <3>12, <3>13, <3>14 DEF c, v
    <2>6. Q = Nat
      <3> HIDE DEF Q
      <3>1. Q \in SUBSET Nat
        BY DEF Q
      <3>2. QED
        BY <2>4, <2>5, <3>1, AllNumbers
    <2>7. Done(L)
      <3>1. L - 1 \in Nat /\ (L - 1) + 1 = L
        BY <1>1, <2>1
      <3>2. L - 1 \in Q
        BY <2>6, <3>1
      <3>3. QED
        BY <1>1, <3>1, <3>2
    <2>8. From(cards[L].upload) = All
      <3>1. ASSUME NEW r \in All PROVE r[1] >= cards[L].upload
        <4>1. PICK c \in 1..L : cards[c].upload = r[1]
          BY <1>5
        <4>2. L \in 1..L /\ (c = L \/ c < L)
          BY <1>1, <2>1
        <4>3. c < L => cards[c].upload > cards[L].upload
          BY <1>2, <4>2
        <4>4. QED
          BY <1>3, <4>1, <4>2, <4>3
      <3>2. QED
        BY <3>1
    <2>9. IsFiniteSet(All)
      <3>1. IsFiniteSet(1..n)
        BY <1>1, FS_Interval
      <3>2. rows \in Surjection(1..n, All)
        BY <1>1 DEF ToSet, All, Surjection
      <3>3. QED
        BY <3>1, <3>2, FS_Surjection
    <2>10. g[L] = OrderBy(All, Ranks(All))
      <3>1. g[L] \in Seq(Pairs) /\ Sorted(g[L]) /\ ToSet(g[L]) = All
        BY <2>7, <2>8
      <3>2. QED
        BY <2>9, <3>1, SortedIsOrder
    <2>11. rows = OrderBy(All, Ranks(All))
      BY <2>9, SortedIsOrder DEF All
    <2>12. QED
      BY <2>2, <2>10, <2>11 DEF parts
  <1>9. QED
    BY <1>7, <1>8

-----------------------------------------------------------------------------
(* The gallery of a keyword k, the page of its uploads of which fewer than *)
(* limit are newer, and the rows of these.                                 *)
PublishedUnder(U, up, k) == {t \in 1..U : up[t].k = k}
Newer(U, up, k, t) == {s \in 1..U : up[s].k = k /\ s > t}
Page(U, up, k, limit) ==
    {t \in 1..U : up[t].k = k /\ Cardinality(Newer(U, up, k, t)) < limit}
Given(U, I, up, k) == {i \in (1..U) \X (1..I) : up[i[1]].k = k /\ i[2] <= up[i[1]].count}
Left(U, I, up, k, gone) == Given(U, I, up, k) \ gone
PageRows(U, I, up, k, gone, limit) ==
    {i \in Left(U, I, up, k, gone) : i[1] \in Page(U, up, k, limit)}
RowsOf(U, I, up, gone, t) ==
    {i \in ((1..U) \X (1..I)) \ gone : i[1] = t /\ i[2] <= up[t].count}
InRank(S) == OrderBy(S, Ranks(S))

LEMMA RowSets ==
  ASSUME NEW U \in Nat, NEW I \in Nat, NEW up, NEW k, NEW gone, NEW limit, NEW t
  PROVE  /\ IsFiniteSet(Given(U, I, up, k)) /\ Given(U, I, up, k) \in SUBSET Pairs
         /\ IsFiniteSet(Left(U, I, up, k, gone)) /\ Left(U, I, up, k, gone) \in SUBSET Pairs
         /\ Cardinality(Left(U, I, up, k, gone)) <= Cardinality(Given(U, I, up, k))
         /\ IsFiniteSet(PageRows(U, I, up, k, gone, limit))
         /\ PageRows(U, I, up, k, gone, limit) \in SUBSET Pairs
         /\ IsFiniteSet(RowsOf(U, I, up, gone, t)) /\ RowsOf(U, I, up, gone, t) \in SUBSET Pairs
  <1> DEFINE D == (1..U) \X (1..I)
             G == Given(U, I, up, k)
             H == Left(U, I, up, k, gone)
             P == PageRows(U, I, up, k, gone, limit)
             T == RowsOf(U, I, up, gone, t)
  <1>1. IsFiniteSet(D) /\ D \subseteq Pairs
    <2>1. IsFiniteSet(1..U) /\ IsFiniteSet(1..I)
      BY FS_Interval
    <2>2. IsFiniteSet(D)
      BY <2>1, FS_Product
    <2>3. QED
      BY <2>2 DEF Pairs
  <1>2. G \in SUBSET D /\ H \in SUBSET G /\ P \in SUBSET H /\ T \in SUBSET D
    BY DEF Given, Left, PageRows, RowsOf
  <1> HIDE DEF D, G, H, P, T
  <1>3. IsFiniteSet(G) /\ IsFiniteSet(T)
    BY <1>1, <1>2, FS_Subset
  <1>4. IsFiniteSet(H) /\ Cardinality(H) <= Cardinality(G)
    BY <1>2, <1>3, FS_Subset
  <1>5. IsFiniteSet(P)
    BY <1>2, <1>4, FS_Subset
  <1>6. QED
    BY <1>1, <1>2, <1>3, <1>4, <1>5 DEF G, H, P, T

(* A list as long as the number of images has them all.                    *)
LEMMA ListedAll ==
  ASSUME NEW U \in Nat, NEW I \in Nat, NEW up, NEW k, NEW gone,
         NEW i \in Left(U, I, up, k, gone)
  PROVE  Cardinality({j \in Left(U, I, up, k, gone) : Rank(j, i)})
           < Cardinality(Given(U, I, up, k))
  <1> DEFINE H == Left(U, I, up, k, gone)
             n == Cardinality(Given(U, I, up, k))
             c == Cardinality(H)
             a == Cardinality(Ahead(H, Ranks(H), i))
  <1>1. IsFiniteSet(H) /\ H \in SUBSET Pairs /\ c <= n /\ IsFiniteSet(Given(U, I, up, k))
    BY RowSets
  <1>2. n \in Nat /\ c \in Nat
    BY <1>1, FS_CardinalityType
  <1>3. IsOrder(H, Ranks(H))
    BY <1>1, RanksAreOrder
  <1>4. {j \in H : Rank(j, i)} = Ahead(H, Ranks(H), i)
    BY DEF Ahead, Ranks
  <1> HIDE DEF H
  <1>5. a \in 0..(c - 1)
    BY <1>1, <1>3, AheadCounted DEF H
  <1> HIDE DEF n, c, a
  <1>6. a < n
    BY <1>1, <1>2, <1>5
  <1>7. QED
    BY <1>4, <1>6 DEF a, n, H

(* A page has no more uploads than it may.                                 *)
LEMMA PageLimited ==
  ASSUME NEW U \in Nat, NEW up, NEW k, NEW limit \in Nat
  PROVE  /\ IsFiniteSet(Page(U, up, k, limit))
         /\ Cardinality(Page(U, up, k, limit)) \in Nat
         /\ Cardinality(Page(U, up, k, limit)) <= limit
  <1> DEFINE S == PublishedUnder(U, up, k)
             R == {p \in S \X S : p[1] > p[2]}
             P == Page(U, up, k, limit)
             D == 1..U
  <1>1. S \in SUBSET D /\ S \in SUBSET Nat /\ P \in SUBSET S
    BY DEF PublishedUnder, Page
  <1>2. IsFiniteSet(D)
    BY FS_Interval
  <1>3. \A s, t \in S : <<s, t>> \in R <=> s > t
    OBVIOUS
  <1>4. ASSUME NEW t \in S PROVE Ahead(S, R, t) = Newer(U, up, k, t)
    BY <1>3, <1>4 DEF Ahead, Newer, PublishedUnder
  <1>5. \A t \in P : Cardinality(Newer(U, up, k, t)) < limit
    BY DEF Page
  <1> HIDE DEF S, R, P, D
  <1>6. IsFiniteSet(S)
    BY <1>1, <1>2, FS_Subset
  <1>7. IsOrder(S, R)
    BY <1>1, <1>3 DEF IsOrder
  <1>8. \A t \in P : Cardinality(Ahead(S, R, t)) < limit
    BY <1>1, <1>4, <1>5
  <1>9. IsFiniteSet(P) /\ Cardinality(P) <= limit
    BY <1>1, <1>6, <1>7, <1>8, PageCounted
  <1>10. Cardinality(P) \in Nat
    BY <1>9, FS_CardinalityType
  <1>11. QED
    BY <1>9, <1>10 DEF P

(* The cards of the page's rows are the gallery, cut into uploads.         *)
LEMMA PageCut ==
  ASSUME NEW U \in Nat, NEW I \in Nat, NEW up, NEW k, NEW gone, NEW limit \in Nat,
         NEW rows, rows = InRank(PageRows(U, I, up, k, gone, limit)),
         NEW cards, Made(cards, rows, Len(rows))
  PROVE  /\ FlattenSeq([c \in DOMAIN cards |-> cards[c].images])
              = InRank({i \in Left(U, I, up, k, gone) :
                          \E c \in DOMAIN cards : cards[c].upload = i[1]})
         /\ \A c \in DOMAIN cards :
              cards[c].images = InRank(RowsOf(U, I, up, gone, cards[c].upload))
         /\ \A t \in Page(U, up, k, limit) :
              RowsOf(U, I, up, gone, t) # {} => \E c \in DOMAIN cards : cards[c].upload = t
         /\ Len(cards) <= limit
  <1> DEFINE P == PageRows(U, I, up, k, gone, limit)
             n == Len(rows)
             L == Len(cards)
             Q == Page(U, up, k, limit)
  <1>1. IsFiniteSet(P) /\ P \in SUBSET Pairs
    BY RowSets
  <1> HIDE DEF P
  <1>2. rows \in Seq(Pairs) /\ Sorted(rows) /\ ToSet(rows) = P
    BY <1>1, OrderIsSorted DEF InRank, P
  <1>3. n \in Nat /\ DOMAIN rows = 1..n /\ P = {rows[j] : j \in 1..n}
    BY <1>2 DEF ToSet
  <1>4. L \in Nat /\ DOMAIN cards = 1..L /\ \A c \in 1..L : cards[c] \in Card
    BY DEF Made
  <1>5. \A c \in 1..L : /\ cards[c].images \in Seq(Pairs) /\ Sorted(cards[c].images)
                        /\ ToSet(cards[c].images) = {i \in P : i[1] = cards[c].upload}
                        /\ \E i \in P : i[1] = cards[c].upload
    <2>1. ASSUME NEW c \in 1..L
          PROVE  /\ cards[c].images \in Seq(Pairs) /\ Sorted(cards[c].images)
                 /\ ToSet(cards[c].images) = Had(rows, n, cards[c].upload)
                 /\ \E j \in 1..n : rows[j][1] = cards[c].upload
      BY <1>4, CardFields DEF Made
    <2>2. \A u : Had(rows, n, u) = {i \in P : i[1] = u}
      BY <1>3 DEF Had
    <2>3. QED
      BY <1>3, <2>1, <2>2
  <1>6. \A i \in P : \E c \in 1..L : cards[c].upload = i[1]
    <2>1. \A j \in 1..n : \E c \in 1..L : cards[c].upload = rows[j][1]
      BY DEF Made
    <2>2. QED
      BY <1>3, <2>1
  <1>7. /\ \A i : i \in P <=> (i \in Left(U, I, up, k, gone) /\ i[1] \in Q)
        /\ \A t \in Q : RowsOf(U, I, up, gone, t) = {i \in P : i[1] = t}
    BY DEF P, PageRows, Left, Given, RowsOf, Page
  <1>8. \A c \in 1..L : cards[c].upload \in Q
    BY <1>5, <1>7
  <1> HIDE DEF n, L, Q
  <1>9. FlattenSeq([c \in DOMAIN cards |-> cards[c].images])
          = InRank({i \in Left(U, I, up, k, gone) :
                      \E c \in DOMAIN cards : cards[c].upload = i[1]})
    <2>1. {i \in Left(U, I, up, k, gone) : \E c \in DOMAIN cards : cards[c].upload = i[1]} = P
      BY <1>4, <1>6, <1>7, <1>8
    <2>2. FlattenSeq([c \in DOMAIN cards |-> cards[c].images]) = rows
      BY <1>2, CardsJoined
    <2>3. QED
      BY <2>1, <2>2 DEF P
  <1>10. ASSUME NEW c \in 1..L
         PROVE  cards[c].images = InRank(RowsOf(U, I, up, gone, cards[c].upload))
    <2> DEFINE S == RowsOf(U, I, up, gone, cards[c].upload)
               images == cards[c].images
    <2>1. ToSet(images) = S
      BY <1>5, <1>7, <1>8
    <2>2. IsFiniteSet(S)
      BY RowSets
    <2>3. images \in Seq(Pairs) /\ Sorted(images)
      BY <1>5
    <2> HIDE DEF S, images
    <2>4. images = OrderBy(S, Ranks(S))
      BY <2>1, <2>2, <2>3, SortedIsOrder
    <2>5. QED
      BY <2>4 DEF S, images, InRank
  <1>11. ASSUME NEW t \in Q, RowsOf(U, I, up, gone, t) # {}
         PROVE  \E c \in 1..L : cards[c].upload = t
    BY <1>6, <1>7, <1>11
  <1>12. L <= limit
    <2> DEFINE D == 1..L
               f == [c \in D |-> cards[c].upload]
    <2>1. \A b, c \in D : b < c => f[b] > f[c]
      BY DEF Made, Newest, L
    <2>2. \A c \in D : f[c] \in Nat
      BY <1>4, CardFields
    <2>3. \A b, c \in D : f[b] = f[c] => b = c
      <3>1. ASSUME NEW b \in D, NEW c \in D, f[b] = f[c] PROVE b = c
        <4>1. ~(b < c) /\ ~(c < b)
          <5> HIDE DEF f
          <5>1. QED
            BY <2>1, <2>2, <3>1
        <4>2. b \in Nat /\ c \in Nat
          BY <1>4
        <4>3. QED
          BY <4>1, <4>2
      <3>2. QED
        BY <3>1
    <2>4. f \in [D -> Q]
      BY <1>8
    <2> HIDE DEF f
    <2>5. f \in Injection(D, Q)
      BY <2>3, <2>4 DEF Injection, IsInjective
    <2>6. IsFiniteSet(Q) /\ Cardinality(Q) \in Nat /\ Cardinality(Q) <= limit
      BY PageLimited DEF Q
    <2>7. Cardinality(D) <= Cardinality(Q)
      <3> HIDE DEF D
      <3>1. QED
        BY <2>5, <2>6, FS_Injection
    <2>8. Cardinality(D) = L
      BY <1>4, FS_Interval
    <2>9. QED
      BY <1>4, <2>6, <2>7, <2>8
  <1>13. QED
    BY <1>4, <1>9, <1>10, <1>11, <1>12 DEF L, Q
=============================================================================
