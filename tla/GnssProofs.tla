------------------------------ MODULE GnssProofs ------------------------------
(***************************************************************************)
(* Safety of the positioning service's list for any number of threads and  *)
(* of nodes, with both tasks in the list at any time.  What GnssOverlap,   *)
(* GnssWalk and GnssRestart.cfg show is lost takes one of the two meetings *)
(* of Race, or a second session.                                           *)
(***************************************************************************)
EXTENDS Gnss, FiniteSetTheorems, TLAPS

-----------------------------------------------------------------------------
(* Induction over the natural numbers, with the property as a set.          *)

LEMMA LeastNumber ==
    ASSUME NEW T, T \subseteq Nat, T # {}
    PROVE  \E x \in T : \A y \in T : x <= y
<1> DEFINE R == OpToRel(<, Nat)
<1>1. IsWellFoundedOn(R, Nat)
  BY NatLessThanWellFounded
<1>2. \A x, y \in Nat : x < y => <<x, y>> \in R
  BY DEF OpToRel
<1> HIDE DEF R
<1>3. PICK x \in T : \A y \in T : ~ (<<y, x>> \in R)
  BY <1>1, WFMin
<1>4. \A y \in T : y \in Nat /\ x \in Nat /\ ~(y < x)
  BY <1>2, <1>3
<1>5. \A y \in T : x <= y
  BY <1>4
<1>6. QED
  BY <1>5

LEMMA Induction ==
    ASSUME NEW S, 0 \in S, \A n \in Nat : n \in S => n + 1 \in S
    PROVE  Nat \subseteq S
<1> SUFFICES ASSUME Nat \ S # {}
             PROVE  FALSE
  OBVIOUS
<1>1. PICK x \in Nat \ S : \A y \in Nat \ S : x <= y
  BY LeastNumber
<1>2. x - 1 \in Nat /\ x = (x - 1) + 1
  BY <1>1
<1>3. x - 1 \notin S
  BY <1>1, <1>2
<1>4. QED
  BY <1>1, <1>2, <1>3

-----------------------------------------------------------------------------
(* Lists.  The nodes s[1] .. s[k] are linked by nx in this order, from the  *)
(* pointer `from` to the end.                                               *)
Linked(nx, from, s, k) ==
    /\ k \in Nat /\ s \in [1 .. k -> Nodes]
    /\ \A i, j \in 1 .. k : s[i] = s[j] => i = j
    /\ from = IF k = 0 THEN Null ELSE s[1]
    /\ \A i \in 1 .. k : nx[s[i]] = IF i = k THEN Null ELSE s[i + 1]

(* The nodes of S, and no other, are linked by nx from `from` to the end.   *)
IsList(nx, from, S) ==
    \E k \in Nat : \E s \in [1 .. k -> Nodes] :
        Linked(nx, from, s, k) /\ S = {s[i] : i \in 1 .. k}

LEMMA ListNodes ==
    ASSUME NEW nx, NEW from, NEW S, IsList(nx, from, S)
    PROVE  /\ S \subseteq Nodes
           /\ from = Null <=> S = {}
           /\ from # Null => from \in S
           /\ \A n \in S : nx[n] = Null \/ nx[n] \in S
<1>1. PICK k \in Nat : \E s \in [1 .. k -> Nodes] :
                         Linked(nx, from, s, k) /\ S = {s[i] : i \in 1 .. k}
  BY DEF IsList
<1>2. PICK s \in [1 .. k -> Nodes] : Linked(nx, from, s, k) /\ S = {s[i] : i \in 1 .. k}
  BY <1>1
<1>3. S \subseteq Nodes
  BY <1>2
<1>4. Null \notin Nodes
  BY DEF Null, Nodes
<1>5. from = Null <=> k = 0
  BY <1>2, <1>4 DEF Linked
<1>6. from = Null <=> S = {}
  <2>1. k = 0 => 1 .. k = {}
    OBVIOUS
  <2>2. k # 0 => 1 \in 1 .. k
    OBVIOUS
  <2>3. QED
    BY <1>2, <1>5, <2>1, <2>2
<1>7. from # Null => from \in S
  <2>1. k # 0 => 1 \in 1 .. k
    OBVIOUS
  <2>2. QED
    BY <1>2, <1>5, <2>1 DEF Linked
<1>8. \A i \in 1 .. k : nx[s[i]] = Null \/ nx[s[i]] \in S
  <2>1. \A i \in 1 .. k : i # k => i + 1 \in 1 .. k
    OBVIOUS
  <2>2. QED
    BY <1>2, <2>1 DEF Linked
<1>9. QED
  BY <1>2, <1>3, <1>6, <1>7, <1>8

(* Only the links of its nodes matter. *)
LEMMA ListKept ==
    ASSUME NEW nx, NEW ny, NEW from, NEW S, IsList(nx, from, S),
           \A n \in S : ny[n] = nx[n]
    PROVE  IsList(ny, from, S)
<1>1. PICK k \in Nat : \E s \in [1 .. k -> Nodes] :
                         Linked(nx, from, s, k) /\ S = {s[i] : i \in 1 .. k}
  BY DEF IsList
<1>2. PICK s \in [1 .. k -> Nodes] : Linked(nx, from, s, k) /\ S = {s[i] : i \in 1 .. k}
  BY <1>1
<1>3. \A i \in 1 .. k : ny[s[i]] = nx[s[i]]
  BY <1>2
<1>4. Linked(ny, from, s, k)
  BY <1>2, <1>3 DEF Linked
<1>5. QED
  BY <1>2, <1>4 DEF IsList

LEMMA EmptyList ==
    ASSUME NEW nx
    PROVE  IsList(nx, Null, {})
<1> DEFINE s == [i \in 1 .. 0 |-> 1]
<1>1. s \in [1 .. 0 -> Nodes] /\ {s[i] : i \in 1 .. 0} = {}
  OBVIOUS
<1>2. Linked(nx, Null, s, 0)
  BY <1>1 DEF Linked
<1> HIDE DEF s
<1>3. QED
  BY <1>1, <1>2 DEF IsList

(* Without its first node. *)
LEMMA RestOfList ==
    ASSUME NEW nx, NEW from, NEW S, IsList(nx, from, S), from # Null
    PROVE  IsList(nx, nx[from], S \ {from})
<1>1. PICK k \in Nat : \E s \in [1 .. k -> Nodes] :
                         Linked(nx, from, s, k) /\ S = {s[i] : i \in 1 .. k}
  BY DEF IsList
<1>2. PICK s \in [1 .. k -> Nodes] : Linked(nx, from, s, k) /\ S = {s[i] : i \in 1 .. k}
  BY <1>1
<1>3. k # 0 /\ from = s[1] /\ 1 \in 1 .. k /\ k - 1 \in Nat
  BY <1>2 DEF Linked
<1> DEFINE r == [i \in 1 .. k - 1 |-> s[i + 1]]
<1>4. \A i \in 1 .. k - 1 : i \in 1 .. k /\ i + 1 \in 1 .. k
  BY <1>3
<1>5. r \in [1 .. k - 1 -> Nodes] /\ \A i \in 1 .. k - 1 : r[i] = s[i + 1]
  BY <1>2, <1>4
<1> HIDE DEF r
<1>6. Linked(nx, nx[from], r, k - 1)
  <2>1. \A i, j \in 1 .. k - 1 : r[i] = r[j] => i = j
    <3>1. \A i, j \in 1 .. k - 1 : r[i] = r[j] => i + 1 = j + 1
      BY <1>2, <1>4, <1>5 DEF Linked
    <3>2. QED
      BY <3>1
  <2>2. nx[from] = IF k - 1 = 0 THEN Null ELSE r[1]
    <3>1. nx[s[1]] = IF 1 = k THEN Null ELSE s[2]
      BY <1>2, <1>3 DEF Linked
    <3>2. k # 1 => 1 \in 1 .. k - 1 /\ 1 + 1 = 2
      BY <1>3
    <3>3. QED
      BY <1>3, <1>5, <3>1, <3>2
  <2>3. \A i \in 1 .. k - 1 : nx[r[i]] = IF i = k - 1 THEN Null ELSE r[i + 1]
    <3> SUFFICES ASSUME NEW i \in 1 .. k - 1
                 PROVE  nx[r[i]] = IF i = k - 1 THEN Null ELSE r[i + 1]
      OBVIOUS
    <3>1. nx[s[i + 1]] = IF i + 1 = k THEN Null ELSE s[i + 1 + 1]
      BY <1>2, <1>4 DEF Linked
    <3>2. i # k - 1 => i + 1 \in 1 .. k - 1
      BY <1>3
    <3>3. QED
      BY <1>3, <1>5, <3>1, <3>2
  <2>4. QED
    BY <1>3, <1>5, <2>1, <2>2, <2>3 DEF Linked
<1>7. S \ {from} = {r[i] : i \in 1 .. k - 1}
  <2>1. ASSUME NEW n \in S \ {from} PROVE n \in {r[i] : i \in 1 .. k - 1}
    <3>1. PICK i \in 1 .. k : n = s[i]
      BY <1>2
    <3>2. i # 1
      BY <1>3, <3>1
    <3>3. i - 1 \in 1 .. k - 1 /\ (i - 1) + 1 = i
      BY <3>2
    <3>4. QED
      BY <1>5, <3>1, <3>3
  <2>2. ASSUME NEW i \in 1 .. k - 1 PROVE r[i] \in S \ {from}
    <3>1. i + 1 # 1 /\ r[i] = s[i + 1] /\ i + 1 \in 1 .. k
      BY <1>4, <1>5
    <3>2. s[i + 1] # s[1]
      BY <1>2, <1>3, <3>1 DEF Linked
    <3>3. QED
      BY <1>2, <1>3, <3>1, <3>2
  <2>3. QED
    BY <2>1, <2>2
<1>8. QED
  BY <1>3, <1>5, <1>6, <1>7 DEF IsList

(* With one more node in front. *)
LEMMA ListPushed ==
    ASSUME NEW nx, NEW from, NEW S, IsList(nx, from, S),
           NEW n \in Nodes, n \notin S, nx[n] = from
    PROVE  IsList(nx, n, S \union {n})
<1>1. PICK k \in Nat : \E s \in [1 .. k -> Nodes] :
                         Linked(nx, from, s, k) /\ S = {s[i] : i \in 1 .. k}
  BY DEF IsList
<1>2. PICK s \in [1 .. k -> Nodes] : Linked(nx, from, s, k) /\ S = {s[i] : i \in 1 .. k}
  BY <1>1
<1> DEFINE r == [i \in 1 .. k + 1 |-> IF i = 1 THEN n ELSE s[i - 1]]
<1>3. \A i \in 1 .. k + 1 : i = 1 \/ i - 1 \in 1 .. k
  OBVIOUS
<1>4. \A i \in 1 .. k : i + 1 \in 1 .. k + 1 /\ i + 1 # 1 /\ (i + 1) - 1 = i
  OBVIOUS
<1>5. /\ r \in [1 .. k + 1 -> Nodes]
      /\ r[1] = n /\ \A i \in 1 .. k : r[i + 1] = s[i]
  BY <1>2, <1>3, <1>4
<1> HIDE DEF r
<1>6. \A i \in 1 .. k + 1 : i = 1 \/ \E j \in 1 .. k : i = j + 1
  BY <1>3
<1>7. {r[i] : i \in 1 .. k + 1} = S \union {n}
  <2>1. 1 \in 1 .. k + 1
    OBVIOUS
  <2>2. QED
    BY <1>2, <1>4, <1>5, <1>6, <2>1
<1>8. Linked(nx, n, r, k + 1)
  <2>1. \A i, j \in 1 .. k + 1 : r[i] = r[j] => i = j
    <3>1. \A i \in 1 .. k : r[i + 1] \in S
      BY <1>2, <1>5
    <3>2. \A i, j \in 1 .. k : r[i + 1] = r[j + 1] => i = j
      BY <1>2, <1>5 DEF Linked
    <3>3. ASSUME NEW i \in 1 .. k + 1, NEW j \in 1 .. k + 1, r[i] = r[j]
          PROVE  i = j
      <4>1. CASE i = 1 \/ j = 1
        BY <1>5, <1>6, <3>1, <3>3, <4>1
      <4>2. CASE i # 1 /\ j # 1
        BY <1>6, <3>2, <3>3, <4>2
      <4>3. QED
        BY <4>1, <4>2
    <3>4. QED
      BY <3>3
  <2>2. k + 1 \in Nat /\ k + 1 # 0
    OBVIOUS
  <2>3. \A i \in 1 .. k + 1 : nx[r[i]] = IF i = k + 1 THEN Null ELSE r[i + 1]
    <3>1. nx[r[1]] = IF 1 = k + 1 THEN Null ELSE r[1 + 1]
      <4>1. CASE k = 0
        BY <1>2, <1>5, <4>1 DEF Linked
      <4>2. CASE k # 0
        <5>1. 1 \in 1 .. k /\ 1 # k + 1
          BY <4>2
        <5>2. QED
          BY <1>2, <1>5, <4>2, <5>1 DEF Linked
      <4>3. QED
        BY <4>1, <4>2
    <3>2. ASSUME NEW j \in 1 .. k
          PROVE  nx[r[j + 1]] = IF j + 1 = k + 1 THEN Null ELSE r[(j + 1) + 1]
      <4>1. nx[s[j]] = IF j = k THEN Null ELSE s[j + 1]
        BY <1>2 DEF Linked
      <4>2. j # k => j + 1 \in 1 .. k
        OBVIOUS
      <4>3. j = k <=> j + 1 = k + 1
        OBVIOUS
      <4>4. QED
        BY <1>5, <4>1, <4>2, <4>3
    <3>3. QED
      BY <1>6, <3>1, <3>2
  <2>4. QED
    BY <1>5, <2>1, <2>2, <2>3 DEF Linked
<1>9. k + 1 \in Nat
  OBVIOUS
<1>10. QED
  BY <1>5, <1>7, <1>8, <1>9 DEF IsList

(* With one more node after the last one, m. *)
LEMMA ListAppended ==
    ASSUME NEW nx, NEW ny, NEW from, NEW S, IsList(nx, from, S),
           NEW m \in S, nx[m] = Null, NEW n \in Nodes, n \notin S,
           ny[m] = n, ny[n] = Null, \A i \in S \ {m} : ny[i] = nx[i]
    PROVE  IsList(ny, from, S \union {n})
<1>1. PICK k \in Nat : \E s \in [1 .. k -> Nodes] :
                         Linked(nx, from, s, k) /\ S = {s[i] : i \in 1 .. k}
  BY DEF IsList
<1>2. PICK s \in [1 .. k -> Nodes] : Linked(nx, from, s, k) /\ S = {s[i] : i \in 1 .. k}
  BY <1>1
<1>3. k # 0 /\ k \in 1 .. k /\ m = s[k]
  <2>1. PICK i \in 1 .. k : m = s[i]
    BY <1>2
  <2>2. i # k => i + 1 \in 1 .. k
    OBVIOUS
  <2>3. \A j \in 1 .. k : s[j] # Null
    BY <1>2 DEF Nodes, Null
  <2>4. i = k
    BY <1>2, <2>1, <2>2, <2>3 DEF Linked
  <2>5. QED
    BY <2>1, <2>4
<1> DEFINE r == [i \in 1 .. k + 1 |-> IF i = k + 1 THEN n ELSE s[i]]
<1>4. \A i \in 1 .. k + 1 : i = k + 1 \/ i \in 1 .. k
  OBVIOUS
<1>5. \A i \in 1 .. k : i \in 1 .. k + 1 /\ i # k + 1 /\ k + 1 \in 1 .. k + 1
  OBVIOUS
<1>6. /\ r \in [1 .. k + 1 -> Nodes]
      /\ r[k + 1] = n /\ \A i \in 1 .. k : r[i] = s[i]
  BY <1>2, <1>4, <1>5, <1>3
<1> HIDE DEF r
<1>7. {r[i] : i \in 1 .. k + 1} = S \union {n}
  BY <1>2, <1>3, <1>4, <1>5, <1>6
<1>8. Linked(ny, from, r, k + 1)
  <2>1. \A i, j \in 1 .. k + 1 : r[i] = r[j] => i = j
    <3>1. \A i \in 1 .. k : r[i] \in S
      BY <1>2, <1>6
    <3>2. \A i, j \in 1 .. k : r[i] = r[j] => i = j
      BY <1>2, <1>6 DEF Linked
    <3>3. QED
      BY <1>4, <1>6, <3>1, <3>2
  <2>2. k + 1 \in Nat /\ k + 1 # 0 /\ 1 \in 1 .. k
    BY <1>3
  <2>3. from = r[1]
    BY <1>2, <1>3, <1>6, <2>2 DEF Linked
  <2>4. \A i \in 1 .. k + 1 : ny[r[i]] = IF i = k + 1 THEN Null ELSE r[i + 1]
    <3>1. ASSUME NEW i \in 1 .. k, i # k PROVE ny[r[i]] = r[i + 1]
      <4>1. i + 1 \in 1 .. k
        BY <3>1
      <4>2. s[i] \in S \ {m}
        BY <1>2, <1>3, <3>1 DEF Linked
      <4>3. QED
        BY <1>2, <1>6, <3>1, <4>1, <4>2 DEF Linked
    <3>2. ny[r[k]] = r[k + 1] /\ ny[r[k + 1]] = Null
      BY <1>3, <1>6
    <3>3. QED
      BY <1>4, <1>5, <3>1, <3>2
  <2>5. QED
    BY <1>6, <2>1, <2>2, <2>3, <2>4 DEF Linked
<1>9. k + 1 \in Nat
  OBVIOUS
<1>10. QED
  BY <1>6, <1>7, <1>8, <1>9 DEF IsList

(* microej_list_initialize, from the first node of the array on. *)
LEMMA ArrayLinked ==
    ASSUME NEW nx, \A n \in Nodes : nx[n] = IF n = Size THEN Null ELSE n + 1
    PROVE  IsList(nx, 1, Nodes)
<1> DEFINE s == [i \in 1 .. Size |-> i]
<1>1. Size \in Nat /\ Size # 0 /\ 1 \in 1 .. Size
  BY GnssAssumption
<1>2. \A i \in 1 .. Size : i # Size => i + 1 \in 1 .. Size
  BY <1>1
<1>3. s \in [1 .. Size -> Nodes] /\ \A i \in 1 .. Size : s[i] = i
  BY DEF Nodes
<1> HIDE DEF s
<1>4. {s[i] : i \in 1 .. Size} = Nodes
  BY <1>3 DEF Nodes
<1>5. Linked(nx, 1, s, Size)
  BY <1>1, <1>2, <1>3 DEF Linked, Nodes
<1>6. QED
  BY <1>1, <1>3, <1>4, <1>5 DEF IsList

-----------------------------------------------------------------------------
(* Reached follows a list node by node, then stays at its end.              *)

\* The equation of the function in Reached.
Follows(g, nx, from) ==
    g = [k \in 0 .. Size |->
            IF k = 0 THEN from ELSE IF g[k - 1] = Null THEN Null ELSE nx[g[k - 1]]]

LEMMA ReachedFollows ==
    ASSUME NEW from, NEW g, Follows(g, next, from)
    PROVE  Follows(Reached(from), next, from)
<1>1. Reached(from) = CHOOSE h : Follows(h, next, from)
  BY DEF Reached, Follows
<1>2. QED
  BY <1>1, Zenon

LEMMA FollowedList ==
    ASSUME NEW nx, NEW from, NEW s, NEW k \in 0 .. Size, Linked(nx, from, s, k),
           NEW g, Follows(g, nx, from)
    PROVE  \A i \in 0 .. Size : g[i] = IF i < k THEN s[i + 1] ELSE Null
<1> DEFINE Right == {i \in Nat : i \in 0 .. Size =>
                                    g[i] = IF i < k THEN s[i + 1] ELSE Null}
<1>1. Size \in Nat /\ k \in Nat
  BY GnssAssumption
<1>2. 0 \in Right
  <2>1. g[0] = from
    BY <1>1 DEF Follows
  <2>2. k = 0 \/ (0 < k /\ 0 + 1 = 1)
    BY <1>1
  <2>3. QED
    BY <2>1, <2>2 DEF Linked
<1>3. ASSUME NEW i \in Nat, i \in Right
      PROVE  i + 1 \in Right
  <2> SUFFICES ASSUME i + 1 \in 0 .. Size
               PROVE  g[i + 1] = IF i + 1 < k THEN s[(i + 1) + 1] ELSE Null
    OBVIOUS
  <2>1. i \in 0 .. Size /\ (i + 1) - 1 = i /\ i + 1 # 0
    BY <1>1
  <2>2. g[i] = IF i < k THEN s[i + 1] ELSE Null
    BY <1>3, <2>1
  <2>3. g[i + 1] = IF g[i] = Null THEN Null ELSE nx[g[i]]
    BY <2>1 DEF Follows
  <2>4. CASE i < k
    <3>1. i + 1 \in 1 .. k /\ (i + 1 = k <=> ~(i + 1 < k))
      BY <1>1, <2>4
    <3>2. s[i + 1] # Null
      BY <3>1 DEF Linked, Nodes, Null
    <3>3. QED
      BY <2>2, <2>3, <2>4, <3>1, <3>2 DEF Linked
  <2>5. CASE ~(i < k)
    <3>1. ~(i + 1 < k)
      BY <1>1, <2>5
    <3>2. QED
      BY <2>2, <2>3, <2>5, <3>1
  <2>6. QED
    BY <2>4, <2>5
<1> HIDE DEF Right
<1>4. Nat \subseteq Right
  BY <1>2, <1>3, Induction
<1>5. QED
  BY <1>1, <1>4 DEF Right

(* A list is the chain of its first pointer, and the chain ends. *)
LEMMA ChainOfList ==
    ASSUME NEW from, NEW S, IsList(next, from, S)
    PROVE  Chain(from) = S /\ Ends(from)
<1>1. PICK k \in Nat : \E s \in [1 .. k -> Nodes] :
                         Linked(next, from, s, k) /\ S = {s[i] : i \in 1 .. k}
  BY DEF IsList
<1>2. PICK s \in [1 .. k -> Nodes] : Linked(next, from, s, k) /\ S = {s[i] : i \in 1 .. k}
  BY <1>1
<1>3. Size \in Nat
  BY GnssAssumption
<1>4. k \in 0 .. Size
  <2>1. IsFiniteSet(Nodes) /\ Cardinality(Nodes) = Size
    BY <1>3, FS_Interval DEF Nodes
  <2>2. Cardinality(1 .. k) = k
    BY FS_Interval
  <2>3. s \in Injection(1 .. k, Nodes)
    BY <1>2 DEF Linked, Injection, IsInjective
  <2>4. Cardinality(1 .. k) <= Cardinality(Nodes)
    BY <2>1, <2>3, FS_Injection
  <2>5. QED
    BY <1>3, <2>1, <2>2, <2>4
<1> DEFINE g == [i \in 0 .. Size |-> IF i < k THEN s[i + 1] ELSE Null]
<1>5. Follows(g, next, from)
  <2> DEFINE body(i) == IF i = 0 THEN from ELSE IF g[i - 1] = Null THEN Null ELSE next[g[i - 1]]
  <2>1. ASSUME NEW i \in 0 .. Size
        PROVE  g[i] = body(i)
    <3>1. CASE i = 0
      <4>1. g[i] = IF 0 < k THEN s[1] ELSE Null
        BY <3>1
      <4>2. k = 0 \/ 0 < k
        OBVIOUS
      <4>3. QED
        BY <1>2, <3>1, <4>1, <4>2 DEF Linked
    <3>2. CASE i # 0
      <4>1. i - 1 \in 0 .. Size /\ (i - 1) + 1 = i
        BY <1>3, <3>2
      <4>2. g[i - 1] = IF i - 1 < k THEN s[i] ELSE Null
        BY <4>1
      <4>3. g[i] = IF i < k THEN s[i + 1] ELSE Null
        OBVIOUS
      <4>4. CASE i - 1 < k
        <5>1. i \in 1 .. k /\ (i = k <=> ~(i < k))
          BY <3>2, <4>4
        <5>2. s[i] # Null /\ next[s[i]] = IF i = k THEN Null ELSE s[i + 1]
          BY <1>2, <5>1 DEF Linked, Nodes, Null
        <5> HIDE DEF g
        <5>3. QED
          BY <3>2, <4>2, <4>3, <4>4, <5>1, <5>2
      <4>5. CASE ~(i - 1 < k)
        <5>1. ~(i < k)
          BY <4>5
        <5> HIDE DEF g
        <5>2. QED
          BY <3>2, <4>2, <4>3, <4>5, <5>1
      <4>6. QED
        BY <4>4, <4>5
    <3>3. QED
      BY <3>1, <3>2
  <2>2. g = [i \in 0 .. Size |-> g[i]]
    OBVIOUS
  <2> HIDE DEF g
  <2>3. QED
    BY <2>1, <2>2, Zenon DEF Follows
<1> HIDE DEF g
<1>6. Follows(Reached(from), next, from)
  BY <1>5, ReachedFollows
<1>7. \A i \in 0 .. Size : Reached(from)[i] = IF i < k THEN s[i + 1] ELSE Null
  BY <1>2, <1>4, <1>6, FollowedList
<1>8. Chain(from) = S
  <2>1. \A i \in 1 .. k : s[i] # Null
    BY <1>2 DEF Nodes, Null
  <2>2. ASSUME NEW n \in Chain(from) PROVE n \in S
    <3>1. PICK i \in 0 .. Size : n = Reached(from)[i] /\ n # Null
      BY <2>2 DEF Chain
    <3>2. i < k /\ n = s[i + 1]
      BY <1>7, <3>1
    <3>3. i + 1 \in 1 .. k
      BY <3>2
    <3>4. QED
      BY <1>2, <3>2, <3>3
  <2>3. ASSUME NEW i \in 1 .. k PROVE s[i] \in Chain(from)
    <3>1. i - 1 \in 0 .. Size /\ i - 1 < k /\ (i - 1) + 1 = i
      BY <1>3, <1>4
    <3>2. s[i] = Reached(from)[i - 1]
      BY <1>7, <3>1
    <3>3. QED
      BY <2>1, <3>1, <3>2 DEF Chain
  <2>4. QED
    BY <1>2, <2>2, <2>3
<1>9. Ends(from)
  <2>1. Size \in 0 .. Size /\ ~(Size < k)
    BY <1>3, <1>4
  <2>2. QED
    BY <1>7, <2>1 DEF Ends
<1>10. QED
  BY <1>8, <1>9

-----------------------------------------------------------------------------
(* The inductive invariant, of the first session as long as nothing raced.  *)

Unraced == ~raced /\ sessions <= 1

Filled == {"head", "set_first", "walk", "append"}

\* The node a task has taken from one chain and not yet put into the other.
Added == IF vm.pc \in Filled THEN {vm.node} ELSE {}
Deleted == IF signo.pc \in {"free", "push"} THEN {signo.node} ELSE {}

ListsFit ==
    /\ IsList(next, first, Chain(first)) /\ IsList(next, free, Chain(free))
    /\ Chain(first) \intersect Chain(free) = {}
    /\ Chain(first) \union Chain(free) = Nodes \ (Added \union Deleted)
    /\ Added \intersect Deleted = {}
    /\ \A n \in Chain(first) : item[n] \in Threads

AddFits ==
    /\ vm.pc = "alloc" => vm.node = Null
    /\ vm.pc = "pop" => free # Null /\ vm.node = free /\ vm.after = next[free]
    /\ vm.pc \in Filled =>
          vm.node \in Nodes /\ next[vm.node] = Null /\ item[vm.node] = vm.thread
    /\ vm.pc = "set_first" => first = Null
    /\ vm.pc \in {"walk", "append"} => vm.current \in Chain(first)
    /\ vm.pc = "append" => next[vm.current] = Null

\* The node that is consumed is the first one from its visit to its unlinking,
\* so that the search ends at once.  What follows it may have been appended
\* since it was visited: the consumption then ends without it.
ConsumeFits ==
    /\ signo.pc = "visit" => signo.current \in {first, Null}
    /\ signo.pc \in {"resume", "search", "unlink"} =>
          first # Null /\ signo.tmp \in {next[first], Null} /\ signo.item = item[first]
    /\ signo.pc = "search" => signo.at = first
    /\ signo.pc = "unlink" =>
          signo.at = Null /\ signo.node = first /\ signo.after = next[first]
    /\ signo.pc \in {"free", "push"} =>
          signo.node \in Nodes /\ signo.tmp \in {first, Null}
    /\ signo.pc = "push" => next[signo.node] = free

\* Who runs a native is not suspended.
NativeRuns == vm.pc # "idle" => vm.thread \in Threads /\ thread[vm.thread] = "native"

\* A thread that is suspended, or will be, has a node, and another one than
\* that which is being deleted.
Waits(t) ==
    \/ thread[t] = "suspended"
    \/ vm.pc = "suspend" /\ vm.thread = t /\ vm.node # Null /\ ~resumed[t]

Keeps(t, n) == item[n] = t /\ (signo.pc \in {"search", "unlink"} => n # first)

WaitersFit == \A t \in Threads : Waits(t) => \E n \in Chain(first) : Keeps(t, n)

BeforeSession ==
    sessions = 0 =>
        /\ ~open /\ vm.pc = "idle" /\ signo.pc = "none"
        /\ first = Null /\ free = 1 /\ next = [n \in Nodes |-> Null]
        /\ thread = [t \in Threads |-> "java"]

-----------------------------------------------------------------------------
(* Types.                                                                   *)

VmType == [pc : Adding \union {"idle", "suspend", "join"},
           thread : Threads \union {NoThread},
           node : Pointers, after : Pointers, current : Pointers]

SignoType == [pc : Consuming \union {"none", "wait"},
              current : Pointers, tmp : Pointers,
              item : Threads \union {NoThread}, at : Pointers, node : Pointers,
              after : Pointers]

ListType ==
    /\ first \in Pointers /\ free \in Pointers
    /\ next \in [Nodes -> Pointers]
    /\ item \in [Nodes -> Threads \union {NoThread}]

SniType ==
    /\ thread \in [Threads -> {"java", "native"} \union Asleep]
    /\ resumed \in [Threads -> BOOLEAN]

CodeType ==
    /\ sessions \in 0 .. MaxSessions
    /\ {open, started, signal, running, data_ready} \subseteq BOOLEAN
    /\ ListType /\ vm \in VmType /\ signo \in SignoType /\ SniType

LEMMA TypeParts == TypeOK <=> CodeType /\ raced \in BOOLEAN
BY Zenon DEF TypeOK, CodeType, ListType, VmType, SignoType, SniType

LEMMA TypePartsNext ==
    CodeType' <=> /\ sessions' \in 0 .. MaxSessions
                  /\ {open', started', signal', running', data_ready'} \subseteq BOOLEAN
                  /\ ListType' /\ vm' \in VmType /\ signo' \in SignoType /\ SniType'
BY DEF CodeType

IInv ==
    /\ CodeType /\ BeforeSession /\ NativeRuns
    /\ sessions > 0 => ListsFit
    /\ AddFits /\ ConsumeFits /\ WaitersFit
    /\ ~Race

LEMMA Flags ==
    ASSUME NEW a, NEW b, NEW c, NEW d, NEW e
    PROVE  {a, b, c, d, e} \subseteq BOOLEAN <=>
              /\ a \in BOOLEAN /\ b \in BOOLEAN /\ c \in BOOLEAN
              /\ d \in BOOLEAN /\ e \in BOOLEAN
OBVIOUS

LEMMA IdleTyped == Idle \in VmType /\ None \in SignoType
BY DEF Idle, None, VmType, SignoType, Pointers

LEMMA Indices == Null \in Pointers /\ Nodes \subseteq Pointers /\ Null \notin Nodes
BY DEF Pointers, Nodes, Null

LEMMA ListTypeKept == ASSUME ListType, UNCHANGED list_vars PROVE ListType'
BY DEF ListType, list_vars

LEMMA SniTypeKept == ASSUME SniType, UNCHANGED sni_vars PROVE SniType'
BY DEF SniType, sni_vars

(* A native of the virtual machine's task that begins. *)
LEMMA NativeTyped ==
    ASSUME NEW t \in Threads, NEW pc \in Adding \union {"idle", "suspend", "join"}
    PROVE  [Idle EXCEPT !.pc = pc, !.thread = t] \in VmType
BY DEF Idle, VmType, Pointers

LEMMA RelinkedTyped ==
    ASSUME next \in [Nodes -> Pointers], free = 1
    PROVE  Relinked \in [Nodes -> Pointers]
<1>1. Size \in Nat /\ Size # 0
  BY GnssAssumption
<1>2. \A n \in Nodes : n < 1 + Size - 1 => n + 1 \in Nodes
  BY <1>1 DEF Nodes
<1>3. \A n \in Nodes : n >= 1
  BY DEF Nodes
<1>4. \A n \in Nodes : (IF free # Null /\ n >= free /\ n < free + Size - 1
                        THEN n + 1 ELSE next[n]) \in Pointers
  BY <1>2, <1>3, Indices
<1>5. QED
  BY <1>4 DEF Relinked

LEMMA CallType ==
    ASSUME IInv, sessions' <= 1, NEW t \in Threads, Call(t) \/ Timeout(t)
    PROVE  CodeType'
<1>1. /\ sessions \in 0 .. MaxSessions
      /\ {open, started, signal, running, data_ready} \subseteq BOOLEAN
      /\ ListType /\ vm \in VmType /\ signo \in SignoType /\ SniType
  BY DEF IInv, CodeType
<1>2. /\ open \in BOOLEAN /\ started \in BOOLEAN /\ signal \in BOOLEAN
      /\ running \in BOOLEAN /\ data_ready \in BOOLEAN
  BY <1>1, Flags
<1>3. MaxSessions \in Nat
  BY GnssAssumption
<1>4. CASE Initialize(t)
  <2>1. sessions < MaxSessions /\ sessions' = sessions + 1
    BY <1>4 DEF Initialize
  <2>2. sessions = 0 /\ sessions' \in 0 .. MaxSessions
    BY <1>1, <1>3, <2>1
  <2>3. ListType'
    <3>1. next' \in [Nodes -> Pointers]
      BY <1>1, <1>4, <2>2, RelinkedTyped DEF IInv, BeforeSession, Initialize, ListType
    <3>2. QED
      BY <1>1, <1>4, <3>1 DEF Initialize, ListType
  <2>4. signo' \in SignoType
    <3>1. [None EXCEPT !.pc = "wait"] \in SignoType
      BY DEF None, SignoType, Pointers
    <3>2. QED
      BY <1>1, <1>4, <3>1, IdleTyped DEF Initialize
  <2>5. open' \in BOOLEAN /\ running' \in BOOLEAN
    BY <1>2, <1>4, Zenon DEF Initialize
  <2>6. {open', started', signal', running', data_ready'} \subseteq BOOLEAN
    BY <1>2, <1>4, <2>5, Flags, Zenon DEF Initialize
  <2>7. vm' \in VmType /\ SniType'
    BY <1>1, <1>4, SniTypeKept DEF Initialize
  <2>8. QED
    BY <2>2, <2>3, <2>4, <2>6, <2>7, TypePartsNext
<1>5. CASE Start(t) \/ Stop(t)
  <2>1. started' \in BOOLEAN
    BY <1>2, <1>5, Zenon DEF Start, Stop
  <2>2. {open', started', signal', running', data_ready'} \subseteq BOOLEAN
    BY <1>2, <1>5, <2>1, Flags, Zenon DEF Start, Stop
  <2>3. /\ UNCHANGED <<sessions, vm, signo>> /\ UNCHANGED list_vars /\ UNCHANGED sni_vars
    BY <1>5 DEF Start, Stop
  <2>4. QED
    BY <1>1, <2>2, <2>3, ListTypeKept, SniTypeKept, TypePartsNext
<1>6. CASE Close(t)
  <2>1. signal' \in BOOLEAN /\ open' = FALSE /\ started' = FALSE /\ running' = FALSE
        /\ data_ready' = data_ready
    BY <1>2, <1>6, Zenon DEF Close
  <2>2. {open', started', signal', running', data_ready'} \subseteq BOOLEAN
    BY <1>2, <2>1, Flags, Zenon
  <2>3. vm' \in VmType
    BY <1>6, NativeTyped DEF Close
  <2>4. SniType'
    BY <1>1, <1>6 DEF Close, SniType
  <2>5. UNCHANGED <<sessions, signo>> /\ UNCHANGED list_vars
    BY <1>6 DEF Close
  <2>6. QED
    BY <1>1, <2>2, <2>3, <2>4, <2>5, ListTypeKept, TypePartsNext
<1>7. CASE Fetch(t)
  <2>1. vm' \in VmType
    BY <1>7, NativeTyped DEF Fetch, Adding
  <2>2. SniType'
    BY <1>1, <1>7 DEF Fetch, SniType
  <2>3. /\ UNCHANGED <<sessions, open, started, signal, running, data_ready, signo>>
        /\ UNCHANGED list_vars
    BY <1>7 DEF Fetch, driver_vars
  <2>4. QED
    BY <1>1, <2>1, <2>2, <2>3, ListTypeKept, TypePartsNext
<1>8. CASE Timeout(t)
  <2>1. SniType'
    BY <1>1, <1>8 DEF Timeout, SniType
  <2>2. /\ UNCHANGED <<sessions, open, started, signal, running, data_ready, vm, signo>>
        /\ UNCHANGED list_vars
    BY <1>8 DEF Timeout, driver_vars
  <2>3. QED
    BY <1>1, <2>1, <2>2, ListTypeKept, TypePartsNext
<1>9. QED
  BY <1>4, <1>5, <1>6, <1>7, <1>8 DEF Call

LEMMA VmTaskType ==
    ASSUME IInv, VmTask
    PROVE  CodeType'
<1>1. /\ sessions \in 0 .. MaxSessions
      /\ {open, started, signal, running, data_ready} \subseteq BOOLEAN
      /\ ListType /\ vm \in VmType /\ signo \in SignoType /\ SniType
  BY DEF IInv, CodeType
<1>2. ASSUME Add, ListType', vm' \in VmType
      PROVE  CodeType'
  <2>1. InAdd
    BY <1>2 DEF Add, Add_Alloc, Add_Pop, Add_Head, Add_SetFirst, Add_Walk, Add_Append
  <2>2. /\ UNCHANGED <<sessions, open, started, signal, running, data_ready, signo>>
        /\ UNCHANGED sni_vars
    BY <2>1 DEF InAdd, driver_vars
  <2>3. QED
    BY <1>1, <1>2, <2>2, SniTypeKept, TypePartsNext
<1>3. CASE Add_Alloc
  <2>1. free # Null => free \in Nodes /\ next[free] \in Pointers
    BY <1>1 DEF ListType, Pointers
  <2>2. vm' \in VmType
    BY <1>1, <1>3, <2>1, Indices DEF Add_Alloc, VmType, Adding
  <2>3. UNCHANGED list_vars
    BY <1>3 DEF Add_Alloc
  <2>4. QED
    BY <1>1, <1>2, <1>3, <2>2, <2>3, ListTypeKept DEF Add
<1>4. CASE Add_Pop
  <2>1. vm.node \in Pointers /\ vm.after \in Pointers /\ vm.thread \in Threads \union {NoThread}
    BY <1>1 DEF VmType
  <2>2. vm' \in VmType
    BY <1>1, <1>4 DEF Add_Pop, VmType, Adding
  <2>3. ListType'
    BY <1>1, <1>4, <2>1, Indices DEF Add_Pop, ListType
  <2>4. QED
    BY <1>2, <1>4, <2>2, <2>3 DEF Add
<1>5. CASE Add_Head
  <2>1. vm' \in VmType
    BY <1>1, <1>5 DEF Add_Head, VmType, Adding, ListType
  <2>2. UNCHANGED list_vars
    BY <1>5 DEF Add_Head
  <2>3. QED
    BY <1>1, <1>2, <1>5, <2>1, <2>2, ListTypeKept DEF Add
<1>6. CASE Add_SetFirst
  <2>1. vm' \in VmType /\ vm.node \in Pointers
    BY <1>1, <1>6 DEF Add_SetFirst, VmType
  <2>2. ListType'
    BY <1>1, <1>6, <2>1 DEF Add_SetFirst, ListType
  <2>3. QED
    BY <1>2, <1>6, <2>1, <2>2 DEF Add
<1>7. CASE Add_Walk
  <2>1. vm.current \in Nodes
    BY <1>7, ListNodes DEF Add_Walk, IInv, AddFits, ListsFit, BeforeSession, CodeType
  <2>2. next[vm.current] \in Pointers
    BY <1>1, <2>1 DEF ListType
  <2>3. vm' \in VmType
    BY <1>1, <1>7, <2>2 DEF Add_Walk, VmType, Adding
  <2>4. UNCHANGED list_vars
    BY <1>7 DEF Add_Walk
  <2>5. QED
    BY <1>1, <1>2, <1>7, <2>3, <2>4, ListTypeKept DEF Add
<1>8. CASE Add_Append
  <2>1. vm' \in VmType /\ vm.node \in Pointers
    BY <1>1, <1>8 DEF Add_Append, VmType
  <2>2. ListType'
    BY <1>1, <1>8, <2>1 DEF Add_Append, ListType
  <2>3. QED
    BY <1>2, <1>8, <2>1, <2>2 DEF Add
<1>9. CASE Suspend
  <2>1. vm' \in VmType
    BY <1>9, IdleTyped DEF Suspend
  <2>2. SniType'
    BY <1>1, <1>9 DEF Suspend, SniType, Asleep
  <2>3. /\ UNCHANGED <<sessions, open, started, signal, running, data_ready, signo>>
        /\ UNCHANGED list_vars
    BY <1>9 DEF Suspend, driver_vars
  <2>4. QED
    BY <1>1, <2>1, <2>2, <2>3, ListTypeKept, TypePartsNext
<1>10. CASE CloseEnds
  <2>1. vm' \in VmType
    BY <1>10, IdleTyped DEF CloseEnds
  <2>2. SniType'
    BY <1>1, <1>10 DEF CloseEnds, SniType
  <2>3. /\ UNCHANGED <<sessions, open, started, signal, running, data_ready, signo>>
        /\ UNCHANGED list_vars
    BY <1>10 DEF CloseEnds, driver_vars
  <2>4. QED
    BY <1>1, <2>1, <2>2, <2>3, ListTypeKept, TypePartsNext
<1>11. QED
  BY <1>3, <1>4, <1>5, <1>6, <1>7, <1>8, <1>9, <1>10 DEF VmTask, Add

LEMMA SignalsType ==
    ASSUME IInv, Signo \/ DriverSignals
    PROVE  CodeType'
<1>1. /\ sessions \in 0 .. MaxSessions
      /\ {open, started, signal, running, data_ready} \subseteq BOOLEAN
      /\ ListType /\ vm \in VmType /\ signo \in SignoType /\ SniType
  BY DEF IInv, CodeType
<1>2. /\ open \in BOOLEAN /\ started \in BOOLEAN /\ signal \in BOOLEAN
      /\ running \in BOOLEAN /\ data_ready \in BOOLEAN
  BY <1>1, Flags
<1>3. CASE DriverSignals
  <2>1. {open', started', signal', running', data_ready'} \subseteq BOOLEAN
    BY <1>2, <1>3, Flags, Zenon DEF DriverSignals
  <2>2. UNCHANGED <<sessions, vm, signo>> /\ UNCHANGED list_vars /\ UNCHANGED sni_vars
    BY <1>3 DEF DriverSignals
  <2>3. QED
    BY <1>1, <2>1, <2>2, ListTypeKept, SniTypeKept, TypePartsNext
<1>4. CASE Signalled
  <2>1. {open', started', signal', running', data_ready'} \subseteq BOOLEAN
    BY <1>2, <1>4, Flags, Zenon DEF Signalled
  <2>2. signo' \in SignoType
    <3>1. first \in Pointers
      BY <1>1 DEF ListType
    <3>2. [None EXCEPT !.pc = "visit", !.current = first] \in SignoType
      BY <3>1 DEF None, SignoType, Consuming, Pointers
    <3>3. QED
      BY <1>4, <3>2 DEF Signalled
  <2>3. UNCHANGED <<sessions, vm>> /\ UNCHANGED list_vars /\ UNCHANGED sni_vars
    BY <1>4 DEF Signalled
  <2>4. QED
    BY <1>1, <2>1, <2>2, <2>3, ListTypeKept, SniTypeKept, TypePartsNext
<1>5. CASE Quiet
  <2>1. /\ UNCHANGED <<sessions, open, started, signal, running, data_ready, vm>>
        /\ UNCHANGED list_vars /\ UNCHANGED sni_vars /\ signo' = None
    BY <1>5 DEF Quiet, driver_vars
  <2>2. QED
    BY <1>1, <2>1, IdleTyped, ListTypeKept, SniTypeKept, TypePartsNext
<1>6. ASSUME Consume, ListType', SniType', signo' \in SignoType
      PROVE  CodeType'
  <2>1. InConsume
    BY <1>6 DEF Consume, Consume_Visit, Consume_Resume, Delete_Search, Delete_Unlink,
                Free_Link, Free_Push
  <2>2. UNCHANGED <<sessions, open, started, signal, running, data_ready, vm>>
    BY <2>1 DEF InConsume, driver_vars
  <2>3. QED
    BY <1>1, <1>6, <2>2, TypePartsNext
<1>7. CASE Consume_Visit
  <2>1. signo.current # Null => /\ next[signo.current] \in Pointers
                                /\ item[signo.current] \in Threads \union {NoThread}
    BY <1>1 DEF ListType, SignoType, Pointers
  <2>2. CASE signo.current # Null
    <3>1. signo' = [signo EXCEPT !.pc = "resume", !.tmp = next[signo.current],
                                 !.item = item[signo.current]]
      BY <1>7, <2>2, Zenon DEF Consume_Visit
    <3>2. signo' \in SignoType
      BY <1>1, <2>1, <2>2, <3>1 DEF SignoType, Consuming
    <3>3. UNCHANGED list_vars /\ UNCHANGED sni_vars
      BY <1>7 DEF Consume_Visit
    <3>4. QED
      BY <1>1, <1>6, <1>7, <3>2, <3>3, ListTypeKept, SniTypeKept DEF Consume
  <2>3. CASE signo.current = Null
    <3>1. signo' = [None EXCEPT !.pc = "wait"] \/ signo' = None
      <4>1. CASE running
        BY <1>7, <2>3, <4>1, Zenon DEF Consume_Visit
      <4>2. CASE ~running
        BY <1>7, <2>3, <4>2, Zenon DEF Consume_Visit
      <4>3. QED
        BY <4>1, <4>2
    <3>2. [None EXCEPT !.pc = "wait"] \in SignoType
      BY DEF None, SignoType, Pointers
    <3>3. UNCHANGED list_vars /\ UNCHANGED sni_vars
      BY <1>7 DEF Consume_Visit
    <3>4. QED
      BY <1>1, <1>6, <1>7, <3>1, <3>2, <3>3, IdleTyped, ListTypeKept, SniTypeKept DEF Consume
  <2>4. QED
    BY <2>2, <2>3
<1>8. CASE Consume_Resume
  <2>1. signo' \in SignoType
    BY <1>1, <1>8 DEF Consume_Resume, SignoType, Consuming, ListType
  <2>2. thread' \in [Threads -> {"java", "native"} \union Asleep]
    BY <1>1, <1>8 DEF Consume_Resume, SniType
  <2>3. resumed' \in [Threads -> BOOLEAN]
    <3>1. (thread[signo.item] \notin Asleep) \in BOOLEAN
      OBVIOUS
    <3>2. resumed' = [resumed EXCEPT ![signo.item] = thread[signo.item] \notin Asleep]
      BY <1>8 DEF Consume_Resume
    <3>3. QED
      BY <1>1, <3>1, <3>2, Zenon DEF SniType
  <2>4. UNCHANGED list_vars
    BY <1>8 DEF Consume_Resume
  <2>5. QED
    BY <1>1, <1>6, <1>8, <2>1, <2>2, <2>3, <2>4, ListTypeKept DEF Consume, SniType
<1>9. CASE Delete_Search
  <2>1. signo.at = first /\ first # Null /\ item[first] = signo.item
    BY <1>9 DEF Delete_Search, IInv, ConsumeFits
  <2>2. signo' = [signo EXCEPT !.pc = "unlink", !.at = Null, !.node = first,
                               !.after = next[first]]
    BY <1>9, <2>1, Zenon DEF Delete_Search
  <2>3. signo' \in SignoType
    <3>1. first \in Pointers /\ next[first] \in Pointers
      BY <1>1, <2>1 DEF ListType, Pointers
    <3>2. QED
      BY <1>1, <2>2, <3>1, Indices DEF SignoType, Consuming
  <2>4. UNCHANGED list_vars /\ UNCHANGED sni_vars
    BY <1>9 DEF Delete_Search
  <2>5. QED
    BY <1>1, <1>6, <1>9, <2>3, <2>4, ListTypeKept, SniTypeKept DEF Consume
<1>10. CASE Delete_Unlink \/ Free_Link \/ Free_Push
  <2>1. signo' \in SignoType
    BY <1>1, <1>10 DEF Delete_Unlink, Free_Link, Free_Push, SignoType, Consuming
  <2>2. /\ signo.node \in Pointers /\ signo.at \in Pointers /\ signo.after \in Pointers
    BY <1>1 DEF SignoType
  <2>3. ListType'
    BY <1>1, <1>10, <2>2 DEF Delete_Unlink, Free_Link, Free_Push, ListType
  <2>4. UNCHANGED sni_vars
    BY <1>10 DEF Delete_Unlink, Free_Link, Free_Push
  <2>5. QED
    BY <1>1, <1>6, <1>10, <2>1, <2>3, <2>4, SniTypeKept DEF Consume
<1>11. QED
  BY <1>3, <1>4, <1>5, <1>7, <1>8, <1>9, <1>10 DEF Signo, Consume

LEMMA NextType ==
    ASSUME IInv, sessions' <= 1, [Step]_code_vars
    PROVE  CodeType'
<1>1. CASE UNCHANGED code_vars
  <2>1. /\ UNCHANGED <<sessions, open, started, signal, running, data_ready, vm, signo>>
        /\ UNCHANGED list_vars /\ UNCHANGED sni_vars
    BY <1>1 DEF code_vars, driver_vars
  <2>2. QED
    BY <2>1, ListTypeKept, SniTypeKept, TypePartsNext DEF IInv, CodeType
<1>2. QED
  BY <1>1, CallType, VmTaskType, SignalsType DEF Step

-----------------------------------------------------------------------------
(* Steps.                                                                   *)

(* Chains that are known to be lists, now and after a step. *)
Chains ==
    \A S : /\ IsList(next, first, S) => Chain(first) = S /\ Ends(first)
           /\ IsList(next, free, S) => Chain(free) = S /\ Ends(free)

LEMMA ChainsAre == Chains
BY ChainOfList DEF Chains

LEMMA ChainsNext == Chains'
BY ChainsAre, PTL

LEMMA ListsNow ==
    ASSUME NEW W, NEW F, IsList(next', first', W), IsList(next', free', F),
           W \intersect F = {}, W \union F = Nodes \ (Added' \union Deleted'),
           Added' \intersect Deleted' = {},
           \A n \in W : item'[n] \in Threads
    PROVE  ListsFit' /\ Chain(first)' = W /\ Chain(free)' = F
<1>1. Chain(first)' = W /\ Chain(free)' = F
  BY ChainsNext DEF Chains
<1>2. QED
  BY <1>1 DEF ListsFit

LEMMA ListsSame ==
    ASSUME ListsFit, UNCHANGED list_vars, Added' = Added, Deleted' = Deleted
    PROVE  ListsFit' /\ Chain(first)' = Chain(first)
<1>1. next' = next /\ first' = first /\ free' = free /\ item' = item
  BY DEF list_vars
<1>2. QED
  BY <1>1, ListsNow DEF ListsFit

(* What waits in the list stays there. *)
Grows == \A n \in Chain(first) : n \in Chain(first)' /\ item'[n] = item[n]

LEMMA GrowsSame ==
    ASSUME UNCHANGED list_vars
    PROVE  Grows
<1>1. next' = next /\ first' = first /\ item' = item
  BY DEF list_vars
<1>2. Chain(first)' = Chain(first)
  BY <1>1 DEF Chain, Reached
<1>3. QED
  BY <1>1, <1>2 DEF Grows

(* An action that leaves the list and both tasks' places in it alone. *)
LEMMA PlacesKept ==
    ASSUME IInv, sessions' = sessions, UNCHANGED list_vars,
           signo' = signo \/ (signo.pc \in {"none", "wait"} /\ signo'.pc \in {"none", "wait"}),
           vm' = vm \/ (vm.pc \notin Adding /\ vm'.pc \notin Adding \ {"alloc"}
                        /\ vm'.node = Null)
    PROVE  (sessions' > 0 => ListsFit') /\ AddFits' /\ ConsumeFits'
<1>1. next' = next /\ first' = first /\ free' = free /\ item' = item
  BY DEF list_vars
<1>2. Added' = Added /\ Deleted' = Deleted
  BY DEF Added, Deleted, Filled, Adding
<1>3. sessions' > 0 => ListsFit' /\ Chain(first)' = Chain(first)
  BY <1>1, <1>2, ListsSame DEF IInv
<1>4. ConsumeFits'
  BY <1>1 DEF IInv, ConsumeFits
<1>5. AddFits'
  <2>1. CASE vm' = vm
    <3>1. vm.pc \in {"walk", "append"} => sessions' > 0
      BY DEF IInv, BeforeSession, CodeType
    <3>2. QED
      BY <1>1, <1>3, <2>1, <3>1 DEF IInv, AddFits
  <2>2. CASE vm'.pc \notin Adding \ {"alloc"} /\ vm'.node = Null
    BY <2>2 DEF AddFits, Filled, Adding
  <2>3. QED
    BY <2>1, <2>2
<1>6. QED
  BY <1>3, <1>4, <1>5

LEMMA SessionsGrow ==
    ASSUME [Step]_code_vars
    PROVE  sessions' = sessions \/ (sessions' = sessions + 1 /\ \E t \in Threads : Initialize(t))
<1> SUFFICES ASSUME sessions' # sessions
             PROVE  sessions' = sessions + 1 /\ \E t \in Threads : Initialize(t)
  OBVIOUS
<1>1. \E t \in Threads : Initialize(t)
  BY DEF Step, Call, Start, Stop, Close, Fetch, Timeout, VmTask, Add, InAdd, Add_Alloc,
         Add_Pop, Add_Head, Add_SetFirst, Add_Walk, Add_Append, Suspend, CloseEnds,
         Signo, Signalled, Quiet, Consume, InConsume, Consume_Visit, Consume_Resume,
         Delete_Search, Delete_Unlink, Free_Link, Free_Push, DriverSignals, code_vars
<1>2. QED
  BY <1>1 DEF Initialize

LEMMA BeforeSessionNext ==
    ASSUME sessions \in Nat, BeforeSession, [Step]_code_vars
    PROVE  sessions' \in Nat /\ BeforeSession'
<1>1. sessions \in Nat /\ BeforeSession
  OBVIOUS
<1>2. CASE sessions' # sessions
  <2>1. sessions' = sessions + 1
    BY <1>2, SessionsGrow
  <2>2. QED
    BY <1>1, <2>1 DEF BeforeSession
<1>3. CASE sessions' = sessions /\ sessions = 0
  <2>1. ~open /\ vm.pc = "idle" /\ signo.pc = "none"
    BY <1>1, <1>3 DEF BeforeSession
  <2>2. ~ \E t \in Threads : Initialize(t)
    BY <1>1, <1>3 DEF Initialize
  <2>3. \A t \in Threads : thread[t] \notin Asleep
    BY <1>1, <1>3 DEF BeforeSession, Asleep
  <2>4. /\ open' = open /\ vm' = vm /\ signo' = signo /\ UNCHANGED list_vars
        /\ thread' = thread
    BY <2>1, <2>2, <2>3
       DEF Step, Call, Start, Stop, Close, Fetch, Timeout, VmTask, Add, Add_Alloc,
           Add_Pop, Add_Head, Add_SetFirst, Add_Walk, Add_Append, Suspend, CloseEnds,
           Signo, Signalled, Quiet, Consume, Consume_Visit, Consume_Resume,
           Delete_Search, Delete_Unlink, Free_Link, Free_Push, DriverSignals, code_vars,
           driver_vars, sni_vars
  <2>5. QED
    BY <1>1, <1>3, <2>4 DEF BeforeSession, list_vars
<1>4. QED
  BY <1>2, <1>3 DEF BeforeSession

(* Only the task itself ends its native. *)
LEMMA NativeRunsNext ==
    ASSUME IInv, [Step]_code_vars
    PROVE  NativeRuns'
<1>1. /\ thread \in [Threads -> {"java", "native"} \union Asleep]
      /\ vm \in VmType /\ NativeRuns
  BY DEF IInv, CodeType, SniType
<1>2. ASSUME NEW t \in Threads, Initialize(t) \/ Start(t) \/ Stop(t)
      PROVE  NativeRuns'
  BY <1>1, <1>2 DEF Initialize, Start, Stop, NativeRuns, sni_vars
<1>3. ASSUME NEW t \in Threads, Close(t) \/ Fetch(t)
      PROVE  NativeRuns'
  <2>1. vm'.thread = t
    BY <1>3 DEF Close, Fetch, Idle
  <2>2. thread' = [thread EXCEPT ![t] = "native"]
    BY <1>3 DEF Close, Fetch
  <2>3. QED
    BY <1>1, <2>1, <2>2 DEF NativeRuns
<1>4. ASSUME NEW t \in Threads, Timeout(t)
      PROVE  NativeRuns'
  <2>1. /\ vm' = vm /\ thread[t] # "native" /\ thread' = [thread EXCEPT ![t] = "java"]
    BY <1>4 DEF Timeout, Asleep
  <2>2. QED
    BY <1>1, <2>1 DEF NativeRuns
<1>5. CASE Add
  <2>1. thread' = thread /\ vm'.thread = vm.thread /\ vm.pc # "idle"
    BY <1>1, <1>5 DEF Add, InAdd, Add_Alloc, Add_Pop, Add_Head, Add_SetFirst, Add_Walk,
                      Add_Append, VmType, sni_vars
  <2>2. QED
    BY <1>1, <2>1 DEF NativeRuns
<1>6. CASE Suspend \/ CloseEnds
  BY <1>6 DEF Suspend, CloseEnds, Idle, NativeRuns
<1>7. CASE Consume_Resume
  <2>1. /\ vm' = vm
        /\ thread' = [thread EXCEPT ![signo.item] = IF @ \in Asleep THEN "java" ELSE @]
    BY <1>7 DEF Consume_Resume, InConsume
  <2>2. "native" \notin Asleep
    BY DEF Asleep
  <2>3. QED
    BY <1>1, <2>1, <2>2 DEF NativeRuns
<1>8. CASE Signalled \/ Quiet \/ Consume_Visit \/ Delete_Search \/ Delete_Unlink
           \/ Free_Link \/ Free_Push \/ DriverSignals \/ UNCHANGED code_vars
  <2>1. vm' = vm /\ thread' = thread
    BY <1>8 DEF Signalled, Quiet, Consume_Visit, Delete_Search, Delete_Unlink, Free_Link,
                Free_Push, DriverSignals, InConsume, code_vars, sni_vars
  <2>2. QED
    BY <1>1, <2>1 DEF NativeRuns
<1>9. QED
  BY <1>2, <1>3, <1>4, <1>5, <1>6, <1>7, <1>8 DEF Step, Call, VmTask, Signo, Consume

(* The first initialization links the whole array as free nodes. *)
LEMMA InitializeFits ==
    ASSUME IInv, sessions' <= 1, NEW t \in Threads, Initialize(t)
    PROVE  (sessions' > 0 => ListsFit') /\ AddFits' /\ ConsumeFits'
<1>1. sessions = 0
  BY GnssAssumption DEF IInv, CodeType, Initialize
<1>2. /\ vm.pc = "idle" /\ signo.pc = "none" /\ first = Null /\ free = 1
      /\ next = [n \in Nodes |-> Null]
  BY <1>1 DEF IInv, BeforeSession
<1>3. /\ vm' = vm /\ first' = first /\ free' = free
      /\ signo'.pc \in {"none", "wait"} /\ next' = Relinked
  <2>1. None.pc = "none" /\ [None EXCEPT !.pc = "wait"].pc = "wait"
    BY DEF None
  <2>2. \/ signo' \in {[None EXCEPT !.pc = "wait"], None}
        \/ signo' = signo
    BY Zenon DEF Initialize
  <2>3. signo'.pc \in {"none", "wait"}
    BY <1>2, <2>1, <2>2
  <2>4. QED
    BY <2>3 DEF Initialize
<1>4. Size \in Nat /\ Size # 0
  BY GnssAssumption
<1>5. \A n \in Nodes : next'[n] = IF n = Size THEN Null ELSE n + 1
  <2>1. \A n \in Nodes : n \in Nat /\ n >= 1 /\ (n < 1 + Size - 1 <=> n # Size)
    BY <1>4 DEF Nodes
  <2>2. free # Null
    BY <1>2 DEF Null
  <2>3. \A n \in Nodes : next'[n] = IF n >= 1 /\ n < 1 + Size - 1 THEN n + 1 ELSE Null
    BY <1>2, <1>3, <2>2 DEF Relinked
  <2>4. QED
    BY <2>1, <2>3
<1>6. IsList(next', free', Nodes) /\ IsList(next', first', {})
  BY <1>2, <1>3, <1>5, ArrayLinked, EmptyList
<1>7. Added' = {} /\ Deleted' = {}
  BY <1>2, <1>3 DEF Added, Deleted, Filled
<1>8. ListsFit'
  BY <1>6, <1>7, ListsNow
<1>9. QED
  BY <1>2, <1>3, <1>8 DEF AddFits, ConsumeFits, Filled

(* What every action of microej_list_add leaves alone. *)
LEMMA AddRest ==
    ASSUME IInv, Add
    PROVE  /\ ListsFit /\ AddFits /\ ConsumeFits /\ ~Race
           /\ vm \in VmType /\ signo \in SignoType /\ signo' = signo
           /\ Deleted' = Deleted
<1>1. vm \in VmType /\ signo \in SignoType
  BY DEF IInv, CodeType
<1>2. vm.pc \in Adding /\ signo' = signo
  BY DEF Add, InAdd, Add_Alloc, Add_Pop, Add_Head, Add_SetFirst, Add_Walk, Add_Append, Adding
<1>3. sessions > 0
  BY <1>2 DEF IInv, BeforeSession, CodeType, Adding
<1>4. QED
  BY <1>1, <1>2, <1>3 DEF IInv, Deleted

LEMMA AllocFits ==
    ASSUME IInv, Add_Alloc
    PROVE  ListsFit' /\ AddFits' /\ ConsumeFits'
<1>1. Add
  BY DEF Add
<1>2. /\ ListsFit /\ AddFits /\ ConsumeFits /\ vm \in VmType /\ signo' = signo
      /\ Deleted' = Deleted
  BY <1>1, AddRest
<1>3. UNCHANGED list_vars /\ vm.pc = "alloc"
  BY DEF Add_Alloc
<1>4. \/ vm'.pc = "suspend" /\ vm'.node = Null
      \/ vm'.pc = "pop" /\ free # Null /\ vm'.node = free /\ vm'.after = next[free]
  <2>1. CASE free = Null
    BY <1>2, <1>3, <2>1 DEF Add_Alloc, VmType, AddFits
  <2>2. CASE free # Null
    BY <1>2, <2>2 DEF Add_Alloc, VmType
  <2>3. QED
    BY <2>1, <2>2
<1>5. Added' = Added
  BY <1>3, <1>4 DEF Added, Filled
<1>6. ListsFit'
  BY <1>2, <1>3, <1>5, ListsSame
<1>7. AddFits'
  BY <1>3, <1>4 DEF AddFits, Filled, list_vars
<1>8. ConsumeFits'
  BY <1>2, <1>3 DEF ConsumeFits, list_vars
<1>9. QED
  BY <1>6, <1>7, <1>8

LEMMA PopFits ==
    ASSUME IInv, Add_Pop
    PROVE  ListsFit' /\ AddFits' /\ ConsumeFits' /\ Grows
<1>1. Add
  BY DEF Add
<1>2. /\ ListsFit /\ AddFits /\ ConsumeFits /\ ~Race
      /\ vm \in VmType /\ signo \in SignoType /\ signo' = signo /\ Deleted' = Deleted
  BY <1>1, AddRest
<1>3. /\ vm.pc = "pop" /\ first' = first /\ free' = vm.after
      /\ item' = [item EXCEPT ![vm.node] = vm.thread]
      /\ next' = [next EXCEPT ![vm.node] = Null]
      /\ vm' = [vm EXCEPT !.pc = "head"]
  BY DEF Add_Pop
<1>4. /\ vm'.pc = "head" /\ vm'.node = vm.node /\ vm'.thread = vm.thread
      /\ vm.node = free /\ free # Null /\ free' = next[free]
  BY <1>2, <1>3 DEF AddFits, VmType
<1>5. /\ next \in [Nodes -> Pointers] /\ item \in [Nodes -> Threads \union {NoThread}]
  BY DEF IInv, CodeType, ListType
<1> DEFINE W == Chain(first)
           F == Chain(free)
<1>d. Added = {}
  BY <1>3 DEF Added, Filled
<1>6. /\ IsList(next, first, W) /\ IsList(next, free, F)
      /\ W \intersect F = {} /\ W \union F = Nodes \ Deleted
  BY <1>2, <1>d DEF ListsFit
<1>7. /\ free \in F /\ free \in Nodes /\ free \notin W /\ free \notin Deleted
      /\ W \subseteq Nodes /\ F \subseteq Nodes
  BY <1>4, <1>6, ListNodes
<1> HIDE DEF W, F
<1>8. /\ \A n \in Nodes \ {free} : next'[n] = next[n] /\ item'[n] = item[n]
      /\ next'[free] = Null /\ item'[free] = vm.thread
  BY <1>3, <1>4, <1>5, <1>7
<1>9. IsList(next', first', W)
  BY <1>3, <1>6, <1>7, <1>8, ListKept
<1>10. IsList(next, free', F \ {free})
  BY <1>4, <1>6, RestOfList
<1>11. IsList(next', free', F \ {free})
  BY <1>7, <1>8, <1>10, ListKept
<1>12. Added' = {free} /\ Deleted' = Deleted
  BY <1>2, <1>4 DEF Added, Filled
<1>13. \A n \in W : item'[n] \in Threads
  BY <1>2, <1>7, <1>8 DEF ListsFit, W
<1>14. /\ W \intersect (F \ {free}) = {} /\ Added' \intersect Deleted' = {}
       /\ W \union (F \ {free}) = Nodes \ (Added' \union Deleted')
  BY <1>6, <1>7, <1>12
<1>15. ListsFit' /\ Chain(first)' = W
  BY <1>9, <1>11, <1>13, <1>14, ListsNow
<1>16. AddFits'
  BY <1>4, <1>7, <1>8 DEF AddFits, Filled
<1>17. Grows
  BY <1>7, <1>8, <1>15 DEF Grows, W
<1>18. ConsumeFits'
  <2>1. signo.pc # "push"
    BY <1>2, <1>3 DEF Race
  <2>2. signo.pc \in {"resume", "search", "unlink"} => first \in W
    BY <1>2, <1>6, ListNodes DEF ConsumeFits
  <2>3. signo.pc \in {"resume", "search", "unlink"} =>
            next'[first] = next[first] /\ item'[first] = item[first]
    BY <1>7, <1>8, <2>2
  <2>4. QED
    BY <1>2, <1>3, <2>1, <2>3 DEF ConsumeFits
<1>19. QED
  BY <1>15, <1>16, <1>17, <1>18

LEMMA HeadFits ==
    ASSUME IInv, Add_Head
    PROVE  ListsFit' /\ AddFits' /\ ConsumeFits'
<1>1. Add
  BY DEF Add
<1>2. /\ ListsFit /\ AddFits /\ ConsumeFits /\ ~Race
      /\ vm \in VmType /\ signo \in SignoType /\ signo' = signo /\ Deleted' = Deleted
  BY <1>1, AddRest
<1>3. UNCHANGED list_vars /\ vm.pc = "head"
  BY DEF Add_Head
<1>4. /\ vm'.node = vm.node /\ vm'.thread = vm.thread
      /\ \/ vm'.pc = "set_first" /\ first = Null
         \/ vm'.pc = "walk" /\ first # Null /\ vm'.current = first
  <2>1. CASE first = Null
    BY <1>2, <2>1 DEF Add_Head, VmType
  <2>2. CASE first # Null
    BY <1>2, <2>2 DEF Add_Head, VmType
  <2>3. QED
    BY <2>1, <2>2
<1>5. Added' = Added
  BY <1>3, <1>4 DEF Added, Filled
<1>6. ListsFit' /\ Chain(first)' = Chain(first)
  BY <1>2, <1>3, <1>5, ListsSame
<1>7. first # Null => first \in Chain(first)
  BY <1>2, ListNodes DEF ListsFit
<1>8. AddFits'
  BY <1>2, <1>3, <1>4, <1>6, <1>7 DEF AddFits, Filled, list_vars
<1>9. ConsumeFits'
  BY <1>2, <1>3 DEF ConsumeFits, list_vars
<1>10. QED
  BY <1>6, <1>8, <1>9

LEMMA SetFirstFits ==
    ASSUME IInv, Add_SetFirst
    PROVE  ListsFit' /\ AddFits' /\ ConsumeFits' /\ Grows /\ vm.node \in Chain(first)'
<1>1. Add
  BY DEF Add
<1>2. /\ ListsFit /\ AddFits /\ ConsumeFits /\ ~Race
      /\ vm \in VmType /\ signo \in SignoType /\ signo' = signo /\ Deleted' = Deleted
  BY <1>1, AddRest
<1>3. /\ vm.pc = "set_first" /\ first' = vm.node /\ vm'.pc = "suspend"
      /\ free' = free /\ next' = next /\ item' = item
  BY <1>2 DEF Add_SetFirst, VmType
<1>4. /\ vm.node \in Nodes /\ next[vm.node] = Null /\ item[vm.node] = vm.thread
      /\ first = Null
  BY <1>2, <1>3 DEF AddFits, Filled
<1>5. vm.thread \in Threads
  BY <1>3 DEF IInv, NativeRuns
<1>6. Chain(first) = {}
  BY <1>2, <1>4, ListNodes DEF ListsFit
<1>7. /\ Added = {vm.node} /\ Added' = {} /\ Deleted' = Deleted
  BY <1>2, <1>3 DEF Added, Filled
<1> DEFINE F == Chain(free)
<1>8. /\ IsList(next, free, F) /\ F = Nodes \ ({vm.node} \union Deleted)
      /\ vm.node \notin Deleted
  BY <1>2, <1>6, <1>7 DEF ListsFit
<1> HIDE DEF F
<1>9. IsList(next, vm.node, {} \union {vm.node})
  BY <1>4, EmptyList, ListPushed
<1>10. IsList(next', first', {vm.node}) /\ IsList(next', free', F)
  BY <1>3, <1>8, <1>9
<1>11. /\ {vm.node} \intersect F = {} /\ Added' \intersect Deleted' = {}
       /\ {vm.node} \union F = Nodes \ (Added' \union Deleted')
       /\ \A n \in {vm.node} : item'[n] \in Threads
  BY <1>3, <1>4, <1>5, <1>7, <1>8
<1>12. ListsFit' /\ Chain(first)' = {vm.node}
  BY <1>10, <1>11, ListsNow
<1>13. AddFits'
  BY <1>3 DEF AddFits, Filled
<1>14. Grows
  BY <1>6 DEF Grows
<1>15. ConsumeFits'
  BY <1>2, <1>3, <1>4 DEF ConsumeFits
<1>16. QED
  BY <1>12, <1>13, <1>14, <1>15

LEMMA WalkFits ==
    ASSUME IInv, Add_Walk
    PROVE  ListsFit' /\ AddFits' /\ ConsumeFits'
<1>1. Add
  BY DEF Add
<1>2. /\ ListsFit /\ AddFits /\ ConsumeFits /\ ~Race
      /\ vm \in VmType /\ signo \in SignoType /\ signo' = signo /\ Deleted' = Deleted
  BY <1>1, AddRest
<1>3. UNCHANGED list_vars /\ vm.pc = "walk"
  BY DEF Add_Walk
<1>4. /\ vm'.node = vm.node /\ vm'.thread = vm.thread
      /\ \/ vm'.pc = "append" /\ vm'.current = vm.current /\ next[vm.current] = Null
         \/ vm'.pc = "walk" /\ vm'.current = next[vm.current] /\ next[vm.current] # Null
  <2>1. CASE next[vm.current] = Null
    BY <1>2, <2>1 DEF Add_Walk, VmType
  <2>2. CASE next[vm.current] # Null
    BY <1>2, <1>3, <2>2 DEF Add_Walk, VmType
  <2>3. QED
    BY <2>1, <2>2
<1>5. Added' = Added
  BY <1>3, <1>4 DEF Added, Filled
<1>6. ListsFit' /\ Chain(first)' = Chain(first)
  BY <1>2, <1>3, <1>5, ListsSame
<1>7. /\ vm.current \in Chain(first)
      /\ next[vm.current] # Null => next[vm.current] \in Chain(first)
  BY <1>2, <1>3, ListNodes DEF ListsFit, AddFits
<1>8. AddFits'
  BY <1>2, <1>3, <1>4, <1>6, <1>7 DEF AddFits, Filled, list_vars
<1>9. ConsumeFits'
  BY <1>2, <1>3 DEF ConsumeFits, list_vars
<1>10. QED
  BY <1>6, <1>8, <1>9

LEMMA AppendFits ==
    ASSUME IInv, Add_Append
    PROVE  /\ ListsFit' /\ AddFits' /\ ConsumeFits' /\ Grows
           /\ vm.node \in Chain(first)' /\ first' = first /\ first \in Chain(first)
           /\ vm.node # first
<1>1. Add
  BY DEF Add
<1>2. /\ ListsFit /\ AddFits /\ ConsumeFits /\ ~Race
      /\ vm \in VmType /\ signo \in SignoType /\ signo' = signo /\ Deleted' = Deleted
  BY <1>1, AddRest
<1>3. /\ vm.pc = "append" /\ next' = [next EXCEPT ![vm.current] = vm.node]
      /\ vm'.pc = "suspend" /\ first' = first /\ free' = free /\ item' = item
  BY <1>2 DEF Add_Append, VmType
<1>4. /\ vm.node \in Nodes /\ next[vm.node] = Null /\ item[vm.node] = vm.thread
      /\ vm.current \in Chain(first) /\ next[vm.current] = Null
  BY <1>2, <1>3 DEF AddFits, Filled
<1>5. vm.thread \in Threads /\ next \in [Nodes -> Pointers]
  BY <1>3 DEF IInv, NativeRuns, CodeType, ListType
<1>6. /\ Added = {vm.node} /\ Added' = {} /\ Deleted' = Deleted
  BY <1>2, <1>3 DEF Added, Filled
<1> DEFINE W == Chain(first)
           F == Chain(free)
<1>7. /\ IsList(next, first, W) /\ IsList(next, free, F)
      /\ W \intersect F = {} /\ W \union F = Nodes \ ({vm.node} \union Deleted)
      /\ vm.current \in W /\ vm.node \notin Deleted
  BY <1>2, <1>4, <1>6 DEF ListsFit
<1>8. \A n \in W : item[n] \in Threads
  BY <1>2 DEF ListsFit
<1> HIDE DEF W, F
<1>9. /\ W \subseteq Nodes /\ F \subseteq Nodes /\ vm.node \notin W /\ vm.current \in Nodes
      /\ vm.node \notin F /\ vm.current \notin F /\ vm.current # vm.node
      /\ vm.current \notin Deleted
  BY <1>7
<1>10. /\ next'[vm.current] = vm.node /\ next'[vm.node] = Null
       /\ \A n \in Nodes \ {vm.current} : next'[n] = next[n]
  BY <1>3, <1>4, <1>5, <1>9
<1>11. IsList(next', first', W \union {vm.node})
  <2>1. \A n \in W \ {vm.current} : next'[n] = next[n]
    BY <1>9, <1>10
  <2>2. /\ IsList(next, first, W) /\ vm.current \in W /\ next[vm.current] = Null
        /\ vm.node \in Nodes /\ vm.node \notin W
    BY <1>4, <1>7, <1>9
  <2>3. IsList(next', first, W \union {vm.node})
    BY <1>10, <2>1, <2>2, ListAppended
  <2>4. QED
    BY <1>3, <2>3
<1>12. IsList(next', free', F)
  <2>1. \A n \in F : next'[n] = next[n]
    BY <1>9, <1>10
  <2>2. QED
    BY <1>3, <1>7, <2>1, ListKept
<1>13. /\ (W \union {vm.node}) \intersect F = {}
       /\ (W \union {vm.node}) \union F = Nodes \ (Added' \union Deleted')
       /\ Added' \intersect Deleted' = {}
       /\ \A n \in W \union {vm.node} : item'[n] \in Threads
  BY <1>3, <1>4, <1>5, <1>6, <1>7, <1>8, <1>9
<1>14. ListsFit' /\ Chain(first)' = W \union {vm.node}
  BY <1>11, <1>12, <1>13, ListsNow
<1>15. AddFits'
  BY <1>3 DEF AddFits, Filled
<1>16. Grows
  BY <1>3, <1>14 DEF Grows, W
<1>17. first \in W
  BY <1>7, ListNodes
<1>18. ConsumeFits'
  <2>1. signo.pc \in {"free", "push"} => signo.node \in Nodes \ {vm.current}
    BY <1>2, <1>9 DEF ConsumeFits, Deleted
  <2>2. signo.pc = "push" => next'[signo.node] = free
    BY <1>2, <1>10, <2>1 DEF ConsumeFits
  <2>3. first # vm.current => next'[first] = next[first]
    BY <1>9, <1>10, <1>17
  <2>4. first = vm.current => next[first] = Null
    BY <1>4
  <2>5. signo.pc = "unlink" => signo.node = first /\ first # vm.current
    BY <1>2, <1>3 DEF ConsumeFits, Race
  <2>6. signo.pc \in {"resume", "search", "unlink"} => signo.tmp \in {next'[first], Null}
    BY <1>2, <2>3, <2>4 DEF ConsumeFits
  <2>7. QED
    BY <1>2, <1>3, <2>2, <2>3, <2>5, <2>6 DEF ConsumeFits
<1>19. QED
  BY <1>3, <1>9, <1>14, <1>15, <1>16, <1>17, <1>18 DEF W

(* What every action of microej_list_consume leaves alone. *)
LEMMA ConsumeRest ==
    ASSUME IInv, Consume
    PROVE  /\ ListsFit /\ ConsumeFits /\ AddFits /\ ~Race
           /\ vm \in VmType /\ signo \in SignoType /\ ListType
           /\ vm' = vm /\ Added' = Added
<1>1. vm \in VmType /\ signo \in SignoType /\ ListType
  BY DEF IInv, CodeType
<1>2. signo.pc \in Consuming /\ vm' = vm
  BY DEF Consume, InConsume, Consume_Visit, Consume_Resume, Delete_Search, Delete_Unlink,
         Free_Link, Free_Push, Consuming
<1>3. sessions > 0
  BY <1>2 DEF IInv, BeforeSession, CodeType, Consuming
<1>4. QED
  BY <1>1, <1>2, <1>3 DEF IInv, Added

LEMMA VisitFits ==
    ASSUME IInv, Consume_Visit
    PROVE  ListsFit' /\ AddFits' /\ ConsumeFits'
<1>1. /\ ListsFit /\ ConsumeFits /\ AddFits /\ vm \in VmType /\ signo \in SignoType
      /\ ListType /\ vm' = vm /\ Added' = Added
  BY ConsumeRest DEF Consume
<1>2. signo.pc = "visit" /\ signo.current \in {first, Null}
  BY <1>1 DEF Consume_Visit, ConsumeFits
<1>3. UNCHANGED list_vars
  BY DEF Consume_Visit
<1>4. next' = next /\ first' = first /\ free' = free /\ item' = item
  BY <1>3 DEF list_vars
<1>5. \/ signo'.pc \in {"none", "wait"}
      \/ /\ signo'.pc = "resume" /\ first # Null
         /\ signo'.tmp = next[first] /\ signo'.item = item[first]
  <2>1. CASE signo.current # Null
    <3>1. signo' = [signo EXCEPT !.pc = "resume", !.tmp = next[signo.current],
                                 !.item = item[signo.current]]
      BY <1>2, <2>1, Zenon DEF Consume_Visit
    <3>2. QED
      BY <1>1, <1>2, <2>1, <3>1 DEF SignoType
  <2>2. CASE signo.current = Null
    <3>1. [None EXCEPT !.pc = "wait"].pc = "wait" /\ None.pc = "none"
      BY DEF None
    <3>2. CASE running
      <4>1. signo' = [None EXCEPT !.pc = "wait"]
        BY <1>2, <2>2, <3>2, Zenon DEF Consume_Visit
      <4>2. QED
        BY <3>1, <4>1
    <3>3. CASE ~running
      <4>1. signo' = None
        BY <1>2, <2>2, <3>3, Zenon DEF Consume_Visit
      <4>2. QED
        BY <3>1, <4>1
    <3>4. QED
      BY <3>2, <3>3
  <2>3. QED
    BY <2>1, <2>2
<1>6. Deleted' = Deleted
  BY <1>2, <1>5 DEF Deleted
<1>7. ListsFit' /\ Chain(first)' = Chain(first)
  BY <1>1, <1>3, <1>6, ListsSame
<1>8. ConsumeFits'
  BY <1>4, <1>5 DEF ConsumeFits
<1>9. AddFits'
  BY <1>1, <1>4, <1>7 DEF AddFits
<1>10. QED
  BY <1>7, <1>8, <1>9

LEMMA ResumeFits ==
    ASSUME IInv, Consume_Resume
    PROVE  ListsFit' /\ AddFits' /\ ConsumeFits'
<1>1. /\ ListsFit /\ ConsumeFits /\ AddFits /\ vm \in VmType /\ signo \in SignoType
      /\ ListType /\ vm' = vm /\ Added' = Added
  BY ConsumeRest DEF Consume
<1>2. /\ signo.pc = "resume" /\ UNCHANGED list_vars
      /\ signo' = [signo EXCEPT !.pc = "search", !.at = first]
  BY DEF Consume_Resume
<1>3. next' = next /\ first' = first /\ free' = free /\ item' = item
  BY <1>2 DEF list_vars
<1>4. /\ signo'.pc = "search" /\ signo'.at = first
      /\ signo'.tmp = signo.tmp /\ signo'.item = signo.item
  BY <1>1, <1>2 DEF SignoType
<1>5. Deleted' = Deleted
  BY <1>2, <1>4 DEF Deleted
<1>6. ListsFit' /\ Chain(first)' = Chain(first)
  BY <1>1, <1>2, <1>5, ListsSame
<1>7. ConsumeFits'
  BY <1>1, <1>2, <1>3, <1>4 DEF ConsumeFits
<1>8. AddFits'
  BY <1>1, <1>3, <1>6 DEF AddFits
<1>9. QED
  BY <1>6, <1>7, <1>8

(* The search of a node that is the first one. *)
LEMMA SearchFits ==
    ASSUME IInv, Delete_Search
    PROVE  ListsFit' /\ AddFits' /\ ConsumeFits'
<1>1. /\ ListsFit /\ ConsumeFits /\ AddFits /\ vm \in VmType /\ signo \in SignoType
      /\ ListType /\ vm' = vm /\ Added' = Added
  BY ConsumeRest DEF Consume
<1>2. signo.pc = "search" /\ UNCHANGED list_vars
  BY DEF Delete_Search
<1>3. next' = next /\ first' = first /\ free' = free /\ item' = item
  BY <1>2 DEF list_vars
<1>4. /\ signo.at = first /\ first # Null /\ item[first] = signo.item
      /\ signo.tmp \in {next[first], Null}
  BY <1>1, <1>2 DEF ConsumeFits
<1>5. signo' = [signo EXCEPT !.pc = "unlink", !.at = Null, !.node = first,
                             !.after = next[first]]
  BY <1>4, Zenon DEF Delete_Search
<1>6. /\ signo'.pc = "unlink" /\ signo'.at = Null /\ signo'.node = first
      /\ signo'.after = next[first] /\ signo'.tmp = signo.tmp /\ signo'.item = signo.item
  BY <1>1, <1>5 DEF SignoType
<1>7. Deleted' = Deleted
  BY <1>2, <1>6 DEF Deleted
<1>8. ListsFit' /\ Chain(first)' = Chain(first)
  BY <1>1, <1>2, <1>7, ListsSame
<1>9. ConsumeFits'
  BY <1>3, <1>4, <1>6 DEF ConsumeFits
<1>10. AddFits'
  BY <1>1, <1>3, <1>8 DEF AddFits
<1>11. QED
  BY <1>8, <1>9, <1>10

LEMMA UnlinkFits ==
    ASSUME IInv, Delete_Unlink
    PROVE  /\ ListsFit' /\ AddFits' /\ ConsumeFits' /\ item' = item
           /\ Chain(first)' = Chain(first) \ {first}
<1>1. /\ ListsFit /\ ConsumeFits /\ AddFits /\ vm \in VmType /\ signo \in SignoType
      /\ ListType /\ vm' = vm /\ Added' = Added
  BY ConsumeRest DEF Consume
<1>2. /\ signo.pc = "unlink" /\ free' = free /\ item' = item
      /\ signo' = [signo EXCEPT !.pc = "free"]
  BY DEF Delete_Unlink
<1>3. /\ signo.at = Null /\ signo.node = first /\ signo.after = next[first]
      /\ signo.tmp \in {next[first], Null} /\ first # Null
  BY <1>1, <1>2 DEF ConsumeFits
<1>4. first' = next[first] /\ next' = next
  BY <1>3 DEF Delete_Unlink
<1>5. signo'.pc = "free" /\ signo'.node = first /\ signo'.tmp \in {first', Null}
  BY <1>1, <1>2, <1>3, <1>4 DEF SignoType
<1> DEFINE W == Chain(first)
           F == Chain(free)
<1>6. /\ IsList(next, first, W) /\ IsList(next, free, F)
      /\ W \intersect F = {} /\ W \union F = Nodes \ Added /\ \A n \in W : item[n] \in Threads
  BY <1>1, <1>2 DEF ListsFit, Deleted
<1> HIDE DEF W, F
<1>7. first \in W /\ first \in Nodes /\ first \notin Added
  BY <1>3, <1>6, ListNodes
<1>8. IsList(next, next[first], W \ {first})
  BY <1>3, <1>6, RestOfList
<1>9. IsList(next', first', W \ {first}) /\ IsList(next', free', F)
  BY <1>2, <1>4, <1>6, <1>8
<1>d. Deleted' = {first}
  BY <1>5 DEF Deleted
<1>10. /\ (W \ {first}) \intersect F = {} /\ Added' \intersect Deleted' = {}
       /\ (W \ {first}) \union F = Nodes \ (Added' \union Deleted')
       /\ \A n \in W \ {first} : item'[n] \in Threads
  BY <1>1, <1>2, <1>6, <1>7, <1>d
<1>11. ListsFit' /\ Chain(first)' = W \ {first}
  BY <1>9, <1>10, ListsNow
<1>12. ConsumeFits'
  BY <1>5, <1>7 DEF ConsumeFits
<1>13. AddFits'
  <2>1. vm.pc \in {"walk", "append"} => vm.current \in W \ {first}
    BY <1>1, <1>2, <1>3, ConsumeRest DEF AddFits, Race, Consume, W
  <2>2. vm.pc # "set_first"
    BY <1>1, <1>3 DEF AddFits
  <2>3. QED
    BY <1>1, <1>2, <1>4, <1>11, <2>1, <2>2 DEF AddFits
<1>14. QED
  BY <1>2, <1>11, <1>12, <1>13 DEF W

(* Only the link of a node of no chain changes. *)
LEMMA FreeLinkFits ==
    ASSUME IInv, ~Race', Free_Link
    PROVE  ListsFit' /\ AddFits' /\ ConsumeFits' /\ Grows
<1>1. /\ ListsFit /\ ConsumeFits /\ AddFits /\ vm \in VmType /\ signo \in SignoType
      /\ ListType /\ vm' = vm /\ Added' = Added
  BY ConsumeRest DEF Consume
<1>2. /\ signo.pc = "free" /\ first' = first /\ free' = free /\ item' = item
      /\ next' = [next EXCEPT ![signo.node] = free]
      /\ signo' = [signo EXCEPT !.pc = "push"]
  BY DEF Free_Link
<1>3. /\ signo.node \in Nodes /\ signo.tmp \in {first, Null}
      /\ signo'.pc = "push" /\ signo'.node = signo.node /\ signo'.tmp = signo.tmp
  BY <1>1, <1>2 DEF ConsumeFits, SignoType
<1>4. Deleted = {signo.node} /\ Deleted' = {signo.node}
  BY <1>2, <1>3 DEF Deleted
<1> DEFINE W == Chain(first)
           F == Chain(free)
<1>5. /\ IsList(next, first, W) /\ IsList(next, free, F)
      /\ W \intersect F = {} /\ W \union F = Nodes \ (Added \union {signo.node})
      /\ \A n \in W : item[n] \in Threads
      /\ signo.node \notin Added
  BY <1>1, <1>4 DEF ListsFit
<1> HIDE DEF W, F
<1>6. /\ next'[signo.node] = free
      /\ \A n \in Nodes \ {signo.node} : next'[n] = next[n]
  BY <1>1, <1>2, <1>3 DEF ListType
<1>7. (\A n \in W : next'[n] = next[n]) /\ (\A n \in F : next'[n] = next[n])
  BY <1>5, <1>6
<1>8. IsList(next', first, W) /\ IsList(next', free, F)
  BY <1>5, <1>7, ListKept
<1>9. /\ IsList(next', first', W) /\ IsList(next', free', F)
      /\ W \union F = Nodes \ (Added' \union Deleted')
      /\ Added' \intersect Deleted' = {} /\ \A n \in W : item'[n] \in Threads
  BY <1>1, <1>2, <1>4, <1>5, <1>8
<1>10. ListsFit' /\ Chain(first)' = W
  BY <1>5, <1>9, ListsNow
<1>11. ConsumeFits'
  BY <1>2, <1>3, <1>6 DEF ConsumeFits
<1>12. Grows
  BY <1>2, <1>10 DEF Grows, W
<1>13. AddFits'
  <2>1. vm.pc # "pop"
    BY <1>1, <1>3 DEF Race
  <2>2. vm.pc \in Filled => vm.node \in Nodes \ {signo.node}
    BY <1>1, <1>5 DEF AddFits, Added
  <2>3. vm.pc \in {"walk", "append"} => vm.current \in W /\ vm.current \in Nodes \ {signo.node}
    BY <1>1, <1>5 DEF AddFits, W
  <2>4. QED
    BY <1>1, <1>2, <1>6, <1>10, <2>1, <2>2, <2>3 DEF AddFits, Filled
<1>14. QED
  BY <1>10, <1>11, <1>12, <1>13

LEMMA FreePushFits ==
    ASSUME IInv, Free_Push
    PROVE  ListsFit' /\ AddFits' /\ ConsumeFits' /\ Grows
<1>1. /\ ListsFit /\ ConsumeFits /\ AddFits /\ vm \in VmType /\ signo \in SignoType
      /\ ListType /\ vm' = vm /\ Added' = Added
  BY ConsumeRest DEF Consume
<1>2. /\ signo.pc = "push" /\ first' = first /\ free' = signo.node
      /\ next' = next /\ item' = item
      /\ signo' = [signo EXCEPT !.pc = "visit", !.current = signo.tmp]
  BY DEF Free_Push
<1>3. /\ signo.node \in Nodes /\ next[signo.node] = free
      /\ signo'.pc = "visit" /\ signo'.current \in {first, Null}
  BY <1>1, <1>2 DEF ConsumeFits, SignoType
<1>4. Deleted = {signo.node} /\ Deleted' = {}
  BY <1>2, <1>3 DEF Deleted
<1> DEFINE W == Chain(first)
           F == Chain(free)
<1>5. /\ IsList(next, first, W) /\ IsList(next, free, F)
      /\ W \intersect F = {} /\ W \union F = Nodes \ (Added \union {signo.node})
      /\ \A n \in W : item[n] \in Threads
      /\ signo.node \notin Added
  BY <1>1, <1>4 DEF ListsFit
<1> HIDE DEF W, F
<1>6. signo.node \notin F /\ signo.node \notin W
  BY <1>5
<1>7. IsList(next, signo.node, F \union {signo.node})
  BY <1>3, <1>5, <1>6, ListPushed
<1>8. IsList(next', first', W) /\ IsList(next', free', F \union {signo.node})
  BY <1>2, <1>5, <1>7
<1>9. /\ W \intersect (F \union {signo.node}) = {}
      /\ W \union (F \union {signo.node}) = Nodes \ (Added' \union Deleted')
      /\ Added' \intersect Deleted' = {}
      /\ \A n \in W : item'[n] \in Threads
  BY <1>1, <1>2, <1>3, <1>4, <1>5, <1>6
<1>10. ListsFit' /\ Chain(first)' = W
  BY <1>8, <1>9, ListsNow
<1>11. ConsumeFits'
  BY <1>2, <1>3 DEF ConsumeFits
<1>12. Grows
  BY <1>2, <1>10 DEF Grows, W
<1>13. AddFits'
  <2>1. vm.pc # "pop"
    BY <1>2, ConsumeRest DEF Race, Consume
  <2>2. QED
    BY <1>1, <1>2, <1>10, <2>1 DEF AddFits, W
<1>14. QED
  BY <1>10, <1>11, <1>12, <1>13

(* A consumption begins, at the first node. *)
LEMMA SignalledFits ==
    ASSUME IInv, Signalled
    PROVE  (sessions' > 0 => ListsFit') /\ AddFits' /\ ConsumeFits'
<1>1. [None EXCEPT !.pc = "visit", !.current = first].pc = "visit"
      /\ [None EXCEPT !.pc = "visit", !.current = first].current = first
  BY DEF None
<1>2. /\ signo.pc = "wait" /\ signo'.pc = "visit" /\ signo'.current = first
      /\ vm' = vm /\ UNCHANGED list_vars /\ sessions' = sessions
  BY <1>1 DEF Signalled
<1>3. /\ first' = first /\ free' = free /\ next' = next /\ item' = item
      /\ Added' = Added /\ Deleted' = Deleted
  BY <1>2 DEF list_vars, Added, Deleted
<1>4. sessions' > 0 => ListsFit' /\ Chain(first)' = Chain(first)
  BY <1>2, <1>3, ListsSame DEF IInv
<1>5. vm.pc \in {"walk", "append"} => sessions > 0
  BY DEF IInv, BeforeSession, CodeType
<1>6. AddFits'
  BY <1>2, <1>3, <1>4, <1>5 DEF IInv, AddFits
<1>7. ConsumeFits'
  BY <1>2, <1>3 DEF ConsumeFits
<1>8. QED
  BY <1>4, <1>6, <1>7

LEMMA FitsNext ==
    ASSUME IInv, ~Race', sessions' <= 1, [Step]_code_vars
    PROVE  (sessions' > 0 => ListsFit') /\ AddFits' /\ ConsumeFits'
<1>2. ASSUME NEW t \in Threads, Initialize(t)
      PROVE  (sessions' > 0 => ListsFit') /\ AddFits' /\ ConsumeFits'
  BY <1>2, InitializeFits
<1>3. ASSUME NEW t \in Threads, Start(t) \/ Stop(t) \/ Timeout(t)
      PROVE  (sessions' > 0 => ListsFit') /\ AddFits' /\ ConsumeFits'
  <2>1. sessions' = sessions /\ UNCHANGED list_vars /\ vm' = vm /\ signo' = signo
    BY <1>3 DEF Start, Stop, Timeout
  <2>2. QED
    BY <2>1, PlacesKept
<1>4. ASSUME NEW t \in Threads, Close(t) \/ Fetch(t)
      PROVE  (sessions' > 0 => ListsFit') /\ AddFits' /\ ConsumeFits'
  <2>1. sessions' = sessions /\ UNCHANGED list_vars /\ signo' = signo /\ vm = Idle
    BY <1>4 DEF Close, Fetch, Callable
  <2>2. vm.pc \notin Adding /\ vm'.pc \in {"join", "alloc"} /\ vm'.node = Null
    BY <1>4, <2>1 DEF Close, Fetch, Idle, Adding
  <2>3. vm'.pc \notin Adding \ {"alloc"}
    BY <2>2 DEF Adding
  <2>4. QED
    BY <2>1, <2>2, <2>3, PlacesKept
<1>5. CASE Suspend \/ CloseEnds
  <2>1. sessions' = sessions /\ UNCHANGED list_vars /\ signo' = signo /\ vm' = Idle
    BY <1>5 DEF Suspend, CloseEnds
  <2>2. vm.pc \in {"suspend", "join"}
    BY <1>5 DEF Suspend, CloseEnds
  <2>3. vm.pc \notin Adding /\ vm'.pc \notin Adding \ {"alloc"} /\ vm'.node = Null
    BY <2>1, <2>2 DEF Idle, Adding
  <2>4. QED
    BY <2>1, <2>3, PlacesKept
<1>6. CASE Quiet
  <2>1. /\ sessions' = sessions /\ UNCHANGED list_vars /\ vm' = vm
        /\ signo.pc = "wait" /\ signo' = None
    BY <1>6 DEF Quiet
  <2>2. signo'.pc = "none"
    BY <2>1 DEF None
  <2>3. QED
    BY <2>1, <2>2, PlacesKept
<1>7. CASE DriverSignals \/ UNCHANGED code_vars
  <2>1. sessions' = sessions /\ UNCHANGED list_vars /\ vm' = vm /\ signo' = signo
    BY <1>7 DEF DriverSignals, code_vars
  <2>2. QED
    BY <2>1, PlacesKept
<1>8. CASE Add
  BY <1>8, AllocFits, PopFits, HeadFits, SetFirstFits, WalkFits, AppendFits DEF Add
<1>9. CASE Signalled
  BY <1>9, SignalledFits
<1>10. CASE Consume
  BY <1>10, VisitFits, ResumeFits, SearchFits, UnlinkFits, FreeLinkFits, FreePushFits
     DEF Consume
<1>11. QED
  BY <1>2, <1>3, <1>4, <1>5, <1>6, <1>7, <1>8, <1>9, <1>10
     DEF Step, Call, VmTask, Signo

-----------------------------------------------------------------------------
(* Who waits stays in the list.                                             *)

(* A step by which nobody begins to wait, no node leaves the list and none  *)
(* begins to be deleted. *)
LEMMA WaitersKept ==
    ASSUME WaitersFit, Grows, \A t \in Threads : Waits(t)' => Waits(t),
           signo'.pc \in {"search", "unlink"} => signo.pc \in {"search", "unlink"} /\ first' = first
    PROVE  WaitersFit'
<1>1. ASSUME NEW t \in Threads, Waits(t)'
      PROVE  \E n \in Chain(first)' : Keeps(t, n)'
  <2>1. PICK n \in Chain(first) : Keeps(t, n)
    BY <1>1 DEF WaitersFit
  <2>2. n \in Chain(first)' /\ item'[n] = item[n]
    BY <2>1 DEF Grows
  <2>3. Keeps(t, n)'
    BY <2>1, <2>2 DEF Keeps
  <2>4. QED
    BY <2>2, <2>3
<1>2. QED
  BY <1>1 DEF WaitersFit

LEMMA CallWaiters ==
    ASSUME IInv, sessions' <= 1, NEW t \in Threads, Call(t) \/ Timeout(t)
    PROVE  WaitersFit'
<1>1. /\ thread \in [Threads -> {"java", "native"} \union Asleep]
      /\ resumed \in [Threads -> BOOLEAN]
      /\ vm \in VmType /\ signo \in SignoType /\ WaitersFit
  BY DEF IInv, CodeType, SniType
<1>2. CASE Initialize(t)
  <2>1. sessions = 0
    BY <1>2, GnssAssumption DEF IInv, CodeType, Initialize
  <2>2. vm.pc = "idle" /\ \A u \in Threads : thread[u] = "java"
    BY <2>1 DEF IInv, BeforeSession
  <2>3. vm' = vm /\ thread' = thread
    BY <1>2 DEF Initialize, sni_vars
  <2>4. QED
    BY <2>2, <2>3 DEF WaitersFit, Waits
<1>3. CASE Start(t) \/ Stop(t) \/ Close(t) \/ Fetch(t) \/ Timeout(t)
  <2>1. UNCHANGED list_vars /\ signo' = signo /\ resumed' = resumed
    BY <1>3 DEF Start, Stop, Close, Fetch, Timeout, sni_vars
  <2>2. vm' = vm \/ vm'.pc \in {"join", "alloc"}
    BY <1>3 DEF Start, Stop, Close, Fetch, Timeout, Idle
  <2>3. thread' = thread \/ \E s \in {"java", "native"} : thread' = [thread EXCEPT ![t] = s]
    BY <1>3 DEF Start, Stop, Close, Fetch, Timeout, sni_vars
  <2>4. \A u \in Threads : Waits(u)' => Waits(u)
    BY <1>1, <2>1, <2>2, <2>3 DEF Waits
  <2>5. Grows /\ first' = first
    BY <2>1, GrowsSame DEF list_vars
  <2>6. QED
    BY <1>1, <2>1, <2>4, <2>5, WaitersKept
<1>4. QED
  BY <1>2, <1>3 DEF Call

LEMMA VmTaskWaiters ==
    ASSUME IInv, VmTask
    PROVE  WaitersFit'
<1>1. /\ thread \in [Threads -> {"java", "native"} \union Asleep]
      /\ resumed \in [Threads -> BOOLEAN]
      /\ vm \in VmType /\ signo \in SignoType /\ WaitersFit
  BY DEF IInv, CodeType, SniType
<1>2. CASE Add
  <2>1. /\ ListsFit /\ AddFits /\ ConsumeFits /\ signo' = signo
    BY <1>2, AddRest
  <2>2. thread' = thread /\ resumed' = resumed
    BY <1>2 DEF Add, Add_Alloc, Add_Pop, Add_Head, Add_SetFirst, Add_Walk, Add_Append,
                InAdd, sni_vars
  <2>3. CASE Add_Alloc \/ Add_Head \/ Add_Walk \/ Add_Pop
    <3>1. vm'.pc # "suspend" \/ vm'.node = Null
      <4>1. CASE Add_Alloc
        <5>1. vm.node = Null
          BY <2>1, <4>1 DEF Add_Alloc, AddFits
        <5>2. QED
          BY <1>1, <4>1, <5>1 DEF Add_Alloc, VmType
      <4>2. CASE Add_Head \/ Add_Walk \/ Add_Pop
        BY <1>1, <4>2 DEF Add_Head, Add_Walk, Add_Pop, VmType
      <4>3. QED
        BY <2>3, <4>1, <4>2
    <3>2. \A u \in Threads : Waits(u)' => Waits(u)
      BY <2>2, <3>1 DEF Waits
    <3>3. first' = first /\ Grows
      <4>1. CASE Add_Pop
        BY <4>1, PopFits DEF Add_Pop
      <4>2. CASE Add_Alloc \/ Add_Head \/ Add_Walk
        BY <4>2, GrowsSame DEF Add_Alloc, Add_Head, Add_Walk, list_vars
      <4>3. QED
        BY <2>3, <4>1, <4>2
    <3>4. QED
      BY <1>1, <2>1, <3>2, <3>3, WaitersKept
  <2>4. CASE Add_SetFirst \/ Add_Append
    <3>1. vm'.pc = "suspend" /\ vm'.thread = vm.thread /\ item' = item
      BY <1>1, <2>4 DEF Add_SetFirst, Add_Append, VmType
    <3>2. /\ vm.node \in Chain(first)' /\ item[vm.node] = vm.thread /\ Grows
      BY <2>1, <2>4, SetFirstFits, AppendFits
         DEF AddFits, Filled, Add_SetFirst, Add_Append
    <3>3. \/ signo'.pc \notin {"search", "unlink"}
          \/ first' = first /\ vm.node # first
      <4>1. CASE Add_SetFirst
        BY <2>1, <4>1 DEF Add_SetFirst, AddFits, ConsumeFits
      <4>2. CASE Add_Append
        BY <4>2, AppendFits
      <4>3. QED
        BY <2>4, <4>1, <4>2
    <3>4. ASSUME NEW u \in Threads, Waits(u)'
          PROVE  \E n \in Chain(first)' : Keeps(u, n)'
      <4>1. CASE u = vm.thread
        BY <3>1, <3>2, <3>3, <4>1 DEF Keeps
      <4>2. CASE u # vm.thread
        <5>1. Waits(u)
          BY <2>2, <3>1, <3>4, <4>2 DEF Waits
        <5>2. PICK n \in Chain(first) : Keeps(u, n)
          BY <1>1, <5>1 DEF WaitersFit
        <5>3. n \in Chain(first)' /\ Keeps(u, n)'
          BY <2>1, <3>2, <3>3, <5>2 DEF Keeps, Grows
        <5>4. QED
          BY <5>3
      <4>3. QED
        BY <4>1, <4>2
    <3>5. QED
      BY <3>4 DEF WaitersFit
  <2>5. QED
    BY <1>2, <2>3, <2>4 DEF Add
<1>3. CASE Suspend \/ CloseEnds
  <2>1. UNCHANGED list_vars /\ signo' = signo /\ vm' = Idle /\ vm'.pc = "idle"
    BY <1>3 DEF Suspend, CloseEnds, Idle
  <2>2. ASSUME NEW u \in Threads, Waits(u)'
        PROVE  Waits(u)
    <3>1. thread'[u] = "suspended"
      BY <2>1, <2>2 DEF Waits
    <3>2. CASE Suspend
      <4>1. /\ vm.pc = "suspend"
            /\ thread' = [thread EXCEPT ![vm.thread] =
                              IF resumed[vm.thread] THEN "java"
                              ELSE IF vm.node = Null THEN "unlisted" ELSE "suspended"]
        BY <3>2 DEF Suspend
      <4>2. QED
        BY <1>1, <3>1, <4>1 DEF Waits
    <3>3. CASE CloseEnds
      <4>1. thread' = [thread EXCEPT ![vm.thread] = "java"]
        BY <3>3 DEF CloseEnds
      <4>2. QED
        BY <1>1, <3>1, <4>1 DEF Waits
    <3>4. QED
      BY <1>3, <3>2, <3>3
  <2>3. Grows /\ first' = first
    BY <2>1, GrowsSame DEF list_vars
  <2>4. QED
    BY <1>1, <2>1, <2>2, <2>3, WaitersKept
<1>4. QED
  BY <1>2, <1>3 DEF VmTask

LEMMA SignalsWaiters ==
    ASSUME IInv, ~Race', Signo \/ DriverSignals \/ UNCHANGED code_vars
    PROVE  WaitersFit'
<1>1. /\ thread \in [Threads -> {"java", "native"} \union Asleep]
      /\ resumed \in [Threads -> BOOLEAN]
      /\ vm \in VmType /\ signo \in SignoType /\ WaitersFit
  BY DEF IInv, CodeType, SniType
<1>2. CASE Signalled \/ Quiet \/ DriverSignals \/ UNCHANGED code_vars
           \/ Consume_Visit \/ Delete_Search \/ Free_Link \/ Free_Push
  <2>1. vm' = vm /\ thread' = thread /\ resumed' = resumed /\ first' = first
    BY <1>2 DEF Signalled, Quiet, DriverSignals, code_vars, Consume_Visit, Delete_Search,
                Free_Link, Free_Push, InConsume, sni_vars, list_vars
  <2>2. \A u \in Threads : Waits(u)' => Waits(u)
    BY <2>1 DEF Waits
  <2>3. Grows
    <3>1. CASE Free_Link \/ Free_Push
      BY <3>1, FreeLinkFits, FreePushFits
    <3>2. CASE Signalled \/ Quiet \/ DriverSignals \/ UNCHANGED code_vars
               \/ Consume_Visit \/ Delete_Search
      BY <3>2, GrowsSame DEF Signalled, Quiet, DriverSignals, code_vars, Consume_Visit,
                             Delete_Search
    <3>3. QED
      BY <1>2, <3>1, <3>2
  <2>4. signo'.pc \in {"search", "unlink"} => signo.pc \in {"search", "unlink"}
    <3>1. CASE Signalled \/ Quiet
      <4>1. /\ [None EXCEPT !.pc = "visit", !.current = first].pc = "visit"
            /\ None.pc = "none"
        BY DEF None
      <4>2. signo'.pc \in {"visit", "none"}
        BY <3>1, <4>1, Zenon DEF Signalled, Quiet
      <4>3. QED
        BY <4>2
    <3>2. CASE DriverSignals \/ UNCHANGED code_vars
      BY <3>2 DEF DriverSignals, code_vars
    <3>3. CASE Consume_Visit
      <4>1. CASE signo.current # Null
        BY <1>1, <3>3, <4>1 DEF Consume_Visit, SignoType
      <4>2. CASE signo.current = Null /\ running
        BY <3>3, <4>2, Zenon DEF Consume_Visit, None
      <4>3. CASE signo.current = Null /\ ~running
        <5>1. signo' = None
          BY <3>3, <4>3, Zenon DEF Consume_Visit
        <5>2. QED
          BY <5>1 DEF None
      <4>4. QED
        BY <4>1, <4>2, <4>3
    <3>4. CASE Delete_Search
      BY <3>4 DEF Delete_Search
    <3>5. CASE Free_Link \/ Free_Push
      BY <1>1, <3>5 DEF Free_Link, Free_Push, SignoType
    <3>6. QED
      BY <1>2, <3>1, <3>2, <3>3, <3>4, <3>5
  <2>5. QED
    BY <1>1, <2>1, <2>2, <2>3, <2>4, WaitersKept
<1>3. CASE Consume_Resume
  <2> DEFINE u == signo.item
  <2>1. /\ signo.pc = "resume" /\ vm' = vm /\ UNCHANGED list_vars
        /\ thread' = [thread EXCEPT ![u] = IF @ \in Asleep THEN "java" ELSE @]
        /\ resumed' = [resumed EXCEPT ![u] = thread[u] \notin Asleep]
    BY <1>3 DEF Consume_Resume, InConsume
  <2>2. u = item[first] /\ NativeRuns
    BY <2>1 DEF IInv, ConsumeFits
  <2> HIDE DEF u
  <2>3. ASSUME NEW t \in Threads, t = u PROVE ~Waits(t)'
    <3>1. "suspended" \in Asleep /\ "native" \notin Asleep /\ "java" # "suspended"
      BY DEF Asleep
    <3>2. thread'[t] # "suspended"
      BY <1>1, <2>1, <2>3, <3>1
    <3>3. ASSUME vm.pc = "suspend", vm.thread = t PROVE resumed'[t]
      <4>1. thread[t] \notin Asleep
        BY <2>2, <3>1, <3>3 DEF NativeRuns
      <4>2. resumed'[t] = (thread[t] \notin Asleep)
        BY <1>1, <2>1, <2>3, Zenon
      <4>3. QED
        BY <4>1, <4>2
    <3>4. QED
      BY <2>1, <3>2, <3>3, Zenon DEF Waits
  <2>4. \A t \in Threads : t # u /\ Waits(t)' => Waits(t)
    BY <1>1, <2>1 DEF Waits
  <2>5. Grows /\ item' = item /\ first' = first
    BY <2>1, GrowsSame DEF list_vars
  <2>6. ASSUME NEW t \in Threads, Waits(t)'
        PROVE  \E n \in Chain(first)' : Keeps(t, n)'
    <3>1. t # u /\ Waits(t)
      BY <2>3, <2>4, <2>6
    <3>2. PICK n \in Chain(first) : Keeps(t, n)
      BY <1>1, <3>1 DEF WaitersFit
    <3>3. n # first
      BY <2>2, <3>1, <3>2 DEF Keeps
    <3>4. n \in Chain(first)' /\ Keeps(t, n)'
      BY <2>5, <3>2, <3>3 DEF Keeps, Grows
    <3>5. QED
      BY <3>4
  <2>7. QED
    BY <2>6 DEF WaitersFit
<1>4. CASE Delete_Unlink
  <2>1. /\ signo.pc = "unlink" /\ signo' = [signo EXCEPT !.pc = "free"]
        /\ vm' = vm /\ thread' = thread /\ resumed' = resumed
    BY <1>4 DEF Delete_Unlink, InConsume, sni_vars
  <2>2. item' = item /\ Chain(first)' = Chain(first) \ {first}
    BY <1>4, UnlinkFits
  <2>3. signo'.pc = "free"
    BY <1>1, <2>1 DEF SignoType
  <2>4. ASSUME NEW t \in Threads, Waits(t)'
        PROVE  \E n \in Chain(first)' : Keeps(t, n)'
    <3>1. Waits(t)
      BY <2>1, <2>4 DEF Waits
    <3>2. PICK n \in Chain(first) : Keeps(t, n)
      BY <1>1, <3>1 DEF WaitersFit
    <3>3. n \in Chain(first)' /\ Keeps(t, n)'
      BY <2>1, <2>2, <2>3, <3>2 DEF Keeps
    <3>4. QED
      BY <3>3
  <2>5. QED
    BY <2>4 DEF WaitersFit
<1>5. QED
  BY <1>2, <1>3, <1>4 DEF Signo, Consume

-----------------------------------------------------------------------------
(* The invariant and the theorems.                                          *)

LEMMA NextInv ==
    ASSUME IInv, ~Race', sessions' <= 1, [Step]_code_vars
    PROVE  IInv'
<1>1. CodeType'
  BY NextType
<1>2. BeforeSession' /\ NativeRuns'
  <2>1. sessions \in Nat
    BY GnssAssumption DEF IInv, CodeType
  <2>2. QED
    BY <2>1, BeforeSessionNext, NativeRunsNext DEF IInv
<1>3. (sessions' > 0 => ListsFit') /\ AddFits' /\ ConsumeFits'
  BY FitsNext
<1>4. WaitersFit'
  BY CallWaiters, VmTaskWaiters, SignalsWaiters DEF Step
<1>5. QED
  BY <1>1, <1>2, <1>3, <1>4 DEF IInv

LEMMA InitInv == Init => IInv
<1> SUFFICES ASSUME Init
             PROVE  IInv
  OBVIOUS
<1>1. vm.pc = "idle" /\ signo.pc = "none" /\ vm \in VmType /\ signo \in SignoType
  BY IdleTyped DEF Init, Idle, None
<1>2. Size \in Nat /\ Size # 0 /\ MaxSessions \in Nat
  BY GnssAssumption
<1>3. ListType
  BY <1>2 DEF Init, ListType, Pointers, Nodes
<1>4. SniType
  BY DEF Init, SniType
<1>5. {open, started, signal, running, data_ready} \subseteq BOOLEAN
  BY DEF Init
<1>6. sessions \in 0 .. MaxSessions
  BY <1>2 DEF Init
<1>7. CodeType
  BY <1>1, <1>3, <1>4, <1>5, <1>6 DEF CodeType
<1>8. BeforeSession /\ NativeRuns /\ WaitersFit
  BY <1>1 DEF Init, BeforeSession, NativeRuns, WaitersFit, Waits
<1>9. ~(sessions > 0)
  BY DEF Init
<1>10. AddFits /\ ConsumeFits /\ ~Race
  BY <1>1 DEF AddFits, ConsumeFits, Filled, Race
<1>11. QED
  BY <1>7, <1>8, <1>9, <1>10 DEF IInv

(* In the first session, and until something races, the list and the places *)
(* both tasks have in it fit each other, however their steps interleave.    *)
THEOREM InductiveInvariant ==
    Spec => [](raced \in BOOLEAN /\ sessions \in Nat /\ (Unraced => IInv))
<1> DEFINE Inv == raced \in BOOLEAN /\ sessions \in Nat /\ (Unraced => IInv)
<1>1. Init => Inv
  <2>1. Init => raced \in BOOLEAN
    BY Zenon DEF Init
  <2>2. Init => sessions \in Nat
    BY DEF Init
  <2>3. QED
    BY <2>1, <2>2, InitInv
<1>2. Inv /\ [Next]_vars => Inv'
  <2> SUFFICES ASSUME Inv, [Next]_vars
               PROVE  Inv'
    OBVIOUS
  <2>1. CASE UNCHANGED vars
    <3>1. UNCHANGED code_vars /\ raced' = raced /\ sessions' = sessions
      BY <2>1 DEF vars, code_vars
    <3>2. Race' = Race
      BY <3>1 DEF code_vars, Race
    <3>3. Unraced => IInv'
      BY <3>1, <3>2, NextInv DEF Unraced, IInv
    <3>4. QED
      BY <3>1, <3>3 DEF Unraced
  <2>2. CASE Next
    <3>1. Step /\ raced' = (raced \/ Race')
      BY <2>2 DEF Next
    <3>2. raced' \in BOOLEAN /\ sessions' \in Nat /\ sessions <= sessions'
      BY <3>1, SessionsGrow
    <3>3. ASSUME Unraced'
          PROVE  IInv'
      <4>1. ~raced /\ ~Race' /\ sessions' <= 1
        BY <3>1, <3>3 DEF Unraced
      <4>2. sessions <= 1
        BY <3>2, <4>1
      <4>3. QED
        BY <3>1, <4>1, <4>2, NextInv DEF Unraced
    <3>4. QED
      BY <3>2, <3>3
  <2>3. QED
    BY <2>1, <2>2
<1> HIDE DEF Inv
<1>3. QED
  BY <1>1, <1>2, PTL DEF Spec, Inv

(* Every variable then has its type: in particular, no pointer a task       *)
(* follows is out of java_thread_id_list.                                   *)
THEOREM TypeCorrect == Spec => [](sessions <= 1 /\ ~raced => TypeOK)
<1>1. raced \in BOOLEAN /\ (Unraced => IInv) => (sessions <= 1 /\ ~raced => TypeOK)
  BY TypeParts DEF Unraced, IInv
<1>2. QED
  BY <1>1, InductiveInvariant, PTL

(* microej_list_add and microej_list_consume, in the list at the same time, *)
(* leave every node either waiting or free and both chains ended, unless    *)
(* they raced.                                                              *)
THEOREM NodesOwned == Spec => []NodeOwnership
<1>1. ASSUME Unraced => IInv
      PROVE  NodeOwnership
  <2> SUFFICES ASSUME sessions = 1, ~raced, vm.pc \notin Adding, signo.pc \notin Consuming
               PROVE  /\ Ends(first) /\ Ends(free)
                      /\ Chain(first) \union Chain(free) = Nodes
                      /\ Chain(first) \intersect Chain(free) = {}
    BY DEF NodeOwnership
  <2>1. ListsFit
    BY <1>1 DEF IInv, Unraced
  <2>2. Added = {} /\ Deleted = {}
    BY DEF Added, Deleted, Filled, Adding, Consuming
  <2>3. Ends(first) /\ Ends(free)
    BY <2>1, ChainOfList DEF ListsFit
  <2>4. QED
    BY <2>1, <2>2, <2>3 DEF ListsFit
<1>2. QED
  BY <1>1, InductiveInvariant, PTL

(* A thread that waits for a signal with a node of its own is in the list,  *)
(* whatever older entries of it were consumed meanwhile, unless the tasks   *)
(* raced.                                                                   *)
THEOREM WaitersFound == Spec => []WaitersListed
<1>1. ASSUME Unraced => IInv
      PROVE  WaitersListed
  <2> SUFFICES ASSUME sessions = 1, ~raced, NEW t \in Threads, thread[t] = "suspended"
               PROVE  t \in Listed
    BY DEF WaitersListed
  <2>1. WaitersFit
    BY <1>1 DEF IInv, Unraced
  <2>2. PICK n \in Chain(first) : Keeps(t, n)
    BY <2>1 DEF WaitersFit, Waits
  <2>3. QED
    BY <2>2 DEF Keeps, Listed
<1>2. QED
  BY <1>1, InductiveInvariant, PTL
==============================================================================
