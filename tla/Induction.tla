------------------------------ MODULE Induction ------------------------------
(***************************************************************************)
(* Induction over the naturals, stated with sets, and functions defined by *)
(* recursion over an interval: they exist and there is one of each.        *)
(***************************************************************************)
EXTENDS Integers, TLAPS, WellFoundedInduction

(* A set of naturals that is not empty has a least element.                *)
LEMMA LeastElement ==
    ASSUME NEW S \in SUBSET Nat, S # {}
    PROVE  \E m \in S : \A k \in S : m <= k
<1>1. PICK m \in S : \A k \in S : ~(<<k, m>> \in OpToRel(<, Nat))
  BY NatLessThanWellFounded, WFMin, Zenon
<1>2. ASSUME NEW k \in S, k < m
      PROVE  FALSE
  <2>1. <<k, m>> \in {ss \in Nat \X Nat : ss[1] < ss[2]}
    BY <1>2, SMT
  <2> QED
    BY <1>1, <2>1, Zenon DEF OpToRel
<1> QED
  BY <1>2, SMT

(* Induction: a set with 0 and with the successor of each of its elements. *)
LEMMA SetInduction ==
    ASSUME NEW S, 0 \in S, \A n \in Nat : n \in S => n + 1 \in S
    PROVE  Nat \subseteq S
<1> DEFINE Missing == Nat \ S
<1>1. SUFFICES ASSUME Missing # {} PROVE FALSE
  OBVIOUS
<1>2. Missing \in SUBSET Nat
  OBVIOUS
<1> HIDE DEF Missing
<1>3. PICK m \in Missing : \A k \in Missing : m <= k
  BY <1>1, <1>2, LeastElement
<1> USE DEF Missing
<1>4. m # 0 /\ m \in Nat
  BY <1>3
<1>5. m - 1 \in Nat /\ m - 1 \in S /\ (m - 1) + 1 = m
  BY <1>3, <1>4
<1> QED
  BY <1>3, <1>5

(* Induction up to a bound.                                                *)
LEMMA InductionUpTo ==
    ASSUME NEW N \in Nat, NEW S, 0 \in S, \A n \in 0 .. N - 1 : n \in S => n + 1 \in S
    PROVE  0 .. N \subseteq S
<1> DEFINE T == {n \in Nat : n <= N => n \in S}
<1>1. 0 \in T
  OBVIOUS
<1>2. \A n \in Nat : n \in T => n + 1 \in T
  OBVIOUS
<1> HIDE DEF T
<1>3. Nat \subseteq T
  BY <1>1, <1>2, SetInduction
<1> QED
  BY <1>3 DEF T

(* A recursion over 0 .. N with values in T: each value is a step, a       *)
(* function of the index and of the value before, away from the one before.*)
Follows(f, N, base, step) ==
    f = [n \in 0 .. N |-> IF n = 0 THEN base ELSE step[n][f[n - 1]]]

(* There is a function that follows a recursion.                           *)
LEMMA RecursionExists ==
    ASSUME NEW T, NEW base \in T, NEW step \in [Nat -> [T -> T]], NEW N \in Nat
    PROVE  \E f \in [0 .. N -> T] : Follows(f, N, base, step)
<1> DEFINE S == {n \in Nat : \E f \in [0 .. n -> T] : Follows(f, n, base, step)}
<1>1. 0 \in S
  <2> DEFINE f == [n \in 0 .. 0 |-> base]
  <2>1. f \in [0 .. 0 -> T] /\ Follows(f, 0, base, step)
    BY DEF Follows
  <2> QED
    BY <2>1
<1>2. ASSUME NEW n \in Nat, n \in S
      PROVE  n + 1 \in S
  <2>1. PICK f \in [0 .. n -> T] : Follows(f, n, base, step)
    BY <1>2
  <2>2. \A i \in 0 .. n : f[i] = IF i = 0 THEN base ELSE step[i][f[i - 1]]
    BY <2>1 DEF Follows
  <2> DEFINE g == [i \in 0 .. n + 1 |-> IF i = n + 1 THEN step[n + 1][f[n]] ELSE f[i]]
  <2>3. g \in [0 .. n + 1 -> T]
    OBVIOUS
  <2>4. \A i \in 0 .. n + 1 : g[i] = IF i = 0 THEN base ELSE step[i][g[i - 1]]
    <3>1. ASSUME NEW i \in 0 .. n
          PROVE  g[i] = f[i] /\ (i # 0 => g[i - 1] = f[i - 1])
      OBVIOUS
    <3>2. g[n + 1] = step[n + 1][f[n]] /\ g[(n + 1) - 1] = f[n] /\ n + 1 # 0
      OBVIOUS
    <3> HIDE DEF g
    <3> QED
      BY <2>2, <3>1, <3>2
  <2> HIDE DEF g
  <2>5. Follows(g, n + 1, base, step)
    BY <2>3, <2>4 DEF Follows
  <2> QED
    BY <2>3, <2>5
<1> HIDE DEF S
<1>3. Nat \subseteq S
  BY <1>1, <1>2, SetInduction
<1> QED
  BY <1>3 DEF S

(* Two functions that follow it agree as far as both go.                   *)
LEMMA RecursionUnique ==
    ASSUME NEW base, NEW step, NEW N \in Nat, NEW M \in Nat, M <= N,
           NEW f, NEW g, Follows(f, N, base, step), Follows(g, M, base, step)
    PROVE  \A i \in 0 .. M : f[i] = g[i]
<1> DEFINE S == {i \in 0 .. M : f[i] = g[i]}
<1>1. /\ \A i \in 0 .. N : f[i] = IF i = 0 THEN base ELSE step[i][f[i - 1]]
      /\ \A i \in 0 .. M : g[i] = IF i = 0 THEN base ELSE step[i][g[i - 1]]
  BY Zenon DEF Follows
<1>2. 0 \in S
  BY <1>1
<1>3. ASSUME NEW i \in 0 .. M - 1, i \in S
      PROVE  i + 1 \in S
  <2>1. i + 1 \in 0 .. M /\ i + 1 \in 0 .. N /\ i + 1 # 0 /\ (i + 1) - 1 = i
    OBVIOUS
  <2>2. f[i + 1] = step[i + 1][f[i]] /\ g[i + 1] = step[i + 1][g[i]]
    BY <1>1, <2>1
  <2> QED
    BY <1>3, <2>1, <2>2
<1> HIDE DEF S
<1>4. 0 .. M \subseteq S
  BY <1>2, <1>3, InductionUpTo
<1> QED
  BY <1>4 DEF S

(* A recursion over 1 .. N that looks at any of the values after its own.  *)
Downward(f, N, step) == \A o \in 1 .. N : f[o] = step[o][f]

(* There is a function that follows one, if no step looks elsewhere.       *)
LEMMA DownwardExists ==
    ASSUME NEW N \in Nat, NEW T, NEW t \in T,
           NEW step \in [1 .. N -> [[1 .. N -> T] -> T]],
           \A o \in 1 .. N : \A f, g \in [1 .. N -> T] :
               (\A p \in o + 1 .. N : f[p] = g[p]) => step[o][f] = step[o][g]
    PROVE  \E f \in [1 .. N -> T] : Downward(f, N, step)
<1> DEFINE Right(n, f) == \A o \in 1 .. N : o > N - n => f[o] = step[o][f]
           S == {n \in 0 .. N : \E f \in [1 .. N -> T] : Right(n, f)}
<1>1. 0 \in S
  <2> DEFINE f == [o \in 1 .. N |-> t]
  <2>1. f \in [1 .. N -> T] /\ Right(0, f)
    OBVIOUS
  <2> QED
    BY <2>1
<1>2. ASSUME NEW n \in 0 .. N - 1, n \in S
      PROVE  n + 1 \in S
  <2>1. PICK f \in [1 .. N -> T] : Right(n, f)
    BY <1>2
  <2> DEFINE q == N - n
             g == [o \in 1 .. N |-> IF o = q THEN step[q][f] ELSE f[o]]
  <2>2. q \in 1 .. N
    OBVIOUS
  <2>3. step[q][f] \in T
    BY <2>2
  <2>4. g \in [1 .. N -> T]
    BY <2>3
  <2>5. ASSUME NEW o \in 1 .. N, o >= q
        PROVE  step[o][g] = step[o][f]
    <3>1. \A p \in o + 1 .. N : g[p] = f[p]
      BY <2>2, <2>5
    <3> HIDE DEF g
    <3> QED
      BY <2>4, <3>1
  <2>6. ASSUME NEW o \in 1 .. N, o > N - (n + 1)
        PROVE  g[o] = step[o][g]
    <3>1. o >= q
      BY <2>6
    <3>2. CASE o = q
      BY <2>5, <3>1, <3>2
    <3>3. CASE o # q
      <4>1. g[o] = f[o] /\ o > N - n
        BY <3>1, <3>3
      <4> QED
        BY <2>1, <2>5, <3>1, <4>1
    <3> QED
      BY <3>2, <3>3
  <2> HIDE DEF g
  <2>7. Right(n + 1, g)
    BY <2>6
  <2> QED
    BY <2>4, <2>7
<1> HIDE DEF S
<1>3. 0 .. N \subseteq S
  BY <1>1, <1>2, InductionUpTo
<1>4. N \in S
  BY <1>3
<1> QED
  BY <1>4 DEF S, Downward
=============================================================================
