------------------------------ MODULE NumberLemmas ------------------------------
(***************************************************************************)
(* Induction over the natural numbers in terms of sets, which first-order  *)
(* provers can apply, and what they need to know of recursive functions.   *)
(***************************************************************************)
EXTENDS Integers, WellFoundedInduction, TLAPS

\* A set of numbers that is not empty has a least element.
LEMMA LeastNumber ==
  ASSUME NEW T, T \subseteq Nat, T # {}
  PROVE  \E n \in T : \A m \in T : n <= m
<1>1. PICK x \in T : \A y \in T : ~ (<<y, x>> \in OpToRel(<, Nat))
  BY NatLessThanWellFounded, WFMin
<1>2. SUFFICES ASSUME NEW y \in T PROVE x <= y
  OBVIOUS
<1>3. x \in Nat /\ y \in Nat
  OBVIOUS
<1>4. <<y, x>> \in Nat \X Nat
  BY <1>3
<1>5. ~(y < x)
  BY <1>1, <1>4 DEF OpToRel
<1> QED
  BY <1>3, <1>5

\* A set with 0 and with the successor of each of its numbers holds them all.
LEMMA SetInduction ==
  ASSUME NEW T, 0 \in T, \A n \in Nat : n \in T => n + 1 \in T
  PROVE  \A n \in Nat : n \in T
<1> DEFINE Rest == Nat \ T
<1>1. SUFFICES ASSUME Rest # {} PROVE FALSE
  OBVIOUS
<1>2. PICK n \in Rest : \A m \in Rest : n <= m
  BY <1>1, LeastNumber
<1>3. n # 0 /\ n - 1 \in Nat /\ n - 1 \notin Rest
  BY <1>2
<1> QED
  BY <1>3

\* f starts with base and goes on with step, up to n.
Iterates(f, S, base, step, n) ==
  /\ f \in [0..n -> S]
  /\ f[0] = base
  /\ \A i \in 0..n - 1 : f[i + 1] = step[<<i, f[i]>>]

\* It can be continued.
LEMMA IteratesMore ==
  ASSUME NEW S, NEW base \in S, NEW step \in [Nat \X S -> S], NEW n \in Nat, NEW f,
         Iterates(f, S, base, step, n)
  PROVE  \E g : Iterates(g, S, base, step, n + 1)
<1>1. step[<<n, f[n]>>] \in S
  BY DEF Iterates
<1>2. PICK g : g = [ i \in 0..n + 1 |-> IF i = n + 1 THEN step[<<n, f[n]>>] ELSE f[i] ]
  OBVIOUS
<1>3. g \in [0..n + 1 -> S]
  BY <1>1, <1>2 DEF Iterates
<1>4. g[0] = base
  BY <1>2 DEF Iterates
<1>5. \A i \in 0..n : g[i + 1] = step[<<i, g[i]>>]
  <2> SUFFICES ASSUME NEW i \in 0..n PROVE g[i + 1] = step[<<i, g[i]>>]
    OBVIOUS
  <2>1. CASE i = n
    <3>1. i \in 0..n + 1 /\ i + 1 \in 0..n + 1 /\ i # n + 1
      BY <2>1
    <3>2. g[i] = f[n] /\ g[i + 1] = step[<<n, f[n]>>]
      BY <1>2, <2>1, <3>1
    <3> QED
      BY <2>1, <3>2
  <2>2. CASE i # n
    <3>1. i \in 0..n - 1 /\ i + 1 # n + 1 /\ i + 1 \in 0..n + 1 /\ i \in 0..n + 1
      BY <2>2
    <3>2. g[i + 1] = f[i + 1] /\ g[i] = f[i]
      BY <1>2, <2>2, <3>1
    <3> QED
      BY <3>1, <3>2 DEF Iterates
  <2> QED
    BY <2>1, <2>2
<1> QED
  BY <1>3, <1>4, <1>5 DEF Iterates

\* Two of them agree as far as both go.
LEMMA IteratesUnique ==
  ASSUME NEW S, NEW base \in S, NEW step \in [Nat \X S -> S],
         NEW n \in Nat, NEW m \in Nat, NEW f, NEW g,
         Iterates(f, S, base, step, n), Iterates(g, S, base, step, m)
  PROVE  \A i \in Nat : i <= n /\ i <= m => f[i] = g[i]
<1> DEFINE T == { i \in Nat : i <= n /\ i <= m => f[i] = g[i] }
<1>1. 0 \in T
  BY DEF Iterates
<1>2. ASSUME NEW i \in Nat, i \in T
      PROVE  i + 1 \in T
  <2> SUFFICES ASSUME i + 1 <= n, i + 1 <= m PROVE f[i + 1] = g[i + 1]
    OBVIOUS
  <2>1. f[i] = g[i] /\ i \in 0..n - 1 /\ i \in 0..m - 1
    BY <1>2
  <2> QED
    BY <2>1 DEF Iterates
<1>3. \A i \in Nat : i \in T
  BY <1>1, <1>2, SetInduction
<1> QED
  BY <1>3

\* f starts with base and goes on with step for ever.
Iterated(f, S, base, step) ==
  /\ f \in [Nat -> S]
  /\ f[0] = base
  /\ \A n \in Nat : f[n + 1] = step[<<n, f[n]>>]

\* There is such a function.
LEMMA Iteration ==
  ASSUME NEW S, NEW base \in S, NEW step \in [Nat \X S -> S]
  PROVE  \E f : Iterated(f, S, base, step)
<1> DEFINE T == { n \in Nat : \E f : Iterates(f, S, base, step, n) }
<1>1. 0 \in T
  <2>1. PICK f : f = [ i \in 0..0 |-> base ]
    OBVIOUS
  <2>2. Iterates(f, S, base, step, 0)
    BY <2>1 DEF Iterates
  <2> QED
    BY <2>2
<1>2. \A n \in Nat : n \in T => n + 1 \in T
  BY IteratesMore
<1>3. \A n \in Nat : n \in T
  BY <1>1, <1>2, SetInduction
<1> DEFINE upTo(n) == CHOOSE f : Iterates(f, S, base, step, n)
<1>4. \A n \in Nat : Iterates(upTo(n), S, base, step, n)
  BY <1>3
<1>5. PICK h : h = [ n \in Nat |-> upTo(n)[n] ]
  OBVIOUS
<1> HIDE DEF upTo
<1>6. \A n \in Nat : upTo(n)[n] \in S
  BY <1>4 DEF Iterates
<1>7. h \in [Nat -> S]
  BY <1>5, <1>6
<1>8. h[0] = base
  BY <1>4, <1>5 DEF Iterates
<1>9. ASSUME NEW n \in Nat
      PROVE  h[n + 1] = step[<<n, h[n]>>]
  <2>1. upTo(n + 1)[n + 1] = step[<<n, upTo(n + 1)[n]>>]
    BY <1>4 DEF Iterates
  <2>2. upTo(n + 1)[n] = upTo(n)[n]
    <3>1. Iterates(upTo(n + 1), S, base, step, n + 1) /\ Iterates(upTo(n), S, base, step, n)
      BY <1>4
    <3>2. n + 1 \in Nat /\ n <= n + 1 /\ n <= n
      OBVIOUS
    <3>3. \A i \in Nat : i <= n + 1 /\ i <= n => upTo(n + 1)[i] = upTo(n)[i]
      BY <3>1, <3>2, IteratesUnique
    <3> QED
      BY <3>2, <3>3
  <2> QED
    BY <1>5, <2>1, <2>2
<1> QED
  BY <1>7, <1>8, <1>9 DEF Iterated
===============================================================================
