-------------------------- MODULE CloseLedgerProofs --------------------------
(***************************************************************************)
(* The books of an aggressive close, for every quantity, chunk cap, number *)
(* of attempts and bound.                                                  *)
(*                                                                         *)
(* 1. No executed order is lost silently.  NoSilentLoss speaks of the time *)
(* between two calls.  Inside a call the identities are in its fills and   *)
(* its unresolved submissions as well (Noted), and there every executed    *)
(* order must be found.  That a venue takes an id once (OncePerId) makes   *)
(* what is read for an identity what its order executed, so that a bill    *)
(* names it.                                                               *)
(*                                                                         *)
(* 2. The record covers what the venues hold, and a position that left it  *)
(* is flat.  The account is a balance of sums: inside a call the record    *)
(* still has what the call's orders executed, so a leg of it is what the   *)
(* venue holds and the sum of those executions at least (Recorded).  The   *)
(* write-back takes the sum of the fills off.  It is no more, because      *)
(* every fill is an order of this call and no order is two fills           *)
(* (FillsTold, FillsOnce); and that holds because the ids of a call do not *)
(* meet those of its other chunks and stages (AtLeg, AtFlatten), unless    *)
(* one came back, which reused remembers.  A partial owner's snapshot is   *)
(* the record of that time, so what its lookups add up to can reach it     *)
(* only when the venues are flat (Partials): that is when its promotion    *)
(* removes the position.                                                   *)
(*                                                                         *)
(* 3. What one uneven call leaves has its repair.  A call is judged by     *)
(* what its orders executed, its repair is computed from its fills: with   *)
(* every outcome known the two sums are equal, because an executed order   *)
(* of the call is one of its fills (Handed).  So a call starts with level  *)
(* legs or with the difference that the one uneven call left and its       *)
(* repair (Level, Repaired); a call whose identities are let go, or whose  *)
(* outcome is pending, is outside of this, and a pending close ends at     *)
(* flat venues.                                                            *)
(*                                                                         *)
(* What a sum over a finite set is when an element comes or goes, and when *)
(* every element has a counterpart in another set, is proved first.        *)
(***************************************************************************)
EXTENDS CloseLedger, FiniteSetTheorems, WellFoundedInduction, TLAPS

-----------------------------------------------------------------------------
(* Sums over finite sets.                                                  *)

Total(S) == MapThenSumSet(LAMBDA o : o.quantity, S)
\* The element that the sum takes next.
Pick(s) == CHOOSE x \in s : TRUE
\* g sums over every subset of S.
Adds(S, g) ==
    g = [s \in SUBSET S |-> IF s = {} THEN 0 ELSE Pick(s).quantity + g[s \ {Pick(s)}]]

\* The sum is what some such function gives; AddsUnique makes it the function.
LEMMA TotalChosen ==
  ASSUME NEW S, NEW g, Adds(S, g)
  PROVE  \E h : Adds(S, h) /\ Total(S) = h[S]
<1> DEFINE iter ==
      CHOOSE f : f = [s \in SUBSET S |->
          IF s = {} THEN 0
          ELSE (CHOOSE x \in s : TRUE).quantity + f[s \ {CHOOSE x \in s : TRUE}]]
<1>1. iter = [s \in SUBSET S |->
          IF s = {} THEN 0
          ELSE (CHOOSE x \in s : TRUE).quantity + iter[s \ {CHOOSE x \in s : TRUE}]]
  BY DEF Adds, Pick
<1>2. Total(S) = iter[S]
  BY DEF Total, MapThenSumSet, MapThenFoldSet
<1> QED BY <1>1, <1>2 DEF Adds, Pick

\* Induction over the naturals for a set of them.
LEMMA Reached ==
  ASSUME NEW G \in SUBSET Nat, 0 \in G, \A n \in G : n + 1 \in G
  PROVE  \A n \in Nat : n \in G
<1> SUFFICES ASSUME Nat \ G # {} PROVE FALSE
  OBVIOUS
<1>1. \E x \in Nat \ G : \A y \in Nat \ G : <<y, x>> \notin OpToRel(<, Nat)
  BY NatLessThanWellFounded, WFMin
<1>2. PICK x \in Nat \ G : \A y \in Nat \ G : <<y, x>> \notin OpToRel(<, Nat)
  BY <1>1
<1>3. x # 0 /\ x - 1 \in Nat
  <2>1. x \in Nat /\ x \notin G
    BY <1>2
  <2>2. x # 0
    BY <2>1
  <2> QED BY <2>1, <2>2
<1>4. <<x - 1, x>> \in OpToRel(<, Nat)
  BY <1>3 DEF OpToRel
<1>5. x - 1 \in G
  BY <1>2, <1>3, <1>4
<1>6. (x - 1) + 1 \in G
  BY <1>5
<1>7. x \in Nat /\ x \notin G
  BY <1>2
<1>8. (x - 1) + 1 = x
  BY <1>7
<1> QED BY <1>6, <1>7, <1>8

Small(S, n) == {s \in SUBSET S : Cardinality(s) <= n}
AddsTo(S, n, g) ==
    g = [s \in Small(S, n) |-> IF s = {} THEN 0 ELSE Pick(s).quantity + g[s \ {Pick(s)}]]

LEMMA Smaller ==
  ASSUME NEW S, IsFiniteSet(S), NEW s \in SUBSET S
  PROVE  /\ IsFiniteSet(s) /\ Cardinality(s) \in Nat
         /\ s # {} => /\ Pick(s) \in s /\ s \ {Pick(s)} \in SUBSET S
                      /\ Cardinality(s \ {Pick(s)}) = Cardinality(s) - 1
                      /\ Cardinality(s) > 0
<1>1. IsFiniteSet(s) /\ Cardinality(s) \in Nat
  BY FS_Subset, FS_CardinalityType
<1>2. s # {} => Pick(s) \in s
  BY DEF Pick
<1>3. s # {} => Cardinality(s \ {Pick(s)}) = Cardinality(s) - 1 /\ Cardinality(s) # 0
  BY <1>1, <1>2, FS_RemoveElement, FS_EmptySet
<1> QED BY <1>1, <1>2, <1>3

LEMMA NoneSmall ==
  ASSUME NEW S, IsFiniteSet(S), NEW s \in SUBSET S, Cardinality(s) = 0
  PROVE  s = {}
<1>1. IsFiniteSet(s)
  BY FS_Subset
<1> QED BY <1>1, FS_EmptySet

LEMMA AddsExist ==
  ASSUME NEW S, IsFiniteSet(S)
  PROVE  \E g : Adds(S, g)
<1> DEFINE G == {n \in Nat : \E g : AddsTo(S, n, g)}
<1>1. 0 \in G
  <2>1. ASSUME NEW s \in Small(S, 0) PROVE s = {}
    <3>1. s \in SUBSET S /\ Cardinality(s) <= 0
      BY DEF Small
    <3>2. s # {} => Cardinality(s) > 0 /\ Cardinality(s) \in Nat
      BY <3>1, Smaller
    <3> QED BY <3>1, <3>2
  <2> DEFINE g == [s \in Small(S, 0) |-> 0]
  <2>2. AddsTo(S, 0, g)
    BY <2>1 DEF AddsTo
  <2> QED BY <2>2
<1>2. ASSUME NEW n \in G PROVE n + 1 \in G
  <2>1. PICK g : AddsTo(S, n, g)
    OBVIOUS
  <2> DEFINE h == [s \in Small(S, n + 1) |->
                     IF s = {} THEN 0 ELSE Pick(s).quantity + g[s \ {Pick(s)}]]
  <2>2. ASSUME NEW s \in Small(S, n + 1), s # {} PROVE s \ {Pick(s)} \in Small(S, n)
    <3>1. s \in SUBSET S /\ Cardinality(s) <= n + 1
      BY DEF Small
    <3>2. s \ {Pick(s)} \in SUBSET S /\ Cardinality(s \ {Pick(s)}) = Cardinality(s) - 1
          /\ Cardinality(s) \in Nat
      BY <3>1, <2>2, Smaller
    <3> QED BY <3>1, <3>2 DEF Small
  <2>3. ASSUME NEW s \in Small(S, n) PROVE s \in Small(S, n + 1)
    <3>1. s \in SUBSET S /\ Cardinality(s) <= n /\ Cardinality(s) \in Nat
      BY Smaller DEF Small
    <3> QED BY <3>1 DEF Small
  <2>4. \A s \in Small(S, n) : h[s] = g[s]
    BY <2>1, <2>3 DEF AddsTo
  <2>5. h = [s \in Small(S, n + 1) |-> IF s = {} THEN 0 ELSE Pick(s).quantity + h[s \ {Pick(s)}]]
    BY <2>2, <2>4
  <2>6. AddsTo(S, n + 1, h)
    BY <2>5 DEF AddsTo
  <2> QED BY <2>6
<1>3. Cardinality(S) \in G
  <2> HIDE DEF G
  <2>1. G \in SUBSET Nat
    BY DEF G
  <2> QED BY <2>1, <1>1, <1>2, Reached, FS_CardinalityType
<1>4. Small(S, Cardinality(S)) = SUBSET S
  BY FS_Subset DEF Small
<1> QED BY <1>3, <1>4 DEF AddsTo, Adds

\* the sum does not depend on the set it is taken from
LEMMA AddsUnique ==
  ASSUME NEW S, IsFiniteSet(S), NEW T \in SUBSET S,
         NEW g, Adds(S, g), NEW h, Adds(T, h)
  PROVE  g[T] = h[T]
<1> DEFINE G == {n \in Nat : \A s \in SUBSET T : Cardinality(s) = n => g[s] = h[s]}
<1>1. \A s \in SUBSET T : s \in SUBSET S
  OBVIOUS
<1>2. ASSUME NEW s \in SUBSET T
      PROVE  /\ g[s] = IF s = {} THEN 0 ELSE Pick(s).quantity + g[s \ {Pick(s)}]
             /\ h[s] = IF s = {} THEN 0 ELSE Pick(s).quantity + h[s \ {Pick(s)}]
  <2>1. s \in SUBSET S
    BY <1>1
  <2>2. g[s] = IF s = {} THEN 0 ELSE Pick(s).quantity + g[s \ {Pick(s)}]
    BY <2>1 DEF Adds
  <2>3. h[s] = IF s = {} THEN 0 ELSE Pick(s).quantity + h[s \ {Pick(s)}]
    BY DEF Adds
  <2> QED BY <2>2, <2>3
<1>3. IsFiniteSet(T)
  BY FS_Subset
<1>4. 0 \in G
  <2>1. ASSUME NEW s \in SUBSET T, Cardinality(s) = 0 PROVE g[s] = h[s]
    <3>1. s = {}
      BY <2>1, <1>3, NoneSmall
    <3> QED BY <1>2, <3>1
  <2> QED BY <2>1
<1>5. ASSUME NEW n \in G PROVE n + 1 \in G
  <2>1. ASSUME NEW s \in SUBSET T, Cardinality(s) = n + 1 PROVE g[s] = h[s]
    <3>1. s # {}
      BY <2>1, <1>3, FS_EmptySet
    <3>2. s \ {Pick(s)} \in SUBSET T /\ Cardinality(s \ {Pick(s)}) = n
      BY <3>1, <2>1, <1>3, Smaller
    <3>3. g[s \ {Pick(s)}] = h[s \ {Pick(s)}]
      BY <3>2
    <3>4. /\ g[s] = Pick(s).quantity + g[s \ {Pick(s)}]
          /\ h[s] = Pick(s).quantity + h[s \ {Pick(s)}]
      BY <1>2, <3>1
    <3> QED BY <3>3, <3>4
  <2> QED BY <2>1
<1>6. Cardinality(T) \in G
  <2> HIDE DEF G
  <2>1. G \in SUBSET Nat
    BY DEF G
  <2> QED BY <2>1, <1>3, <1>4, <1>5, Reached, FS_CardinalityType
<1> QED BY <1>6

\* Every fold gives the sum.
LEMMA TotalIs ==
  ASSUME NEW S, IsFiniteSet(S), NEW g, Adds(S, g)
  PROVE  Total(S) = g[S]
<1>1. PICK h : Adds(S, h) /\ Total(S) = h[S]
  BY TotalChosen
<1>2. g[S] = h[S]
  BY <1>1, AddsUnique
<1> QED BY <1>1, <1>2

LEMMA TotalOfNone == Total({}) = 0
<1>1. PICK g : Adds({}, g)
  BY AddsExist, FS_EmptySet
<1>2. Total({}) = g[{}]
  BY <1>1, TotalIs, FS_EmptySet
<1>3. g[{}] = 0
  BY <1>1 DEF Adds
<1> QED BY <1>2, <1>3

LEMMA TotalFromPick ==
  ASSUME NEW S, IsFiniteSet(S), S # {}
  PROVE  Total(S) = Pick(S).quantity + Total(S \ {Pick(S)})
<1> DEFINE T == S \ {Pick(S)}
<1>1. PICK g : Adds(S, g)
  BY AddsExist
<1>2. IsFiniteSet(T) /\ T \in SUBSET S
  BY FS_RemoveElement
<1>3. PICK h : Adds(T, h)
  BY <1>2, AddsExist
<1>4. Total(S) = g[S] /\ Total(T) = h[T] /\ g[T] = h[T]
  BY <1>1, <1>2, <1>3, TotalIs, AddsUnique
<1>5. g[S] = Pick(S).quantity + g[T]
  BY <1>1 DEF Adds
<1> QED BY <1>4, <1>5

LEMMA TotalType ==
  ASSUME NEW S, IsFiniteSet(S), \A x \in S : x.quantity \in Nat
  PROVE  Total(S) \in Nat
<1> DEFINE G == {n \in Nat : \A s \in SUBSET S : Cardinality(s) = n => Total(s) \in Nat}
<1>1. 0 \in G
  <2>1. ASSUME NEW s \in SUBSET S, Cardinality(s) = 0 PROVE s = {}
    BY <2>1, NoneSmall
  <2>2. ASSUME NEW s \in SUBSET S, Cardinality(s) = 0 PROVE Total(s) = 0
    BY <2>1, <2>2, TotalOfNone
  <2> QED BY <2>2
<1>2. ASSUME NEW n \in G PROVE n + 1 \in G
  <2>1. ASSUME NEW s \in SUBSET S, Cardinality(s) = n + 1 PROVE Total(s) \in Nat
    <3>1. s # {} /\ IsFiniteSet(s)
      <4>1. IsFiniteSet(s)
        BY Smaller
      <4> QED BY <2>1, <4>1, FS_EmptySet
    <3>2. s \ {Pick(s)} \in SUBSET S /\ Cardinality(s \ {Pick(s)}) = n /\ Pick(s) \in S
      BY <3>1, <2>1, Smaller
    <3>3. Total(s \ {Pick(s)}) \in Nat
      BY <3>2
    <3>4. Total(s) = Pick(s).quantity + Total(s \ {Pick(s)})
      BY <3>1, TotalFromPick
    <3> QED BY <3>2, <3>3, <3>4
  <2> QED BY <2>1
<1>3. Cardinality(S) \in G
  <2> HIDE DEF G
  <2>1. G \in SUBSET Nat
    BY DEF G
  <2> QED BY <2>1, <1>1, <1>2, Reached, FS_CardinalityType
<1> QED BY <1>3

\* A summand can be taken out first.
LEMMA TotalWithout ==
  ASSUME NEW S, IsFiniteSet(S), \A x \in S : x.quantity \in Nat, NEW y \in S
  PROVE  Total(S) = y.quantity + Total(S \ {y})
<1> DEFINE G == {n \in Nat : \A s \in SUBSET S : Cardinality(s) = n =>
                   \A x \in s : Total(s) = x.quantity + Total(s \ {x})}
<1>1. 0 \in G
  <2>1. ASSUME NEW s \in SUBSET S, Cardinality(s) = 0 PROVE s = {}
    BY <2>1, NoneSmall
  <2> QED BY <2>1
<1>2. ASSUME NEW n \in G PROVE n + 1 \in G
  <2>1. ASSUME NEW s \in SUBSET S, Cardinality(s) = n + 1, NEW x \in s
        PROVE  Total(s) = x.quantity + Total(s \ {x})
    <3> DEFINE c == Pick(s)
    <3>1. s # {} /\ IsFiniteSet(s) /\ c \in s
      BY <2>1, Smaller
    <3>2. Total(s) = c.quantity + Total(s \ {c})
      BY <3>1, TotalFromPick
    <3>3. CASE x = c
      BY <3>2, <3>3
    <3>4. CASE x # c
      <4>1. /\ s \ {c} \in SUBSET S /\ Cardinality(s \ {c}) = n /\ x \in s \ {c}
            /\ s \ {x} \in SUBSET S /\ Cardinality(s \ {x}) = n /\ c \in s \ {x}
        <5>1. Cardinality(s \ {c}) = (n + 1) - 1 /\ Cardinality(s \ {x}) = (n + 1) - 1
          <6>1. Cardinality(s \ {c}) = Cardinality(s) - 1
            BY <3>1, FS_RemoveElement
          <6>2. Cardinality(s \ {x}) = Cardinality(s) - 1
            BY <2>1, <3>1, FS_RemoveElement
          <6> QED BY <2>1, <6>1, <6>2
        <5>2. (n + 1) - 1 = n
          OBVIOUS
        <5> QED BY <2>1, <3>1, <3>4, <5>1, <5>2
      <4>2. Total(s \ {c}) = x.quantity + Total((s \ {c}) \ {x})
        BY <4>1
      <4>3. Total(s \ {x}) = c.quantity + Total((s \ {x}) \ {c})
        BY <4>1
      <4>4. (s \ {x}) \ {c} = (s \ {c}) \ {x}
        OBVIOUS
      <4>5. Total((s \ {c}) \ {x}) \in Nat
        <5>1. IsFiniteSet((s \ {c}) \ {x})
          BY <3>1, FS_RemoveElement
        <5> QED BY <5>1, TotalType
      <4>6. x.quantity \in Nat /\ c.quantity \in Nat
        BY <3>1
      <4> DEFINE r == Total((s \ {c}) \ {x})
      <4>7. Total(s) = c.quantity + (x.quantity + r) /\ x.quantity + Total(s \ {x}) = x.quantity + (c.quantity + r)
        BY <3>2, <4>2, <4>3, <4>4
      <4> HIDE DEF r
      <4>8. r \in Nat
        BY <4>5 DEF r
      <4> QED BY <4>6, <4>7, <4>8
    <3> QED BY <3>3, <3>4
  <2> QED BY <2>1
<1>3. Cardinality(S) \in G
  <2> HIDE DEF G
  <2>1. G \in SUBSET Nat
    BY DEF G
  <2> QED BY <2>1, <1>1, <1>2, Reached, FS_CardinalityType
<1> QED BY <1>3

\* A summand more.
LEMMA TotalWith ==
  ASSUME NEW S, IsFiniteSet(S), \A x \in S : x.quantity \in Nat, NEW y, y \notin S,
         y.quantity \in Nat
  PROVE  IsFiniteSet(S \cup {y}) /\ Total(S \cup {y}) = y.quantity + Total(S)
<1> DEFINE T == S \cup {y}
<1>1. IsFiniteSet(T) /\ y \in T /\ T \ {y} = S
  BY FS_AddElement
<1>2. \A x \in T : x.quantity \in Nat
  OBVIOUS
<1> HIDE DEF T
<1>3. Total(T) = y.quantity + Total(T \ {y})
  BY <1>1, <1>2, TotalWithout
<1> QED BY <1>1, <1>3 DEF T

\* What has a counterpart of the same name and quantity sums to no more.
LEMMA TotalWithin ==
  ASSUME NEW S, IsFiniteSet(S), \A x \in S : x.quantity \in Nat,
         NEW T, IsFiniteSet(T), \A y \in T : y.quantity \in Nat,
         \A x \in S : x.quantity > 0 =>
             \E y \in T : y.leg = x.leg /\ y.cid = x.cid /\ y.quantity = x.quantity,
         \A w, x \in S : w.quantity > 0 /\ x.quantity > 0 /\ w.leg = x.leg /\ w.cid = x.cid
                           => w = x
  PROVE  Total(S) <= Total(T)
<1> DEFINE Has(s, t) == \A x \in s : x.quantity > 0 =>
             \E y \in t : y.leg = x.leg /\ y.cid = x.cid /\ y.quantity = x.quantity
           G == {n \in Nat : \A s \in SUBSET S : \A t \in SUBSET T :
                   Cardinality(s) = n /\ Has(s, t) => Total(s) <= Total(t)}
<1>1. ASSUME NEW s \in SUBSET S PROVE IsFiniteSet(s) /\ Total(s) \in Nat
  <2>1. IsFiniteSet(s)
    BY FS_Subset
  <2> QED BY <2>1, TotalType
<1>2. ASSUME NEW t \in SUBSET T PROVE IsFiniteSet(t) /\ Total(t) \in Nat
  <2>1. IsFiniteSet(t)
    BY FS_Subset
  <2> QED BY <2>1, TotalType
<1>3. 0 \in G
  <2>1. ASSUME NEW s \in SUBSET S, NEW t \in SUBSET T, Cardinality(s) = 0
        PROVE  Total(s) <= Total(t)
    <3>1. s = {}
      BY <2>1, NoneSmall
    <3>2. Total(s) = 0
      BY <3>1, TotalOfNone
    <3> QED BY <3>2, <1>2
  <2> QED BY <2>1
<1>4. ASSUME NEW n \in G PROVE n + 1 \in G
  <2>1. ASSUME NEW s \in SUBSET S, NEW t \in SUBSET T, Cardinality(s) = n + 1, Has(s, t)
        PROVE  Total(s) <= Total(t)
    <3> DEFINE c == Pick(s)
               r == s \ {c}
    <3>1. s # {}
      BY <2>1, <1>1, FS_EmptySet
    <3>2. c \in s /\ r \in SUBSET S /\ Cardinality(r) = n
      BY <3>1, <2>1, Smaller
    <3>3. c \in S /\ c.quantity \in Nat
      BY <3>2
    <3>4. Total(s) = c.quantity + Total(r)
      BY <3>1, <1>1, TotalFromPick
    <3>5. \A x \in r : x \in s /\ x # c
      OBVIOUS
    <3> HIDE DEF c, r
    <3>6. CASE c.quantity = 0
      <4>1. Has(r, t)
        BY <2>1, <3>5
      <4>2. Total(r) <= Total(t)
        BY <3>2, <4>1
      <4> QED BY <3>4, <3>6, <4>2, <3>2, <1>1, <1>2
    <3>7. CASE c.quantity > 0
      <4>1. PICK y \in t : y.leg = c.leg /\ y.cid = c.cid /\ y.quantity = c.quantity
        BY <2>1, <3>2, <3>7
      <4>2. Has(r, t \ {y})
        <5>1. ASSUME NEW x \in r, x.quantity > 0
              PROVE  \E z \in t \ {y} : z.leg = x.leg /\ z.cid = x.cid /\ z.quantity = x.quantity
          <6>1. PICK z \in t : z.leg = x.leg /\ z.cid = x.cid /\ z.quantity = x.quantity
            BY <2>1, <3>5, <5>1
          <6>2. x \in S /\ x # c
            BY <3>5, <5>1
          <6>3. z # y
            BY <6>1, <6>2, <4>1, <3>3, <3>7, <5>1
          <6> QED BY <6>1, <6>3
        <5> QED BY <5>1
      <4>3. Total(r) <= Total(t \ {y})
        BY <3>2, <4>2
      <4>4. Total(t) = y.quantity + Total(t \ {y})
        BY <1>2, TotalWithout
      <4>5. Total(t \ {y}) \in Nat /\ Total(r) \in Nat
        BY <1>1, <1>2, <3>2
      <4> QED BY <3>3, <3>4, <4>1, <4>3, <4>4, <4>5
    <3> QED BY <3>3, <3>6, <3>7
  <2> QED BY <2>1
<1>5. Cardinality(S) \in G
  <2> HIDE DEF G
  <2>1. G \in SUBSET Nat
    BY DEF G
  <2> QED BY <2>1, <1>3, <1>4, Reached, FS_CardinalityType
<1>6. Has(S, T)
  OBVIOUS
<1> QED BY <1>5, <1>6

-----------------------------------------------------------------------------
(* Every executed order is noted.                                          *)

FilledNames == {Name(f) : f \in {g \in fills : g.quantity > 0}}
Noted == Owned \cup dropped \cup FilledNames \cup unknown

AllNoted == Traces \subseteq Noted
OncePerId == \A o, p \in orders : Name(o) = Name(p) => o = p
Measured == \A o \in orders : o.quantity \in Nat
\* execute_close starts with empty hands, and what is unresolved is an identity.
EmptyHanded == Idle => fills = {} /\ unknown = {}
Identities == \A u \in unknown : u = Name(u)
Hands == EmptyHanded /\ Identities

Inductive == AllNoted /\ OncePerId /\ Measured /\ Hands

-----------------------------------------------------------------------------
(* What the venue executed for an identity.                                *)

LEMMA QuantityIs == ASSUME NEW S, NEW l PROVE QuantityOf(S, l) = Total({o \in S : o.leg = l})
BY DEF QuantityOf, Total

\* fetch_order of an id finds the one order that has it.
LEMMA ExecutedIs ==
  ASSUME Inductive, NEW o \in orders
  PROVE  Executed(o.leg, o.cid) = o.quantity
<1> DEFINE S == {p \in {q \in orders : q.cid = o.cid} : p.leg = o.leg}
<1>1. S = {} \cup {o}
  BY DEF Inductive, OncePerId, Name
<1>2. Executed(o.leg, o.cid) = Total(S)
  BY QuantityIs DEF Executed
<1>3. o.quantity \in Nat
  BY DEF Inductive, Measured
<1> HIDE DEF S
<1>4. Total({} \cup {o}) = o.quantity + Total({})
  BY <1>3, FS_EmptySet, TotalWith
<1> QED BY <1>1, <1>2, <1>3, <1>4, TotalOfNone

-----------------------------------------------------------------------------
(* How a step keeps every executed order noted.                            *)

\* Nothing is executed, and nothing that was noted is forgotten.
LEMMA NothingNew ==
  ASSUME Inductive, orders' = orders, Noted \subseteq Noted', Hands'
  PROVE  Inductive'
BY DEF Inductive, AllNoted, OncePerId, Measured, Traces, Name

\* An order is taken, and noted if it executes anything.
LEMMA OneMore ==
  ASSUME Inductive, NEW l, NEW x \in Nat, Execute(l, x),
         Noted \subseteq Noted', Hands',
         x > 0 => [leg |-> l, cid |-> request.cid] \in Noted'
  PROVE  Inductive'
<1> DEFINE new == [leg |-> l, cid |-> request.cid, quantity |-> x, call |-> calls,
                    chunk |-> chunk]
<1>1. orders' = orders \cup {new}
  BY DEF Execute
<1>2. Name(new) = [leg |-> l, cid |-> request.cid] /\ new.quantity = x
  BY DEF Name
<1>3. \A o \in orders : Name(o) # Name(new)
  BY <1>2 DEF Execute, Taken, Name
<1> HIDE DEF new
<1>4. OncePerId'
  BY <1>1, <1>3 DEF Inductive, OncePerId, Name
<1>5. Measured'
  BY <1>1, <1>2 DEF Inductive, Measured
<1>6. Traces' \subseteq Traces \cup {Name(o) : o \in {p \in {new} : p.quantity > 0}}
  BY <1>1 DEF Traces, Name
<1>7. AllNoted'
  BY <1>2, <1>6 DEF Inductive, AllNoted
<1> QED BY <1>4, <1>5, <1>7 DEF Inductive

\* What an order may execute is a quantity.
LEMMA ResultIs == ASSUME NEW l, NEW x \in IocResult(l) PROVE x \in Nat
BY DEF IocResult

\* Inside a call the books only gain.
Gains ==
  /\ owners' = owners /\ billed' = billed
  /\ dropped \subseteq dropped' /\ fills \subseteq fills' /\ unknown \subseteq unknown'
LEMMA GainsNote == ASSUME Gains PROVE Noted \subseteq Noted'
<1>1. Owned' = Owned
  BY DEF Gains, Owned, NamedBy, Named
<1>2. FilledNames \subseteq FilledNames'
  BY DEF Gains, FilledNames, Name
<1> QED BY <1>1, <1>2 DEF Noted, Gains

\* At the end of a call everything it holds goes to the books or is noted as gone.
LEMMA LeaveNotes ==
  ASSUME NEW gone, Leave(gone),
         Owned \subseteq Owned' \cup gone, FilledNames \cup unknown \subseteq Owned' \cup gone
  PROVE  Noted \subseteq Noted' /\ Hands'
BY DEF Leave, Noted, Hands, EmptyHanded, Identities

\* Between two calls.
LEMMA BetweenCalls ==
  ASSUME Inductive, Idle, step' = step, fills' = fills, unknown' = unknown, orders' = orders,
         Owned \cup dropped \subseteq Owned' \cup dropped'
  PROVE  Inductive'
<1>1. fills = {} /\ unknown = {}
  BY DEF Inductive, Hands, EmptyHanded, Identities
<1>2. Hands'
  BY <1>1 DEF Hands, EmptyHanded, Identities, Idle
<1>3. FilledNames = {}
  BY <1>1 DEF FilledNames
<1> QED BY <1>1, <1>2, <1>3, NothingNew DEF Noted

-----------------------------------------------------------------------------
(* The steps of a leg.                                                     *)

LEMMA InitInductive == Init => Inductive
BY DEF Init, Inductive, AllNoted, OncePerId, Measured, Hands, EmptyHanded, Identities, Traces, Idle

LEMMA BeginInductive == ASSUME Inductive, Begin PROVE Inductive'
<1>1. Gains
  BY DEF Begin, bookVars, Gains
<1>2. Hands'
  BY DEF Begin, Inductive, Hands, EmptyHanded, Identities, Idle, Name
<1>3. orders' = orders
  BY DEF Begin
<1> QED BY <1>1, <1>2, <1>3, GainsNote, NothingNew

\* The leg's call goes on: the next one, the same again, or compensation.
LEMMA GoesOn ==
  ASSUME Inductive, Submitting, NextLeg \/ Compensate \/ TryAgain, unknown' = unknown
  PROVE  Hands'
BY DEF Submitting, NextLeg, Compensate, TryAgain, Name, Inductive, Hands, EmptyHanded, Identities, Idle, Legs

LEMMA UnsureNotes ==
  ASSUME Inductive, Submitting, Unsure
  PROVE  /\ Hands' /\ unknown \subseteq unknown'
         /\ [leg |-> step, cid |-> request.cid] \in unknown'
BY DEF Unsure, Submitting, Compensate, TryAgain, Idle, Legs, Name, Inductive, Hands, EmptyHanded, Identities

LEMMA FilledInductive == ASSUME Inductive, Filled PROVE Inductive'
<1>1. PICK x \in IocResult(step) \ {0} : Execute(step, x) /\ AddFill(step, request.cid, x, chunk)
  BY DEF Filled
<1>2. x \in Nat /\ x > 0
  BY <1>1, ResultIs
<1>3. Gains
  BY <1>1 DEF Filled, bookVars, Gains, AddFill
<1>4. Hands'
  BY GoesOn DEF Filled
<1> DEFINE f == [leg |-> step, cid |-> request.cid, quantity |-> x, chunk |-> chunk]
<1>5. f \in fills' /\ f.quantity > 0 /\ Name(f) = [leg |-> step, cid |-> request.cid]
  BY <1>1, <1>2 DEF AddFill, Name
<1>6. Name(f) \in FilledNames'
  BY <1>5 DEF FilledNames, Name
<1> HIDE DEF f
<1>7. [leg |-> step, cid |-> request.cid] \in Noted'
  BY <1>5, <1>6 DEF Noted
<1> QED BY <1>1, <1>2, <1>3, <1>4, <1>7, GainsNote, OneMore

LEMMA UnansweredInductive == ASSUME Inductive, Unanswered PROVE Inductive'
<1>1. Submitting /\ Unsure
  BY DEF Unanswered
<1>2. Gains
  BY <1>1, UnsureNotes DEF Unanswered, bookVars, Gains
<1>3. Hands' /\ [leg |-> step, cid |-> request.cid] \in Noted'
  BY <1>1, UnsureNotes DEF Noted
<1>4. ASSUME NEW x \in Nat, Execute(step, x) PROVE Inductive'
  BY <1>2, <1>3, <1>4, GainsNote, OneMore
<1>5. CASE ExecuteNothing
  BY <1>2, <1>3, <1>5, GainsNote, NothingNew DEF ExecuteNothing
<1> QED BY <1>4, <1>5, ResultIs DEF Unanswered

LEMMA NothingToReduceInductive == ASSUME Inductive, NothingToReduce PROVE Inductive'
<1>1. Gains /\ orders' = orders
  BY DEF NothingToReduce, bookVars, Gains, AddFill
<1>2. Hands'
  BY GoesOn DEF NothingToReduce
<1> QED BY <1>1, <1>2, GainsNote, NothingNew

\* A refused long leg goes to compensation, a refused short leg ends the call.
LEMMA RejectedInductive ==
  ASSUME Inductive, Submitting, Rejected, orders' = orders
  PROVE  Inductive'
<1>1. CASE ReturnNothing
  <2> DEFINE gone == {Name(f) : f \in fills} \cup unknown
  <2>1. Owned' = Owned
    BY <1>1 DEF ReturnNothing, bookVars, Owned, NamedBy, Named
  <2>2. FilledNames \cup unknown \subseteq gone
    BY DEF FilledNames
  <2>3. Leave(gone)
    BY <1>1 DEF ReturnNothing
  <2> HIDE DEF gone
  <2> QED BY <2>1, <2>2, <2>3, LeaveNotes, NothingNew
<1>2. CASE Compensate /\ UNCHANGED <<bookVars, failClosed, dropped, chunks, total, fills, unknown>>
  <2>1. Gains
    BY <1>2 DEF bookVars, Gains
  <2> QED BY <1>2, <2>1, GoesOn, GainsNote, NothingNew
<1> QED BY <1>1, <1>2 DEF Rejected

LEMMA RefuseInductive == ASSUME Inductive, Refuse PROVE Inductive'
BY RejectedInductive DEF Refuse

LEMMA DuplicateRefusedInductive == ASSUME Inductive, DuplicateRefused PROVE Inductive'
BY RejectedInductive DEF DuplicateRefused

LEMMA ConflictInductive == ASSUME Inductive, Conflict PROVE Inductive'
<1>1. Gains /\ orders' = orders
  BY DEF Conflict, bookVars, Gains
<1>2. Hands'
  BY GoesOn DEF Conflict
<1> QED BY <1>1, <1>2, GainsNote, NothingNew

LEMMA DuplicateResolvedInductive == ASSUME Inductive, DuplicateResolved PROVE Inductive'
<1>1. fills \subseteq fills' /\ unknown \subseteq unknown'
  BY DEF DuplicateResolved, AddFill
<1>2. step' # "idle"
  BY DEF DuplicateResolved, Submitting, NextLeg, Compensate, Legs
<1>3. Gains /\ orders' = orders
  BY <1>1 DEF DuplicateResolved, bookVars, Gains
<1>4. Identities'
  BY DEF DuplicateResolved, Identities, Inductive, Hands, Name, AddFill
<1>5. Hands'
  BY <1>2, <1>4 DEF Hands, EmptyHanded, Idle
<1> QED BY <1>3, <1>5, GainsNote, NothingNew

-----------------------------------------------------------------------------
(* Compensation and the end of a call.                                     *)

\* The orders a bill names are those that the fills show.
LEMMA KnownNames == FilledNames = {Name(o) : o \in KnownOrders}
<1> DEFINE known(f) == [leg |-> f.leg, cid |-> f.cid, quantity |-> f.quantity]
<1>1. \A f : Name(known(f)) = Name(f)
  BY DEF Name
<1>2. KnownOrders = {known(f) : f \in {g \in fills : g.quantity > 0}}
  BY DEF KnownOrders
<1> HIDE DEF known
<1> QED BY <1>1, <1>2 DEF FilledNames

\* The owner of a call's bill names everything the call holds.
LEMMA OwnerNames == ASSUME Inductive PROVE FilledNames \cup unknown \subseteq Named(Owner)
<1> DEFINE holders == {[leg |-> u.leg, cid |-> u.cid, quantity |-> 0] : u \in Unconfirmed}
<1>1. Owner.legs = KnownOrders \cup holders
  BY DEF Owner
<1>2. FilledNames = {Name(o) : o \in KnownOrders}
  BY KnownNames
<1>3. ASSUME NEW u \in unknown PROVE u \in {Name(o) : o \in KnownOrders} \cup {Name(o) : o \in holders}
  <2>1. CASE u \in {Name(o) : o \in KnownOrders}
    BY <2>1
  <2>2. CASE u \in Unconfirmed
    <3> DEFINE o == [leg |-> u.leg, cid |-> u.cid, quantity |-> 0]
    <3>1. o \in holders /\ Name(o) = u
      BY <1>3, <2>2 DEF Inductive, Hands, Identities, Name
    <3> QED BY <3>1
  <2> QED BY <2>1, <2>2, <1>3 DEF Unconfirmed
<1> HIDE DEF holders
<1> QED BY <1>1, <1>2, <1>3 DEF Named

\* Enqueueing an owner displaces no identity that is not noted as gone.
LEMMA EnqueueNotes ==
  ASSUME NEW own, owners' = Enqueue(own), billed \subseteq billed'
  PROVE  Owned \cup Named(own) \subseteq Owned' \cup Displaced(own)
<1>1. NamedBy(owners)' = NamedBy(Enqueue(own))
  BY DEF NamedBy, Named
<1> QED BY <1>1 DEF Owned, Displaced

\* CompensationFailedError, or a write-back with something unresolved.
LEMMA RegisterInductive ==
  ASSUME Inductive, orders' = orders, owners' = Enqueue(Owner), billed' = billed,
         Leave(Displaced(Owner))
  PROVE  Inductive'
<1> DEFINE own == Owner
           gone == Displaced(own)
<1>1. FilledNames \cup unknown \subseteq Named(own)
  BY OwnerNames
<1>2. owners' = Enqueue(own) /\ Leave(gone)
  OBVIOUS
<1> HIDE DEF own
<1>3. Owned \cup Named(own) \subseteq Owned' \cup gone
  BY <1>2, EnqueueNotes
<1> HIDE DEF gone
<1>4. Noted \subseteq Noted' /\ Hands'
  BY <1>1, <1>2, <1>3, LeaveNotes
<1> QED BY <1>4, NothingNew

LEMMA CompensationFailsInductive ==
  ASSUME Inductive, orders' = orders, CompensationFails PROVE Inductive'
BY RegisterInductive DEF CompensationFails

LEMMA GiveUpInductive == ASSUME Inductive, GiveUp PROVE Inductive'
BY CompensationFailsInductive DEF GiveUp

LEMMA ProbeInductive == ASSUME Inductive, Probe PROVE Inductive'
<1>1. CASE CompensationFails
  BY <1>1, CompensationFailsInductive DEF Probe
<1>2. CASE ~CompensationFails
  <2>1. Gains /\ unknown' = unknown /\ step' # "idle" /\ orders' = orders
    BY <1>2 DEF Probe, bookVars, Gains, NextVenue
  <2>2. Hands'
    BY <2>1 DEF Inductive, Hands, EmptyHanded, Identities, Idle, Name
  <2> QED BY <2>1, <2>2, GainsNote, NothingNew
<1> QED BY <1>1, <1>2

\* An attempt of a flatten leaves the books, and goes on or fails.
LEMMA NotFlatNotes ==
  ASSUME Flattening, NotFlat
  PROVE  owners' = owners /\ billed' = billed /\ dropped' = dropped /\ step' # "idle"
BY DEF Flattening, NotFlat, bookVars

LEMMA AttemptNotes ==
  ASSUME Flattening, NEW flat, AfterAttempt(flat)
  PROVE  owners' = owners /\ billed' = billed /\ dropped' = dropped /\ step' # "idle"
BY NotFlatNotes DEF AfterAttempt, bookVars, NextVenue

LEMMA RetainNotes ==
  ASSUME Inductive, NEW q, Retain(q), step' # "idle", dropped' = dropped,
         owners' = owners, billed' = billed
  PROVE  /\ Gains /\ Hands'
         /\ q \in Nat => [leg |-> at, cid |-> request.cid] \in Noted'
<1>1. Gains
  BY DEF Gains, Retain
<1>2. Hands'
  BY DEF Retain, Inductive, Hands, EmptyHanded, Identities, Idle, Name
<1>3. ASSUME q \in Nat, q > 0 PROVE [leg |-> at, cid |-> request.cid] \in FilledNames'
  <2> DEFINE f == [leg |-> at, cid |-> request.cid, quantity |-> q, chunk |-> 0]
  <2>1. f \in fills' /\ f.quantity > 0 /\ Name(f) = [leg |-> at, cid |-> request.cid]
    BY <1>3 DEF Retain, Name
  <2> HIDE DEF f
  <2> QED BY <2>1 DEF FilledNames, Name
<1>4. q = 0 => [leg |-> at, cid |-> request.cid] \in unknown'
  BY DEF Retain
<1> QED BY <1>1, <1>2, <1>3, <1>4 DEF Noted

LEMMA FlattenAnsweredInductive == ASSUME Inductive, FlattenAnswered PROVE Inductive'
<1>1. PICK x \in IocResult(at) : Execute(at, x) /\ Retain(x)
                                 /\ AfterAttempt(x >= request.quantity \/ venue'[at] = 0)
  BY DEF FlattenAnswered
<1>2. x \in Nat
  BY <1>1, ResultIs
<1>3. owners' = owners /\ billed' = billed /\ dropped' = dropped /\ step' # "idle"
  BY <1>1, AttemptNotes DEF FlattenAnswered
<1>4. Gains /\ Hands' /\ [leg |-> at, cid |-> request.cid] \in Noted'
  BY <1>1, <1>2, <1>3, RetainNotes
<1> QED BY <1>1, <1>2, <1>4, GainsNote, OneMore

LEMMA FlattenLostInductive == ASSUME Inductive, FlattenLost PROVE Inductive'
<1>1. owners' = owners /\ billed' = billed /\ dropped' = dropped /\ step' # "idle"
  <2> DEFINE flat == venue'[at] = 0
  <2>1. Flattening /\ AfterAttempt(flat)
    BY DEF FlattenLost
  <2> HIDE DEF flat
  <2> QED BY <2>1, AttemptNotes
<1>2. Gains /\ Hands' /\ [leg |-> at, cid |-> request.cid] \in Noted'
  BY <1>1, RetainNotes DEF FlattenLost
<1>3. ASSUME NEW x \in Nat, Execute(at, x) PROVE Inductive'
  BY <1>2, <1>3, GainsNote, OneMore
<1>4. CASE ExecuteNothing
  BY <1>2, <1>4, GainsNote, NothingNew DEF ExecuteNothing
<1> QED BY <1>3, <1>4, ResultIs DEF FlattenLost

LEMMA FlattenRefusedInductive == ASSUME Inductive, FlattenRefused PROVE Inductive'
<1>1. Gains /\ unknown' = unknown /\ step' # "idle" /\ orders' = orders
  BY NotFlatNotes DEF FlattenRefused, Gains, ExecuteNothing
<1>2. Hands'
  BY <1>1 DEF Inductive, Hands, EmptyHanded, Identities, Idle, Name
<1> QED BY <1>1, <1>2, GainsNote, NothingNew

LEMMA FlattenDuplicateInductive == ASSUME Inductive, FlattenDuplicate PROVE Inductive'
<1>1. owners' = owners /\ billed' = billed /\ dropped' = dropped /\ step' # "idle"
      /\ orders' = orders
  BY NotFlatNotes DEF FlattenDuplicate, Flattening, bookVars, ExecuteNothing
<1>2. CASE \E q : Retain(q)
  BY <1>1, <1>2, RetainNotes, GainsNote, NothingNew
<1>3. CASE UNCHANGED <<fills, unknown>>
  <2>1. Gains
    BY <1>1, <1>3 DEF Gains
  <2>2. Hands'
    BY <1>1, <1>3 DEF Inductive, Hands, EmptyHanded, Identities, Idle, Name
  <2> QED BY <1>1, <2>1, <2>2, GainsNote, NothingNew
<1> QED BY <1>2, <1>3 DEF FlattenDuplicate

LEMMA NothingClosedInductive == ASSUME Inductive, NothingClosed PROVE Inductive'
<1>1. orders' = orders /\ Leave({}) /\ Owned' = Owned
  BY DEF NothingClosed, bookVars, Owned, NamedBy, Named
<1>2. FilledNames \cup unknown = {}
  BY DEF NothingClosed, FilledNames
<1> QED BY <1>1, <1>2, LeaveNotes, NothingNew

LEMMA WriteBackInductive == ASSUME Inductive, WriteBack PROVE Inductive'
<1>1. CASE unknown = {}
  <2>1. Leave({}) /\ orders' = orders
    BY <1>1 DEF WriteBack
  <2>2. Owned' = Owned \cup {Name(o) : o \in KnownOrders}
    BY <1>1 DEF WriteBack, Owned, NamedBy, Named, Name
  <2>3. FilledNames = {Name(o) : o \in KnownOrders}
    BY KnownNames
  <2> QED BY <1>1, <2>1, <2>2, <2>3, LeaveNotes, NothingNew
<1>2. CASE unknown # {}
  BY <1>2, RegisterInductive DEF WriteBack
<1> QED BY <1>1, <1>2

-----------------------------------------------------------------------------
(* The lanes between two calls.                                            *)

\* An owner that learns the legs of a pending close names what it named.
LEMMA MergedNames == ASSUME NEW own, NEW p PROVE Named(own) \subseteq Named(Merged(own, p))
<1> DEFINE new == {o \in p.legs : \A f \in own.legs : Name(f) # Name(o) \/ f.quantity = 0}
           kept == {f \in own.legs : \A o \in new : Name(f) # Name(o)}
<1>1. Merged(own, p).legs = kept \cup new
  BY DEF Merged
<1>2. ASSUME NEW f \in own.legs PROVE \E o \in kept \cup new : Name(o) = Name(f)
  <2>1. CASE f \in kept
    BY <2>1
  <2>2. CASE f \notin kept
    BY <2>2, <1>2
  <2> QED BY <2>1, <2>2
<1> HIDE DEF new, kept
<1> QED BY <1>1, <1>2 DEF Named

LEMMA ResolvePendingCloseInductive == ASSUME Inductive, ResolvePendingClose PROVE Inductive'
<1>1. PICK p \in pendings : owners' = MergeAll(p)
  BY DEF ResolvePendingClose
<1>2. ASSUME NEW own \in owners PROVE Named(own) \subseteq NamedBy(owners)'
  <2>1. \E other \in owners' : other = own \/ other = Merged(own, p)
    BY <1>1, <1>2 DEF MergeAll
  <2>2. \A other \in owners' : Named(other) \subseteq NamedBy(owners)'
    BY DEF NamedBy, Named, Name
  <2> QED BY <2>1, <2>2, MergedNames
<1>3. NamedBy(owners) \subseteq NamedBy(owners)'
  BY <1>2 DEF NamedBy
<1>4. Idle /\ step' = step /\ fills' = fills /\ unknown' = unknown /\ orders' = orders
      /\ billed' = billed /\ dropped' = dropped
  BY DEF ResolvePendingClose, callLocals, outside
<1>5. Owned \cup dropped \subseteq Owned' \cup dropped'
  BY <1>3, <1>4 DEF Owned
<1> QED BY <1>4, <1>5, BetweenCalls

\* A bill names what its owner named and the venue executed, but for failed lookups.
LEMMA SettledNotes ==
  ASSUME Inductive, Idle, NEW own \in owners, NEW unread,
         owners' = owners \ {own},
         billed' = billed \cup {Name(o) : o \in {p \in Found(own, unread) : p.quantity > 0}},
         dropped' = dropped \cup unread,
         orders' = orders, step' = step, fills' = fills, unknown' = unknown
  PROVE  Inductive'
<1>1. fills = {} /\ unknown = {} /\ Hands'
  BY DEF Inductive, Hands, EmptyHanded, Idle, Identities
<1>2. FilledNames = {}
  BY <1>1 DEF FilledNames
<1>3. ASSUME NEW o \in orders, o.quantity > 0 PROVE Name(o) \in Noted'
  <2>1. Name(o) \in NamedBy(owners) \cup billed \cup dropped
    BY <1>1, <1>2, <1>3 DEF Inductive, AllNoted, Traces, Noted, Owned
  <2>2. CASE Name(o) \in billed \cup dropped
    BY <2>2 DEF Noted, Owned
  <2>3. CASE \E other \in owners \ {own} : Name(o) \in Named(other)
    BY <2>3 DEF Noted, Owned, NamedBy, Named, Name
  <2>4. CASE Name(o) \in Named(own)
    <3>1. PICK p \in own.legs : Name(p) = Name(o)
      BY <2>4 DEF Named
    <3>2. CASE Name(p) \in unread
      BY <3>1, <3>2 DEF Noted
    <3>3. CASE Name(p) \notin unread
      <4> DEFINE found == [p EXCEPT !.quantity = Executed(p.leg, p.cid)]
      <4>1. p.leg = o.leg /\ p.cid = o.cid
        BY <3>1 DEF Name
      <4>2. Executed(p.leg, p.cid) = o.quantity
        BY <4>1, ExecutedIs
      <4>3. found \in Found(own, unread)
        BY <3>3 DEF Found
      <4>4. found.quantity = o.quantity /\ Name(found) = Name(o)
        BY <4>1, <4>2 DEF Name
      <4> QED BY <1>3, <4>3, <4>4 DEF Noted, Owned
    <3> QED BY <3>2, <3>3
  <2> QED BY <2>1, <2>2, <2>3, <2>4 DEF NamedBy
<1>4. AllNoted'
  BY <1>3 DEF AllNoted, Traces, Name
<1> QED BY <1>1, <1>4 DEF Inductive, OncePerId, Measured, Name

LEMMA SettleInductive == ASSUME Inductive, Settle PROVE Inductive'
<1>1. PICK own \in owners : \E unread :
         /\ owners' = owners \ {own}
         /\ billed' = billed \cup {Name(o) : o \in {p \in Found(own, unread) : p.quantity > 0}}
         /\ dropped' = dropped \cup unread
  BY DEF Settle
<1>2. Idle /\ orders' = orders /\ step' = step /\ fills' = fills /\ unknown' = unknown
  BY DEF Settle, callLocals
<1> QED BY <1>1, <1>2, SettledNotes

LEMMA TerminalizeInductive == ASSUME Inductive, Terminalize PROVE Inductive'
<1>1. PICK own \in owners : owners' = owners \ {own} /\ billed' = billed \cup Named(own)
  BY DEF Terminalize
<1>2. Idle /\ orders' = orders /\ step' = step /\ fills' = fills /\ unknown' = unknown
      /\ dropped' = dropped
  BY DEF Terminalize, callLocals, outside
<1>3. Owned \subseteq Owned'
  BY <1>1 DEF Owned, NamedBy, Named
<1> QED BY <1>2, <1>3, BetweenCalls

-----------------------------------------------------------------------------
(* The property.                                                           *)

LEMMA NextInductive == ASSUME Inductive, [Next]_vars PROVE Inductive'
<1>1. CASE Begin
  BY <1>1, BeginInductive
<1>2. CASE Submit
  BY <1>2, FilledInductive, UnansweredInductive, NothingToReduceInductive, RefuseInductive,
     ConflictInductive, DuplicateRefusedInductive, DuplicateResolvedInductive DEF Submit
<1>3. CASE Flatten
  BY <1>3, FlattenAnsweredInductive, FlattenLostInductive, FlattenRefusedInductive,
     FlattenDuplicateInductive DEF Flatten
<1>4. CASE Probe \/ GiveUp \/ NothingClosed \/ WriteBack
  BY <1>4, ProbeInductive, GiveUpInductive, NothingClosedInductive, WriteBackInductive
<1>5. CASE LedgerStep
  BY <1>5, ResolvePendingCloseInductive, SettleInductive, TerminalizeInductive DEF LedgerStep
<1>6. CASE UNCHANGED vars
  <2>1. Gains /\ orders' = orders /\ unknown' = unknown /\ step' = step /\ fills' = fills
    BY <1>6 DEF vars, Gains
  <2>2. Hands'
    BY <2>1 DEF Inductive, Hands, EmptyHanded, Identities, Idle, Name
  <2> QED BY <2>1, <2>2, GainsNote, NothingNew
<1> QED BY <1>1, <1>2, <1>3, <1>4, <1>5, <1>6 DEF Next, CloseStep

\* Between two calls of execute_close every executed order is named by a billing
\* owner or a bill, or went where the code lets an identity go: retries, chunks,
\* compensation and its failure, write-back and reconciliation lose none.
THEOREM NothingIsLost == Spec => []NoSilentLoss
<1>1. Init => Inductive
  BY InitInductive
<1>2. Inductive /\ [Next]_vars => Inductive'
  BY NextInductive
<1>3. Inductive => NoSilentLoss
  <2> SUFFICES ASSUME Inductive, Idle PROVE Traces \subseteq Owned \cup dropped
    BY DEF NoSilentLoss
  <2>1. fills = {} /\ unknown = {}
    BY DEF Inductive, Hands, EmptyHanded
  <2>2. FilledNames = {}
    BY <2>1 DEF FilledNames
  <2> QED BY <2>1, <2>2 DEF Inductive, AllNoted, Noted
<1> QED BY <1>1, <1>2, <1>3, PTL DEF Spec

-----------------------------------------------------------------------------
(* The account.                                                            *)

\* What the orders of call c and later ones executed of a leg.
Since(c, l) == QuantityOf({o \in orders : o.call >= c}, l)

BookTypes == /\ venue \in [Legs -> Nat]
             /\ position \in [matched : Nat, short : Nat, long : Nat]
CountTypes == /\ cap \in Nat \ {0} /\ calls \in Nat /\ attempt \in Nat
              /\ chunk \in Nat \ {0} /\ chunks \in Nat \ {0} /\ total \in Nat
              /\ at \in Legs /\ request.quantity \in Int
OrderTypes == /\ IsFiniteSet(orders)
              /\ \A o \in orders : o.quantity \in Nat /\ o.call \in Nat /\ o.call <= calls
HandTypes == /\ IsFiniteSet(fills) /\ IsFiniteSet(unknown)
             /\ \A f \in fills : f.quantity \in Nat /\ f.chunk \in Nat
Types == BookTypes /\ CountTypes /\ OrderTypes /\ HandTypes

\* The record holds what the venues hold and what this call has taken from them.
Recorded ==
    open => \A l \in Legs :
        /\ position.matched >= position[l]
        /\ position[l] >= venue[l] + (IF Idle THEN 0 ELSE Since(calls, l))
Gone == ~open => Idle /\ \A l \in Legs : venue[l] = 0
\* A partial owner's snapshot, likewise, for all that happened since.
Partials ==
    \A e \in owners : e.kind = "partial" =>
        /\ IsFiniteSet(e.legs) /\ e.call \in Nat /\ e.call <= calls
        /\ \A o \in e.legs : o = [leg |-> o.leg, cid |-> o.cid, quantity |-> o.quantity]
        /\ \A o \in orders : Name(o) \in Named(e) => o.call >= e.call
        /\ \A l \in Legs : e.snapshot[l] >= venue[l] + Since(e.call, l)
\* A fill is one order of this call, and no order is two fills.
FillsTold ==
    \A f \in fills : f.quantity > 0 =>
        \E o \in orders : /\ Name(o) = Name(f) /\ o.quantity = f.quantity /\ o.call = calls
                          /\ f.chunk \in {0, o.chunk}
FillsOnce ==
    \A f, g \in fills : f.quantity > 0 /\ g.quantity > 0 /\ Name(f) = Name(g) => f = g
UnknownOwn == \A u \in unknown : \A o \in orders : Name(o) = u => o.call = calls
AtLeg ==
    step \in Legs =>
        /\ request.cid.stage \in {"exit", "again"}
        /\ \A f \in fills : /\ f.chunk # 0 /\ f.chunk <= chunk
                            /\ f.chunk = chunk => f.leg = "short" /\ step = "long"
        /\ \A o \in orders : o.call = calls => o.cid.stage \in {"exit", "again"}
        /\ \A o \in orders :
              Name(o) = [leg |-> step, cid |-> ExitCid(chunk)] /\ request.cid # ExitCid(chunk)
                  => o.call = calls
AtFlatten ==
    step \in {"probe", "flatten"} =>
        /\ step = "flatten" => request.cid = Cid("flatten", attempt)
        /\ \A o \in orders : o.call = calls /\ o.cid.stage = "flatten" =>
              /\ o.leg = "long" => at = "long"
              /\ o.leg = at => step = "flatten" /\ o.cid.n \in Nat /\ o.cid.n < attempt
Sound == Recorded /\ Gone /\ Partials /\ FillsTold /\ FillsOnce /\ UnknownOwn /\ AtLeg /\ AtFlatten
Accounts == Types /\ (~reused => Sound)

-----------------------------------------------------------------------------
(* What is summed.                                                         *)

LEMMA QuantityType ==
  ASSUME NEW S, IsFiniteSet(S), \A o \in S : o.quantity \in Nat, NEW l
  PROVE  QuantityOf(S, l) \in Nat
<1>1. IsFiniteSet({o \in S : o.leg = l})
  BY FS_Subset
<1> QED BY <1>1, QuantityIs, TotalType

LEMMA QuantityOfNone ==
  ASSUME NEW S, NEW l, \A o \in S : o.leg # l PROVE QuantityOf(S, l) = 0
<1>1. {o \in S : o.leg = l} = {}
  OBVIOUS
<1> QED BY <1>1, QuantityIs, TotalOfNone

LEMMA QuantityWith ==
  ASSUME NEW S, IsFiniteSet(S), \A o \in S : o.quantity \in Nat,
         NEW y, y \notin S, y.quantity \in Nat, NEW l
  PROVE  QuantityOf(S \cup {y}, l) = QuantityOf(S, l) + (IF y.leg = l THEN y.quantity ELSE 0)
<1> DEFINE T == {o \in S : o.leg = l}
<1>1. IsFiniteSet(T) /\ y \notin T /\ \A o \in T : o.quantity \in Nat
  BY FS_Subset
<1>2. QuantityOf(S, l) = Total(T) /\ Total(T) \in Nat
  BY <1>1, QuantityIs, TotalType
<1>3. CASE y.leg = l
  <2>1. {o \in S \cup {y} : o.leg = l} = T \cup {y}
    BY <1>3
  <2>2. QuantityOf(S \cup {y}, l) = Total(T \cup {y})
    BY <2>1, QuantityIs
  <2> HIDE DEF T
  <2>3. Total(T \cup {y}) = y.quantity + Total(T)
    BY <1>1, TotalWith
  <2> QED BY <1>2, <1>3, <2>2, <2>3
<1>4. CASE y.leg # l
  <2>1. {o \in S \cup {y} : o.leg = l} = T
    BY <1>4
  <2>2. QuantityOf(S \cup {y}, l) = Total(T)
    BY <2>1, QuantityIs
  <2> HIDE DEF T
  <2> QED BY <1>2, <1>4, <2>2
<1> QED BY <1>3, <1>4

\* What has a counterpart of the same name and quantity sums to no more.
LEMMA QuantityWithin ==
  ASSUME NEW S, IsFiniteSet(S), \A x \in S : x.quantity \in Nat,
         NEW T, IsFiniteSet(T), \A y \in T : y.quantity \in Nat, NEW l,
         \A x \in S : x.quantity > 0 => \E y \in T : Name(y) = Name(x) /\ y.quantity = x.quantity,
         \A w, x \in S : w.quantity > 0 /\ x.quantity > 0 /\ Name(w) = Name(x) => w = x
  PROVE  QuantityOf(S, l) <= QuantityOf(T, l)
<1> DEFINE A == {o \in S : o.leg = l}
           B == {o \in T : o.leg = l}
<1>1. IsFiniteSet(A) /\ IsFiniteSet(B)
  BY FS_Subset
<1>2. (\A x \in A : x.quantity \in Nat) /\ (\A x \in B : x.quantity \in Nat)
  OBVIOUS
<1>3. ASSUME NEW x \in A, x.quantity > 0
      PROVE  \E y \in B : y.leg = x.leg /\ y.cid = x.cid /\ y.quantity = x.quantity
  <2>1. PICK y \in T : Name(y) = Name(x) /\ y.quantity = x.quantity
    BY <1>3
  <2>2. y.leg = x.leg /\ y.cid = x.cid
    BY <2>1 DEF Name
  <2> QED BY <2>1, <2>2
<1>4. \A w, x \in A : w.quantity > 0 /\ x.quantity > 0 /\ w.leg = x.leg /\ w.cid = x.cid => w = x
  BY DEF Name
<1>5. QuantityOf(S, l) = Total(A) /\ QuantityOf(T, l) = Total(B)
  BY QuantityIs
<1> HIDE DEF A, B
<1>6. Total(A) <= Total(B)
  BY <1>1, <1>2, <1>3, <1>4, TotalWithin
<1> QED BY <1>5, <1>6

LEMMA ExecutedType == ASSUME Types, NEW l, NEW c PROVE Executed(l, c) \in Nat
<1> DEFINE S == {o \in orders : o.cid = c}
<1>1. IsFiniteSet(S) /\ \A o \in S : o.quantity \in Nat
  BY FS_Subset DEF Types, OrderTypes
<1> HIDE DEF S
<1>2. QuantityOf(S, l) \in Nat
  BY <1>1, QuantityType
<1> QED BY <1>2 DEF Executed, S

LEMMA ClosedType == ASSUME Types, NEW l PROVE Closed(l) \in Nat
BY QuantityType DEF Types, HandTypes, Closed

LEMMA SinceType == ASSUME Types, NEW c, NEW l PROVE Since(c, l) \in Nat
<1> DEFINE S == {o \in orders : o.call >= c}
<1>1. IsFiniteSet(S) /\ \A o \in S : o.quantity \in Nat
  BY FS_Subset DEF Types, OrderTypes
<1> HIDE DEF S
<1>2. QuantityOf(S, l) \in Nat
  BY <1>1, QuantityType
<1> QED BY <1>2 DEF Since, S

-----------------------------------------------------------------------------
(* An order moves what it executes from the venue to the orders.           *)

LEMMA IocIs ==
  ASSUME Types, NEW k \in Legs, NEW x \in IocResult(k) PROVE x \in 0..venue[k]
BY DEF IocResult, Lesser, Types, BookTypes, CountTypes

LEMMA ExecuteMoves ==
  ASSUME Types, NEW k \in Legs, NEW x \in 0..venue[k], Execute(k, x), calls' = calls
  PROVE  /\ venue' \in [Legs -> Nat] /\ OrderTypes'
         /\ \A o \in orders' : o \in orders \/ o.call = calls
         /\ \A l \in Legs : \A c \in Nat : c <= calls =>
               venue'[l] + Since(c, l)' = venue[l] + Since(c, l)
<1> DEFINE new == [leg |-> k, cid |-> request.cid, quantity |-> x, call |-> calls,
                    chunk |-> chunk]
<1>1. orders' = orders \cup {new} /\ venue' = [venue EXCEPT ![k] = @ - x]
  BY DEF Execute
<1>2. x \in Nat /\ x <= venue[k] /\ venue[k] \in Nat
  BY DEF Types, BookTypes
<1>3. new \notin orders
  BY DEF Execute, Taken
<1>4. new.leg = k /\ new.quantity = x /\ new.call = calls
  OBVIOUS
<1> HIDE DEF new
<1>5. venue' \in [Legs -> Nat]
  BY <1>1, <1>2 DEF Types, BookTypes
<1>6. OrderTypes'
  <2>1. IsFiniteSet(orders')
    BY <1>1, FS_AddElement DEF Types, OrderTypes
  <2> QED BY <2>1, <1>1, <1>2, <1>4 DEF Types, OrderTypes, CountTypes
<1>7. ASSUME NEW l \in Legs, NEW c \in Nat, c <= calls
      PROVE  venue'[l] + Since(c, l)' = venue[l] + Since(c, l)
  <2> DEFINE S == {o \in orders : o.call >= c}
  <2>0. new.call >= c
    BY <1>4, <1>7 DEF Types, CountTypes
  <2>1. {o \in orders' : o.call >= c} = S \cup {new}
    BY <1>1, <2>0
  <2>2. IsFiniteSet(S) /\ (\A o \in S : o.quantity \in Nat) /\ new \notin S
    BY <1>3, FS_Subset DEF Types, OrderTypes
  <2>3. Since(c, l)' = QuantityOf(S \cup {new}, l) /\ Since(c, l) = QuantityOf(S, l)
    BY <2>1 DEF Since
  <2> HIDE DEF S
  <2>4. QuantityOf(S \cup {new}, l) = QuantityOf(S, l) + (IF new.leg = l THEN new.quantity ELSE 0)
    BY <2>2, <1>2, <1>4, QuantityWith
  <2>5. QuantityOf(S, l) \in Nat
    BY <2>2, QuantityType
  <2>6. venue[l] \in Nat
    BY DEF Types, BookTypes
  <2>7. venue'[l] = venue[l] - (IF k = l THEN x ELSE 0)
    BY <1>1, <1>2, <2>6 DEF Types, BookTypes
  <2> QED BY <1>2, <1>4, <2>3, <2>4, <2>5, <2>6, <2>7
<1>8. \A o \in orders' : o \in orders \/ o.call = calls
  BY <1>1, <1>4
<1>9. \A l \in Legs : \A c \in Nat : c <= calls =>
         venue'[l] + Since(c, l)' = venue[l] + Since(c, l)
  BY <1>7
<1> QED BY <1>5, <1>6, <1>8, <1>9

LEMMA SinceSame ==
  ASSUME orders' = orders PROVE \A c, l : Since(c, l)' = Since(c, l)
BY DEF Since

-----------------------------------------------------------------------------
(* Types.                                                                  *)

\* What stays the same in a step inside a call.
Inside == UNCHANGED <<cap, calls, total, chunks, position, open, owners>>

LEMMA LessIs == ASSUME NEW a \in Nat, NEW b \in Nat PROVE Less(a, b) \in Nat
BY DEF Less

LEMMA LessIsMinus == ASSUME NEW a \in Nat, NEW b \in Nat, b <= a PROVE Less(a, b) = a - b
BY DEF Less

LEMMA ChunksAre ==
  ASSUME NEW q \in Nat, q > 0, cap \in Nat \ {0}
  PROVE  ChunkCount(q) \in Nat \ {0}
<1> DEFINE n == (q + cap - 1) \div cap
<1>1. n \in Int /\ cap * n <= q + cap - 1 /\ q + cap - 1 < cap * n + cap
  OBVIOUS
<1> HIDE DEF n
<1>2. n >= 1
  <2>1. SUFFICES ASSUME n <= 0 PROVE FALSE
    BY <1>1
  <2>2. cap * n <= 0
    BY <1>1, <2>1
  <2>3. cap * n \in Int
    BY <1>1
  <2> QED BY <1>1, <2>2, <2>3
<1> QED BY <1>1, <1>2 DEF n, ChunkCount

LEMMA ChunkIs ==
  ASSUME Types, NEW n \in Nat PROVE ChunkSize(n) \in Int
<1> DEFINE base == total \div chunks
<1>1. base \in Int
  BY DEF Types, CountTypes
<1> HIDE DEF base
<1>2. chunks \in Nat /\ total \in Nat
  BY DEF Types, CountTypes
<1>3. base * (chunks - 1) \in Int
  BY <1>1, <1>2
<1> QED BY <1>1, <1>2, <1>3 DEF ChunkSize, base

\* The counters after the ways a call goes on.
LEMMA GoOnTypes ==
  ASSUME Types, UNCHANGED <<cap, calls, total, chunks>>, NextLeg \/ Compensate \/ TryAgain
  PROVE  CountTypes'
<1>1. CASE NextLeg
  <2>1. chunk + 1 \in Nat \ {0} /\ chunk \in Nat
    BY DEF Types, CountTypes
  <2>2. ChunkSize(chunk) \in Int /\ ChunkSize(chunk + 1) \in Int
    BY <2>1, ChunkIs
  <2>3. request'.quantity \in Int
    BY <1>1, <2>2 DEF NextLeg, ExitRequest, Types, CountTypes
  <2>4. chunk' \in Nat \ {0} /\ attempt' = 1 /\ at' = at
    BY <1>1, <2>1 DEF NextLeg, Types, CountTypes
  <2> QED BY <2>3, <2>4 DEF Types, CountTypes
<1>2. CASE Compensate
  BY <1>2 DEF Compensate, Types, CountTypes, Legs
<1>3. CASE TryAgain
  BY <1>3 DEF TryAgain, Types, CountTypes
<1> QED BY <1>1, <1>2, <1>3

\* The counters after a call.
LEMMA LeaveTypes ==
  ASSUME Types, NEW gone, Leave(gone), cap' = cap, calls' = calls
  PROVE  CountTypes' /\ HandTypes'
BY FS_EmptySet DEF Leave, Types, CountTypes, HandTypes, Legs, NoRequest

LEMMA FillTypes ==
  ASSUME Types, NEW f, f.quantity \in Nat, f.chunk \in Nat,
         fills' = fills \cup {f}, IsFiniteSet(unknown')
  PROVE  HandTypes'
<1>1. IsFiniteSet(fills')
  BY FS_AddElement DEF Types, HandTypes
<1> QED BY <1>1 DEF Types, HandTypes

LEMMA UnknownTypes ==
  ASSUME Types, NEW u, NEW w,
         unknown' = unknown \/ unknown' = unknown \cup {u} \/ unknown' = (unknown \cup {u}) \cup {w}
  PROVE  IsFiniteSet(unknown')
<1>1. IsFiniteSet(unknown \cup {u})
  BY FS_AddElement DEF Types, HandTypes
<1>2. IsFiniteSet((unknown \cup {u}) \cup {w})
  BY <1>1, FS_AddElement
<1> QED BY <1>1, <1>2 DEF Types, HandTypes

\* A step of the call that executes an order or nothing.
Moves(k) == (\E x \in 0..venue[k] : Execute(k, x)) \/ ExecuteNothing
LEMMA MoveTypes ==
  ASSUME Types, NEW k \in Legs, Moves(k), UNCHANGED <<calls, position>>
  PROVE  BookTypes' /\ OrderTypes'
<1>1. CASE ExecuteNothing
  BY <1>1 DEF ExecuteNothing, Types, BookTypes, OrderTypes
<1>2. ASSUME NEW x \in 0..venue[k], Execute(k, x) PROVE BookTypes' /\ OrderTypes'
  BY <1>2, ExecuteMoves DEF Types, BookTypes
<1> QED BY <1>1, <1>2 DEF Moves

LEMMA InitTypes == ASSUME Init PROVE Types
<1>1. cap \in Nat \ {0} /\ Quantity \in Nat
  BY CloseConstants DEF Init
<1>2. BookTypes
  BY <1>1 DEF Init, BookTypes
<1>3. CountTypes
  BY <1>1 DEF Init, CountTypes, Legs, NoRequest
<1>4. OrderTypes /\ HandTypes
  BY FS_EmptySet DEF Init, OrderTypes, HandTypes
<1> QED BY <1>2, <1>3, <1>4 DEF Types

LEMMA BeginTypes == ASSUME Types, Begin PROVE Types'
<1>1. PICK q \in 1..position.matched :
          /\ total' = q /\ chunks' = ChunkCount(q)
          /\ step' = "short" /\ chunk' = 1 /\ attempt' = 1
          /\ request' = [cid |-> Cid("exit", IF ChunkCount(q) = 1 THEN 0 ELSE 1),
                         quantity |-> IF ChunkCount(q) = 1 THEN q ELSE q \div ChunkCount(q)]
  BY DEF Begin
<1>2. q \in Nat /\ q > 0
  BY <1>1 DEF Types, BookTypes
<1> DEFINE n == ChunkCount(q)
<1>3. n \in Nat \ {0}
  BY <1>2, ChunksAre DEF Types, CountTypes
<1> HIDE DEF n
<1>4. q \div n \in Int
  BY <1>2, <1>3
<1>5. chunks' = n /\ request'.quantity \in Int
  BY <1>1, <1>2, <1>4 DEF n
<1>6. cap' = cap /\ calls' = calls + 1 /\ at' = at
  BY DEF Begin, setup, config
<1>7. CountTypes'
  BY <1>1, <1>2, <1>3, <1>5, <1>6 DEF Types, CountTypes
<1>8. BookTypes' /\ HandTypes'
  BY DEF Begin, bookVars, Types, BookTypes, HandTypes
<1>9. OrderTypes'
  BY <1>6 DEF Begin, Types, OrderTypes, CountTypes
<1> QED BY <1>7, <1>8, <1>9 DEF Types

LEMMA LegIs == ASSUME Submitting PROVE step \in Legs
BY DEF Submitting

LEMMA UnsureTypes ==
  ASSUME Types, Submitting, Unsure, UNCHANGED <<cap, calls, total, chunks, fills>>
  PROVE  CountTypes' /\ HandTypes'
<1>1. CountTypes'
  BY GoOnTypes DEF Unsure
<1> DEFINE u == [leg |-> step, cid |-> request.cid]
           w == [leg |-> step, cid |-> ExitCid(chunk)]
<1>2. unknown' = unknown \/ unknown' = unknown \cup {u} \/ unknown' = (unknown \cup {u}) \cup {w}
  BY DEF Unsure
<1> HIDE DEF u, w
<1>3. IsFiniteSet(unknown')
  BY <1>2, UnknownTypes
<1> QED BY <1>1, <1>3 DEF Types, HandTypes

LEMMA FilledTypes == ASSUME Types, Filled PROVE Types'
<1>1. PICK x \in IocResult(step) \ {0} : Execute(step, x) /\ AddFill(step, request.cid, x, chunk)
  BY DEF Filled
<1>2. step \in Legs /\ UNCHANGED <<cap, calls, total, chunks, position, unknown>>
  BY DEF Filled, Submitting, setup, config, bookVars
<1>3. x \in 0..venue[step] /\ x \in Nat
  BY <1>2, IocIs
<1>4. BookTypes' /\ OrderTypes'
  BY <1>1, <1>2, <1>3, MoveTypes DEF Moves
<1>5. CountTypes'
  BY <1>2, GoOnTypes DEF Filled
<1> DEFINE f == [leg |-> step, cid |-> request.cid, quantity |-> x, chunk |-> chunk]
<1>6. fills' = fills \cup {f} /\ f.quantity \in Nat /\ f.chunk \in Nat
  BY <1>1, <1>3 DEF AddFill, Types, CountTypes
<1> HIDE DEF f
<1>7. HandTypes'
  BY <1>2, <1>6, FillTypes DEF Types, HandTypes
<1> QED BY <1>4, <1>5, <1>7 DEF Types

LEMMA UnansweredMoves == ASSUME Types, Unanswered PROVE Moves(step)
<1>1. step \in Legs /\ 0 \in 0..venue[step]
  BY DEF Unanswered, Submitting, Types, BookTypes
<1>2. \A x \in IocResult(step) : x \in 0..venue[step]
  BY <1>1, IocIs
<1> QED BY <1>1, <1>2 DEF Unanswered, Moves

LEMMA UnansweredTypes == ASSUME Types, Unanswered PROVE Types'
<1>1. step \in Legs /\ UNCHANGED <<cap, calls, total, chunks, position, fills>>
  BY DEF Unanswered, Submitting, config, bookVars
<1>2. BookTypes' /\ OrderTypes'
  BY <1>1, UnansweredMoves, MoveTypes
<1>3. CountTypes' /\ HandTypes'
  BY <1>1, UnsureTypes DEF Unanswered
<1> QED BY <1>2, <1>3 DEF Types

\* No order is executed and the record stays.
LEMMA StillTypes ==
  ASSUME Types, UNCHANGED <<orders, venue, position, calls>>
  PROVE  BookTypes' /\ OrderTypes'
BY DEF Types, BookTypes, OrderTypes

LEMMA NothingToReduceTypes == ASSUME Types, NothingToReduce PROVE Types'
<1>1. UNCHANGED <<cap, calls, total, chunks, position, unknown, orders, venue>>
  BY DEF NothingToReduce, setup, config, bookVars
<1>2. CountTypes'
  BY <1>1, GoOnTypes DEF NothingToReduce
<1> DEFINE f == [leg |-> step, cid |-> request.cid, quantity |-> 0, chunk |-> chunk]
<1>3. fills' = fills \cup {f} /\ f.quantity \in Nat /\ f.chunk \in Nat
  BY DEF NothingToReduce, AddFill, Types, CountTypes
<1> HIDE DEF f
<1>4. HandTypes'
  BY <1>1, <1>3, FillTypes DEF Types, HandTypes
<1> QED BY <1>1, <1>2, <1>4, StillTypes DEF Types

LEMMA RejectedTypes ==
  ASSUME Types, Rejected, UNCHANGED <<cap, calls, orders, venue>>
  PROVE  Types'
<1>1. position' = position
  BY DEF Rejected, ReturnNothing, bookVars
<1>2. CASE ReturnNothing
  BY <1>1, <1>2, LeaveTypes, StillTypes DEF ReturnNothing, Types
<1>3. CASE Compensate /\ UNCHANGED <<bookVars, failClosed, dropped, chunks, total, fills, unknown>>
  BY <1>1, <1>3, GoOnTypes, StillTypes DEF Types, HandTypes
<1> QED BY <1>2, <1>3 DEF Rejected

LEMMA RefuseTypes == ASSUME Types, Refuse PROVE Types'
BY RejectedTypes DEF Refuse, setup, config

LEMMA DuplicateRefusedTypes == ASSUME Types, DuplicateRefused PROVE Types'
BY RejectedTypes DEF DuplicateRefused, config

LEMMA ConflictTypes == ASSUME Types, Conflict PROVE Types'
<1>1. UNCHANGED <<cap, calls, total, chunks, position, unknown, fills, orders, venue>>
  BY DEF Conflict, setup, config, bookVars
<1>2. CountTypes'
  BY <1>1, GoOnTypes DEF Conflict
<1> QED BY <1>1, <1>2, StillTypes DEF Types, HandTypes

LEMMA RetryIs ==
  ASSUME NEW q \in Nat, NEW target \in Int, NEW read, NEW live \in Nat
  PROVE  RetryQuantity(q, target, read, live) \in Int
BY DEF RetryQuantity, Lesser

LEMMA DuplicateResolvedTypes == ASSUME Types, DuplicateResolved PROVE Types'
<1>1. step \in Legs /\ UNCHANGED <<cap, calls, total, chunks, position, orders, venue>>
  BY DEF DuplicateResolved, Submitting, config, bookVars
<1>2. venue[step] \in Nat /\ request.quantity \in Int /\ Executed(step, request.cid) \in Nat
  BY <1>1, ExecutedType DEF Types, BookTypes, CountTypes
<1>3. PICK readOrder \in BOOLEAN, read \in BOOLEAN :
          LET target == request.quantity
              q == IF readOrder THEN Executed(step, request.cid) ELSE 0
              decision == Decision(q, target, read, venue[step])
          IN  \/ /\ NextLeg /\ UNCHANGED <<fills, unknown>>
              \/ AddFill(step, request.cid, q, chunk) /\ NextLeg /\ UNCHANGED unknown
              \/ /\ request' = [cid |-> Cid("again", attempt + 1),
                                quantity |-> RetryQuantity(q, target, read, venue[step])]
                 /\ attempt' = attempt + 1
                 /\ UNCHANGED <<step, at, chunk, fills, unknown>>
              \/ /\ unknown' = unknown \cup {[leg |-> step, cid |-> ExitCid(chunk)]}
                 /\ Compensate /\ UNCHANGED fills
  BY DEF DuplicateResolved
<1> DEFINE q == IF readOrder THEN Executed(step, request.cid) ELSE 0
           f == [leg |-> step, cid |-> request.cid, quantity |-> q, chunk |-> chunk]
           u == [leg |-> step, cid |-> ExitCid(chunk)]
<1>4. q \in Nat
  BY <1>2
<1>5. CountTypes' /\ HandTypes'
  <2>1. CASE NextLeg /\ UNCHANGED <<fills, unknown>>
    BY <1>1, <2>1, GoOnTypes DEF Types, HandTypes
  <2>2. CASE AddFill(step, request.cid, q, chunk) /\ NextLeg /\ UNCHANGED unknown
    <3>1. fills' = fills \cup {f} /\ f.quantity \in Nat /\ f.chunk \in Nat
      BY <1>4, <2>2 DEF AddFill, Types, CountTypes
    <3> HIDE DEF f
    <3> QED BY <1>1, <2>2, <3>1, GoOnTypes, FillTypes DEF Types, HandTypes
  <2>3. CASE /\ request' = [cid |-> Cid("again", attempt + 1),
                            quantity |-> RetryQuantity(q, request.quantity, read, venue[step])]
             /\ attempt' = attempt + 1
             /\ UNCHANGED <<step, at, chunk, fills, unknown>>
    <3>1. RetryQuantity(q, request.quantity, read, venue[step]) \in Int
      BY <1>2, <1>4, RetryIs
    <3> QED BY <1>1, <2>3, <3>1 DEF Types, CountTypes, HandTypes
  <2>4. CASE unknown' = unknown \cup {u} /\ Compensate /\ UNCHANGED fills
    BY <1>1, <2>4, GoOnTypes, UnknownTypes DEF Types, HandTypes
  <2> QED BY <1>3, <2>1, <2>2, <2>3, <2>4
<1> QED BY <1>1, <1>5, StillTypes DEF Types

\* Compensation.
LEMMA NextVenueTypes ==
  ASSUME Types, NextVenue, UNCHANGED <<cap, calls, total, chunks>> PROVE CountTypes'
BY DEF NextVenue, Types, CountTypes, Legs, NoRequest

LEMMA AttemptTypes ==
  ASSUME Types, NEW flat, AfterAttempt(flat), UNCHANGED <<cap, calls>>,
         venue' \in [Legs -> Nat]
  PROVE  CountTypes'
<1>1. CASE NextVenue /\ UNCHANGED <<chunks, total>>
  BY <1>1, NextVenueTypes
<1>2. CASE NotFlat
  BY <1>2 DEF NotFlat, callVars, Types, CountTypes
<1> QED BY <1>1, <1>2 DEF AfterAttempt

LEMMA NotFlatTypes ==
  ASSUME Types, NotFlat, UNCHANGED <<cap, calls>>, venue' \in [Legs -> Nat]
  PROVE  CountTypes'
BY DEF NotFlat, callVars, Types, CountTypes

LEMMA BookStays ==
  ASSUME NEW flat, NotFlat \/ AfterAttempt(flat)
  PROVE  UNCHANGED <<bookVars, chunks, total>>
BY DEF NotFlat, AfterAttempt, callVars

LEMMA RetainTypes ==
  ASSUME Types, NEW q \in Nat, Retain(q) PROVE HandTypes'
<1> DEFINE f == [leg |-> at, cid |-> request.cid, quantity |-> q, chunk |-> 0]
           u == [leg |-> at, cid |-> request.cid]
<1>1. (fills' = fills \/ fills' = fills \cup {f}) /\ (unknown' = unknown \/ unknown' = unknown \cup {u})
  BY DEF Retain
<1>2. f.quantity \in Nat /\ f.chunk \in Nat
  OBVIOUS
<1> HIDE DEF f, u
<1>3. IsFiniteSet(unknown')
  BY <1>1, UnknownTypes
<1>4. CASE fills' = fills
  BY <1>3, <1>4 DEF Types, HandTypes
<1>5. CASE fills' = fills \cup {f}
  BY <1>2, <1>3, <1>5, FillTypes
<1> QED BY <1>1, <1>4, <1>5

LEMMA CompensationFailsTypes ==
  ASSUME Types, CompensationFails, UNCHANGED <<cap, calls, orders, venue>> PROVE Types'
BY LeaveTypes, StillTypes DEF CompensationFails, Types

LEMMA GiveUpTypes == ASSUME Types, GiveUp PROVE Types'
BY CompensationFailsTypes DEF GiveUp, setup, config

LEMMA ProbeTypes == ASSUME Types, Probe PROVE Types'
<1>1. UNCHANGED <<cap, calls, orders, venue>>
  BY DEF Probe, setup, config
<1>2. CASE CompensationFails
  BY <1>1, <1>2, CompensationFailsTypes
<1>3. CASE NextVenue /\ UNCHANGED <<bookVars, failClosed, dropped, chunks, total, fills, unknown, blind>>
  BY <1>1, <1>3, NextVenueTypes, StillTypes DEF bookVars, Types, HandTypes
<1>4. CASE /\ attempt' = 1 /\ request' = [cid |-> Cid("flatten", 1), quantity |-> venue[at]]
           /\ UNCHANGED <<bookVars, failClosed, dropped, at, callVars, fills, unknown, blind>>
  <2>1. venue[at] \in Nat
    BY DEF Types, BookTypes, CountTypes
  <2>2. CountTypes'
    BY <1>1, <1>4, <2>1 DEF callVars, Types, CountTypes
  <2> QED BY <1>1, <1>4, <2>2, StillTypes DEF bookVars, Types, HandTypes
<1> QED BY <1>2, <1>3, <1>4 DEF Probe

LEMMA FlattenAnsweredTypes == ASSUME Types, FlattenAnswered PROVE Types'
<1>1. PICK x \in IocResult(at) : Execute(at, x) /\ Retain(x)
                                 /\ AfterAttempt(x >= request.quantity \/ venue'[at] = 0)
  BY DEF FlattenAnswered
<1>2. UNCHANGED <<bookVars, chunks, total, cap, calls>> /\ at \in Legs
  BY <1>1, BookStays DEF FlattenAnswered, setup, config, Types, CountTypes
<1>3. x \in 0..venue[at] /\ x \in Nat
  BY <1>2, IocIs
<1>4. BookTypes' /\ OrderTypes'
  BY <1>1, <1>2, <1>3, MoveTypes DEF Moves, bookVars
<1>5. CountTypes'
  BY <1>1, <1>2, <1>4, AttemptTypes DEF BookTypes
<1> QED BY <1>1, <1>3, <1>4, <1>5, RetainTypes DEF Types

LEMMA FlattenMoves == ASSUME Types, FlattenLost PROVE Moves(at)
<1>1. \A x \in IocResult(at) : x \in 0..venue[at]
  BY IocIs DEF Types, CountTypes
<1> QED BY <1>1 DEF FlattenLost, Moves

LEMMA FlattenLostTypes == ASSUME Types, FlattenLost PROVE Types'
<1> DEFINE flat == venue'[at] = 0
<1>1. AfterAttempt(flat) /\ Retain(0)
  BY DEF FlattenLost
<1> HIDE DEF flat
<1>2. UNCHANGED <<bookVars, chunks, total, cap, calls>> /\ at \in Legs
  BY <1>1, BookStays DEF FlattenLost, setup, config, Types, CountTypes
<1>3. BookTypes' /\ OrderTypes'
  BY <1>2, FlattenMoves, MoveTypes DEF bookVars
<1>4. CountTypes'
  BY <1>1, <1>2, <1>3, AttemptTypes DEF BookTypes
<1> QED BY <1>1, <1>3, <1>4, RetainTypes DEF Types

LEMMA FlattenRefusedTypes == ASSUME Types, FlattenRefused PROVE Types'
<1>1. NotFlat /\ UNCHANGED <<orders, venue, cap, calls, fills, unknown>>
  BY DEF FlattenRefused, ExecuteNothing, config
<1>2. UNCHANGED <<bookVars, chunks, total>>
  BY <1>1, BookStays
<1>3. CountTypes'
  BY <1>1, NotFlatTypes DEF Types, BookTypes
<1> QED BY <1>1, <1>2, <1>3, StillTypes DEF Types, HandTypes, bookVars

LEMMA FlattenDuplicateTypes == ASSUME Types, FlattenDuplicate PROVE Types'
<1>1. PICK q \in {Executed(at, request.cid), 0} :
         /\ Retain(q) \/ UNCHANGED <<fills, unknown>>
         /\ \/ NotFlat
            \/ \E read \in BOOLEAN :
                  /\ request' = [cid |-> Cid("reflatten", attempt),
                                 quantity |-> RetryQuantity(q, request.quantity, read, venue[at])]
                  /\ UNCHANGED <<bookVars, failClosed, dropped, step, at, callVars, attempt>>
  BY DEF FlattenDuplicate
<1>2. q \in Nat /\ UNCHANGED <<orders, venue, cap, calls>>
  BY ExecutedType DEF FlattenDuplicate, ExecuteNothing, config
<1>3. HandTypes'
  <2>1. CASE Retain(q)
    BY <1>2, <2>1, RetainTypes
  <2>2. CASE UNCHANGED <<fills, unknown>>
    BY <2>2 DEF Types, HandTypes
  <2> QED BY <1>1, <2>1, <2>2
<1>4. CASE NotFlat
  BY <1>2, <1>3, <1>4, BookStays, NotFlatTypes, StillTypes DEF Types, BookTypes, bookVars
<1>5. CASE \E read \in BOOLEAN :
             /\ request' = [cid |-> Cid("reflatten", attempt),
                            quantity |-> RetryQuantity(q, request.quantity, read, venue[at])]
             /\ UNCHANGED <<bookVars, failClosed, dropped, step, at, callVars, attempt>>
  <2>1. venue[at] \in Nat /\ request.quantity \in Int
    BY DEF Types, BookTypes, CountTypes
  <2>2. request'.quantity \in Int /\ UNCHANGED <<bookVars, at, callVars, attempt>>
    BY <1>2, <1>5, <2>1, RetryIs
  <2>3. CountTypes'
    BY <1>2, <2>2 DEF callVars, Types, CountTypes
  <2> QED BY <1>2, <1>3, <2>2, <2>3, StillTypes DEF Types, bookVars
<1> QED BY <1>1, <1>4, <1>5

\* The end of a call, and the lanes between two calls.
LEMMA NothingClosedTypes == ASSUME Types, NothingClosed PROVE Types'
BY LeaveTypes, StillTypes DEF NothingClosed, setup, config, bookVars, Types

LEMMA WriteBackTypes == ASSUME Types, WriteBack PROVE Types'
<1>1. /\ position' = [matched |-> Less(position.matched, MatchedClosed),
                      short |-> Less(position.short, Closed("short")),
                      long |-> Less(position.long, Closed("long"))]
      /\ UNCHANGED <<cap, calls, orders, venue>>
      /\ \E gone : Leave(gone)
  BY DEF WriteBack, setup, config
<1>2. Closed("short") \in Nat /\ Closed("long") \in Nat
  BY ClosedType
<1>3. MatchedClosed \in Nat
  BY <1>2 DEF MatchedClosed, Lesser
<1>4. position' \in [matched : Nat, short : Nat, long : Nat]
  BY <1>1, <1>2, <1>3, LessIs DEF Types, BookTypes
<1>5. BookTypes' /\ OrderTypes'
  BY <1>1, <1>4 DEF Types, BookTypes, OrderTypes
<1> QED BY <1>1, <1>5, LeaveTypes DEF Types

LEMMA LedgerTypes == ASSUME Types, LedgerStep \/ UNCHANGED vars PROVE Types'
<1>1. UNCHANGED <<cap, orders, venue, position, step, at, chunk, chunks, total, request,
                  attempt, fills, unknown, calls>>
  BY DEF LedgerStep, ResolvePendingClose, Settle, Terminalize, callLocals, callVars, outside,
         setup, config, vars
<1> QED BY <1>1, StillTypes DEF Types, CountTypes, HandTypes

LEMMA NextTypes == ASSUME Types, [Next]_vars PROVE Types'
<1>1. CASE Begin
  BY <1>1, BeginTypes
<1>2. CASE Submit
  BY <1>2, FilledTypes, UnansweredTypes, NothingToReduceTypes, RefuseTypes, ConflictTypes,
     DuplicateRefusedTypes, DuplicateResolvedTypes DEF Submit
<1>3. CASE Flatten
  BY <1>3, FlattenAnsweredTypes, FlattenLostTypes, FlattenRefusedTypes, FlattenDuplicateTypes
     DEF Flatten
<1>4. CASE Probe \/ GiveUp \/ NothingClosed \/ WriteBack
  BY <1>4, ProbeTypes, GiveUpTypes, NothingClosedTypes, WriteBackTypes
<1>5. CASE LedgerStep \/ UNCHANGED vars
  BY <1>5, LedgerTypes
<1> QED BY <1>1, <1>2, <1>3, <1>4, <1>5 DEF Next, CloseStep

-----------------------------------------------------------------------------
(* The books inside a call.                                                *)

Books == Recorded /\ Gone /\ Partials

\* The orders a step adds are of this call.
Own == orders \subseteq orders' /\ \A o \in orders' : o \in orders \/ o.call = calls

LEMMA MovesOwn ==
  ASSUME Types, NEW k \in Legs, Moves(k), calls' = calls
  PROVE  /\ Own
         /\ \A l \in Legs : \A c \in Nat : c <= calls =>
               venue'[l] + Since(c, l)' = venue[l] + Since(c, l)
<1>1. CASE ExecuteNothing
  <2>1. orders' = orders /\ venue' = venue
    BY <1>1 DEF ExecuteNothing
  <2> QED BY <2>1, SinceSame DEF Own
<1>2. ASSUME NEW x \in 0..venue[k], Execute(k, x)
      PROVE  /\ Own
             /\ \A l \in Legs : \A c \in Nat : c <= calls =>
                   venue'[l] + Since(c, l)' = venue[l] + Since(c, l)
  <2>1. orders \subseteq orders'
    BY <1>2 DEF Execute
  <2> QED BY <1>2, <2>1, ExecuteMoves DEF Own
<1> QED BY <1>1, <1>2 DEF Moves

LEMMA BooksInCall ==
  ASSUME Types, Types', Books, ~Idle, ~Idle', NEW k \in Legs, Moves(k),
         UNCHANGED <<position, open, owners, calls>>
  PROVE  Books'
<1>1. /\ Own
      /\ \A l \in Legs : \A c \in Nat : c <= calls =>
            venue'[l] + Since(c, l)' = venue[l] + Since(c, l)
  BY MovesOwn
<1>2. calls \in Nat /\ calls' = calls
  BY DEF Types, CountTypes
<1>3. Recorded'
  <2>1. ASSUME open, NEW l \in Legs
        PROVE  position.matched >= position[l] /\ position[l] >= venue'[l] + Since(calls, l)'
    <3>1. position.matched >= position[l] /\ position[l] >= venue[l] + Since(calls, l)
      BY <2>1 DEF Books, Recorded
    <3>2. venue'[l] + Since(calls, l)' = venue[l] + Since(calls, l)
      BY <1>1, <1>2
    <3> QED BY <3>1, <3>2
  <2> QED BY <2>1 DEF Recorded
<1>4. Gone'
  BY DEF Books, Gone
<1>5. Partials'
  <2> SUFFICES ASSUME NEW own \in owners, own.kind = "partial"
      PROVE  /\ IsFiniteSet(own.legs) /\ own.call \in Nat /\ own.call <= calls
             /\ \A o \in own.legs : o = [leg |-> o.leg, cid |-> o.cid, quantity |-> o.quantity]
             /\ \A o \in orders' : Name(o) \in Named(own) => o.call >= own.call
             /\ \A l \in Legs : own.snapshot[l] >= venue'[l] + Since(own.call, l)'
    BY <1>2 DEF Partials, Named, Name
  <2>1. /\ IsFiniteSet(own.legs) /\ own.call \in Nat /\ own.call <= calls
        /\ \A o \in own.legs : o = [leg |-> o.leg, cid |-> o.cid, quantity |-> o.quantity]
        /\ \A o \in orders : Name(o) \in Named(own) => o.call >= own.call
        /\ \A l \in Legs : own.snapshot[l] >= venue[l] + Since(own.call, l)
    BY DEF Books, Partials
  <2>2. \A o \in orders' : Name(o) \in Named(own) => o.call >= own.call
    BY <1>1, <1>2, <2>1 DEF Own
  <2>3. \A l \in Legs : own.snapshot[l] >= venue'[l] + Since(own.call, l)'
    BY <1>1, <2>1
  <2> QED BY <2>1, <2>2, <2>3
<1> QED BY <1>3, <1>4, <1>5 DEF Books

-----------------------------------------------------------------------------
(* The fills inside a call.                                                *)

Hold == FillsTold /\ FillsOnce /\ UnknownOwn

\* What is unresolved afterwards names orders of this call.
Mine(n) == \A o \in orders' : Name(o) = n => o.call = calls
LEMMA UnknownStays ==
  ASSUME UnknownOwn, Own, calls' = calls, \A u \in unknown' : u \in unknown \/ Mine(u)
  PROVE  UnknownOwn'
BY DEF UnknownOwn, Own, Mine, Name

LEMMA FillsStay ==
  ASSUME Hold, Own, calls' = calls, fills' = fills PROVE FillsTold' /\ FillsOnce'
BY DEF Hold, FillsTold, FillsOnce, Own, Name

\* A fill of nothing, or of an order of this call that no fill told of.
LEMMA FillsGrow ==
  ASSUME Hold, Own, calls' = calls, NEW f, f.quantity \in Nat, fills' = fills \cup {f},
         f.quantity > 0 =>
            /\ \E o \in orders' : /\ Name(o) = Name(f) /\ o.quantity = f.quantity
                                  /\ o.call = calls /\ f.chunk \in {0, o.chunk}
            /\ \A g \in fills : g.quantity > 0 => Name(g) # Name(f)
  PROVE  FillsTold' /\ FillsOnce'
<1>1. FillsTold'
  <2> SUFFICES ASSUME NEW g \in fills \cup {f}, g.quantity > 0
      PROVE  \E o \in orders' : /\ Name(o) = Name(g) /\ o.quantity = g.quantity
                                /\ o.call = calls /\ g.chunk \in {0, o.chunk}
    BY DEF FillsTold, Name
  <2>1. CASE g \in fills
    BY <2>1 DEF Hold, FillsTold, Own
  <2>2. CASE g = f
    BY <2>2
  <2> QED BY <2>1, <2>2
<1>2. FillsOnce'
  BY DEF Hold, FillsOnce, Name
<1> QED BY <1>1, <1>2

\* An order that the venue has just taken is one that no fill told of.
LEMMA NewIsUntold ==
  ASSUME Hold, NEW k, ~Taken(k, request.cid), NEW g \in fills, g.quantity > 0
  PROVE  Name(g) # [leg |-> k, cid |-> request.cid]
BY DEF Hold, FillsTold, Taken, Name

LEMMA NewIsMine ==
  ASSUME NEW k, ~Taken(k, request.cid), Own
  PROVE  Mine([leg |-> k, cid |-> request.cid])
BY DEF Taken, Mine, Own, Name

\* Nothing is held and nothing waits.
LEMMA Released ==
  ASSUME fills' = {}, unknown' = {}, step' = "idle"
  PROVE  FillsTold' /\ FillsOnce' /\ UnknownOwn' /\ AtLeg' /\ AtFlatten'
BY DEF FillsTold, FillsOnce, UnknownOwn, AtLeg, AtFlatten, Legs

LEMMA SoundIs == Sound <=> Books /\ Hold /\ AtLeg /\ AtFlatten
BY DEF Sound, Books, Hold

LEMMA InitSound == ASSUME Init PROVE Sound
<1>1. Recorded /\ Gone
  <2>1. Idle
    BY DEF Init, Idle
  <2>2. \A l \in Legs : position[l] = Quantity /\ venue[l] = Quantity
    BY DEF Init, Legs
  <2>3. open /\ position.matched = Quantity /\ Quantity \in Nat
    BY CloseConstants DEF Init
  <2> QED BY <2>1, <2>2, <2>3 DEF Recorded, Gone
<1>2. Partials
  BY DEF Init, Partials
<1>3. FillsTold /\ FillsOnce /\ UnknownOwn /\ AtLeg /\ AtFlatten
  BY DEF Init, FillsTold, FillsOnce, UnknownOwn, AtLeg, AtFlatten, Legs
<1> QED BY <1>1, <1>2, <1>3 DEF Sound

-----------------------------------------------------------------------------
(* The steps of a leg keep the account.                                    *)

LEMMA BeginSound ==
  ASSUME Inductive, Types, Types', Sound, Begin PROVE Sound'
<1>1. fills = {} /\ unknown = {} /\ Idle /\ open
  BY DEF Inductive, Hands, EmptyHanded, Begin, Idle
<1>2. calls' = calls + 1 /\ orders' = orders /\ calls \in Nat
      /\ UNCHANGED <<venue, position, open, owners, fills, unknown>>
  BY DEF Begin, bookVars, Types, CountTypes
<1>3. \A o \in orders : o.call \in Nat /\ o.call <= calls /\ o.call # calls'
  BY <1>2 DEF Types, OrderTypes
<1>4. \A c, l : Since(c, l)' = Since(c, l)
  BY <1>2, SinceSame
<1>5. \A l : Since(calls + 1, l) = 0
  <2>1. {o \in orders : o.call >= calls + 1} = {}
    BY <1>2, <1>3
  <2> QED BY <2>1, QuantityOfNone DEF Since
<1>6. Recorded'
  <2>1. ASSUME NEW l \in Legs
        PROVE  position.matched >= position[l] /\ position[l] >= venue[l] + Since(calls + 1, l)
    <3>1. venue[l] \in Nat /\ venue[l] + 0 = venue[l]
      BY <2>1 DEF Types, BookTypes
    <3>2. position.matched >= position[l] /\ position[l] >= venue[l]
      BY <1>1, <2>1, <3>1 DEF Sound, Recorded
    <3> QED BY <3>1, <3>2, <1>5
  <2>2. ~Idle'
    BY DEF Begin, Idle
  <2>3. \A l : Since(calls, l)' = Since(calls + 1, l)
    BY <1>2, <1>4
  <2> QED BY <1>1, <1>2, <2>1, <2>2, <2>3 DEF Recorded
<1>7. Gone'
  BY <1>1, <1>2 DEF Gone
<1>8. Partials'
  <2> SUFFICES ASSUME NEW own \in owners, own.kind = "partial"
      PROVE  /\ IsFiniteSet(own.legs) /\ own.call \in Nat /\ own.call <= calls + 1
             /\ \A o \in own.legs : o = [leg |-> o.leg, cid |-> o.cid, quantity |-> o.quantity]
             /\ \A o \in orders : Name(o) \in Named(own) => o.call >= own.call
             /\ \A l \in Legs : own.snapshot[l] >= venue[l] + Since(own.call, l)
    BY <1>2, <1>4 DEF Partials, Named, Name
  <2> QED BY <1>2 DEF Sound, Partials
<1>9. FillsTold' /\ FillsOnce' /\ UnknownOwn'
  BY <1>1, <1>2 DEF FillsTold, FillsOnce, UnknownOwn
<1>10. AtLeg' /\ AtFlatten'
  <2>1. step' = "short" /\ chunk' = 1 /\ request'.cid = ExitCid(chunk)'
    BY DEF Begin, ExitCid
  <2>2. request'.cid.stage = "exit"
    BY <2>1 DEF ExitCid, Cid
  <2> QED BY <1>1, <1>2, <1>3, <2>1, <2>2 DEF AtLeg, AtFlatten, Legs
<1> QED BY <1>6, <1>7, <1>8, <1>9, <1>10 DEF Sound

\* The only order a step adds carries the request's id.
Sends(k) == \A o \in orders' : o \in orders
                \/ (o.call = calls /\ o.leg = k /\ o.cid = request.cid /\ o.chunk = chunk)
LEMMA MovesSend == ASSUME NEW k, Moves(k) PROVE Sends(k)
BY DEF Moves, Execute, ExecuteNothing, Sends

LEMMA LegGoesOn ==
  ASSUME Types, AtLeg, Submitting, Sends(step), calls' = calls, chunks' = chunks,
         \A f \in fills' : f \in fills \/ (f.chunk = chunk /\ f.leg = step),
         NextLeg \/ Compensate \/ (TryAgain /\ fills' = fills)
  PROVE  AtLeg' /\ AtFlatten' /\ ~Idle'
<1>1. /\ step \in Legs /\ request.cid.stage \in {"exit", "again"}
      /\ \A f \in fills : /\ f.chunk # 0 /\ f.chunk <= chunk
                          /\ f.chunk = chunk => f.leg = "short" /\ step = "long"
      /\ \A o \in orders : o.call = calls => o.cid.stage \in {"exit", "again"}
      /\ \A o \in orders :
            Name(o) = [leg |-> step, cid |-> ExitCid(chunk)] /\ request.cid # ExitCid(chunk)
                => o.call = calls
  BY DEF AtLeg, Submitting
<1>2. \A o \in orders' : o.call = calls => o.cid.stage \in {"exit", "again"}
  BY <1>1 DEF Sends
<1>3. chunk \in Nat /\ chunk # 0
  BY DEF Types, CountTypes
<1>4. \A f \in fills : f.chunk \in Nat
  BY DEF Types, HandTypes
<1>5. CASE NextLeg
  <2>1. CASE step = "short"
    <3>1. step' = "long" /\ chunk' = chunk /\ request'.cid = ExitCid(chunk)'
      BY <1>5, <2>1 DEF NextLeg, ExitRequest, ExitCid
    <3>2. request'.cid.stage = "exit"
      BY <3>1 DEF ExitCid, Cid
    <3>3. \A f \in fills' : f.chunk # 0 /\ f.chunk <= chunk /\ (f.chunk = chunk => f.leg = "short")
      BY <1>1, <1>3, <2>1
    <3> QED BY <1>2, <3>1, <3>2, <3>3 DEF AtLeg, AtFlatten, Idle, Legs
  <2>2. CASE step = "long" /\ chunk < chunks
    <3>0. chunk # chunks
      BY <2>2 DEF Types, CountTypes
    <3>1. step' = "short" /\ chunk' = chunk + 1 /\ request'.cid = ExitCid(chunk)'
      BY <1>5, <2>2, <3>0 DEF NextLeg, ExitRequest, ExitCid
    <3>2. request'.cid.stage = "exit"
      BY <3>1 DEF ExitCid, Cid
    <3>3. \A f \in fills' : f.chunk # 0 /\ f.chunk <= chunk + 1 /\ f.chunk # chunk + 1
      BY <1>1, <1>3, <1>4
    <3> QED BY <1>2, <3>1, <3>2, <3>3 DEF AtLeg, AtFlatten, Idle, Legs
  <2>3. CASE step' = "write"
    BY <2>3 DEF AtLeg, AtFlatten, Idle, Legs
  <2> QED BY <1>5, <2>1, <2>2, <2>3 DEF NextLeg
<1>6. CASE Compensate
  BY <1>2, <1>6 DEF Compensate, AtLeg, AtFlatten, Idle, Legs
<1>7. CASE TryAgain /\ fills' = fills
  <2>1. step' = step /\ chunk' = chunk /\ request' = request /\ ExitCid(chunk)' = ExitCid(chunk)
    BY <1>7 DEF TryAgain, ExitCid
  <2>2. \A o \in orders' :
            Name(o) = [leg |-> step, cid |-> ExitCid(chunk)] /\ request.cid # ExitCid(chunk)
                => o.call = calls
    BY <1>1 DEF Sends
  <2> QED BY <1>1, <1>2, <1>7, <2>1, <2>2 DEF AtLeg, AtFlatten, Idle, Legs, Name
<1> QED BY <1>5, <1>6, <1>7

\* The books and what is sent, when the step of a leg goes on.
LEMMA LegBooks ==
  ASSUME Types, Types', Sound, Submitting, ~Idle', Moves(step),
         UNCHANGED <<position, open, owners, calls>>
  PROVE  Books' /\ Own /\ Sends(step)
<1>1. step \in Legs /\ ~Idle
  BY DEF Submitting, Legs, Idle
<1>2. Books'
  BY <1>1, BooksInCall, SoundIs
<1>3. Own /\ Sends(step)
  BY <1>1, MovesOwn, MovesSend
<1> QED BY <1>2, <1>3

LEMMA FilledSound == ASSUME Types, Types', Sound, Filled PROVE Sound'
<1>1. PICK x \in IocResult(step) \ {0} : Execute(step, x) /\ AddFill(step, request.cid, x, chunk)
  BY DEF Filled
<1>2. step \in Legs /\ UNCHANGED <<position, open, owners, calls, chunks, unknown>>
  BY DEF Filled, Submitting, bookVars
<1>3. x \in 0..venue[step] /\ x \in Nat
  BY <1>2, IocIs
<1>4. Moves(step) /\ Sends(step)
  BY <1>1, <1>3, MovesSend DEF Moves
<1> DEFINE f == [leg |-> step, cid |-> request.cid, quantity |-> x, chunk |-> chunk]
           o == [leg |-> step, cid |-> request.cid, quantity |-> x, call |-> calls, chunk |-> chunk]
<1>5. fills' = fills \cup {f} /\ o \in orders' /\ ~Taken(step, request.cid)
  BY <1>1 DEF AddFill, Execute
<1>6. f.leg = step /\ f.chunk = chunk /\ f.quantity = x
      /\ o.quantity = x /\ o.call = calls /\ o.chunk = chunk
      /\ Name(f) = [leg |-> step, cid |-> request.cid] /\ Name(o) = Name(f)
  BY DEF Name
<1> HIDE DEF f, o
<1>7. AtLeg' /\ AtFlatten' /\ ~Idle'
  <2>1. \A g \in fills' : g \in fills \/ (g.chunk = chunk /\ g.leg = step)
    BY <1>5, <1>6
  <2> QED BY <1>2, <1>4, <2>1, LegGoesOn DEF Filled, Sound
<1>8. Books' /\ Own
  BY <1>2, <1>4, <1>7, LegBooks DEF Filled
<1>9. FillsTold' /\ FillsOnce'
  <2>1. Hold
    BY SoundIs
  <2>2. \A g \in fills : g.quantity > 0 => Name(g) # Name(f)
    BY <1>5, <1>6, <2>1, NewIsUntold
  <2> QED BY <1>2, <1>3, <1>5, <1>6, <1>8, <2>1, <2>2, FillsGrow
<1>10. UnknownOwn'
  BY <1>2, <1>8, UnknownStays DEF Sound
<1> QED BY <1>7, <1>8, <1>9, <1>10 DEF Sound, Books

\* An id that no other close and no other chunk has used names orders of this call.
LEMMA RequestIsMine ==
  ASSUME ~Foreign(step, request.cid), Sends(step)
  PROVE  Mine([leg |-> step, cid |-> request.cid])
BY DEF Foreign, Sends, Mine, Name

LEMMA ExitIsMine ==
  ASSUME Sound, Submitting, ~Foreign(step, request.cid), Sends(step)
  PROVE  Mine([leg |-> step, cid |-> ExitCid(chunk)])
<1>1. CASE request.cid = ExitCid(chunk)
  BY <1>1, RequestIsMine
<1>2. CASE request.cid # ExitCid(chunk)
  BY <1>2 DEF Sound, AtLeg, Submitting, Sends, Mine, Name
<1> QED BY <1>1, <1>2

LEMMA UnansweredSound == ASSUME Types, Types', Sound, Unanswered, ~reused' PROVE Sound'
<1>1. Submitting /\ UNCHANGED <<position, open, owners, calls, chunks, fills>>
      /\ ~Foreign(step, request.cid) /\ Unsure
  BY DEF Unanswered, bookVars
<1>2. Moves(step) /\ Sends(step)
  BY UnansweredMoves, MovesSend
<1>3. AtLeg' /\ AtFlatten' /\ ~Idle'
  BY <1>1, <1>2, LegGoesOn DEF Unsure, Sound
<1>4. Books' /\ Own
  BY <1>1, <1>2, <1>3, LegBooks
<1>5. FillsTold' /\ FillsOnce'
  BY <1>1, <1>4, FillsStay, SoundIs
<1>6. UnknownOwn'
  <2>1. \A u \in unknown' : u \in unknown \/ u = [leg |-> step, cid |-> request.cid]
                                          \/ u = [leg |-> step, cid |-> ExitCid(chunk)]
    BY <1>1 DEF Unsure
  <2>2. \A u \in unknown' : u \in unknown \/ Mine(u)
    BY <1>1, <1>2, <2>1, RequestIsMine, ExitIsMine
  <2> QED BY <1>1, <1>4, <2>2, UnknownStays DEF Sound
<1> QED BY <1>3, <1>4, <1>5, <1>6 DEF Sound, Books

\* Nothing is sent.
LEMMA StillMoves == ASSUME UNCHANGED <<orders, venue>>, NEW k PROVE Moves(k) /\ Sends(k) /\ Own
BY DEF Moves, Sends, Own, ExecuteNothing

LEMMA NothingToReduceSound == ASSUME Types, Types', Sound, NothingToReduce PROVE Sound'
<1>1. Submitting /\ UNCHANGED <<position, open, owners, calls, chunks, unknown, orders, venue>>
      /\ AddFill(step, request.cid, 0, chunk) /\ NextLeg
  BY DEF NothingToReduce, Submitting, bookVars
<1>2. Moves(step) /\ Sends(step)
  BY <1>1, StillMoves
<1> DEFINE f == [leg |-> step, cid |-> request.cid, quantity |-> 0, chunk |-> chunk]
<1>3. fills' = fills \cup {f}
  BY <1>1 DEF AddFill
<1>4. f.leg = step /\ f.chunk = chunk /\ f.quantity = 0 /\ f.quantity \in Nat
  OBVIOUS
<1> HIDE DEF f
<1>5. AtLeg' /\ AtFlatten' /\ ~Idle'
  <2>1. \A g \in fills' : g \in fills \/ (g.chunk = chunk /\ g.leg = step)
    BY <1>3, <1>4
  <2> QED BY <1>1, <1>2, <2>1, LegGoesOn DEF Sound
<1>6. Books' /\ Own
  BY <1>1, <1>2, <1>5, LegBooks
<1>7. FillsTold' /\ FillsOnce'
  BY <1>1, <1>3, <1>4, <1>6, FillsGrow, SoundIs
<1>8. UnknownOwn'
  BY <1>1, <1>6, UnknownStays DEF Sound
<1> QED BY <1>5, <1>6, <1>7, <1>8 DEF Sound, Books

\* The call is over and the record is as it was.
LEMMA RecordLeft ==
  ASSUME Types, Recorded, Gone, Idle', UNCHANGED <<orders, venue, calls, position, open>>
  PROVE  Recorded' /\ Gone'
<1>1. ASSUME open, NEW l \in Legs
      PROVE  position.matched >= position[l] /\ position[l] >= venue[l] + 0
  <2>1. venue[l] \in Nat /\ position[l] \in Nat /\ Since(calls, l) \in Nat
    BY SinceType DEF Types, BookTypes, Legs
  <2>2. CASE Idle
    BY <1>1, <2>1, <2>2 DEF Recorded
  <2>3. CASE ~Idle
    <3>1. position.matched >= position[l] /\ position[l] >= venue[l] + Since(calls, l)
      BY <1>1, <2>3 DEF Recorded
    <3> QED BY <2>1, <3>1
  <2> QED BY <2>2, <2>3
<1>2. Recorded'
  BY <1>1 DEF Recorded
<1> QED BY <1>2 DEF Gone

LEMMA BooksLeft ==
  ASSUME Types, Books, Idle', UNCHANGED <<orders, venue, calls, position, open, owners>>
  PROVE  Books'
<1>1. Recorded' /\ Gone'
  BY RecordLeft DEF Books
<1>2. \A c, l : Since(c, l)' = Since(c, l)
  BY SinceSame
<1> QED BY <1>1, <1>2 DEF Books, Partials, Named, Name

LEMMA RejectedSound ==
  ASSUME Types, Types', Sound, Submitting, Rejected, UNCHANGED <<orders, venue, calls>>
  PROVE  Sound'
<1>1. CASE ReturnNothing
  <2>1. fills' = {} /\ unknown' = {} /\ step' = "idle" /\ UNCHANGED <<position, open, owners>>
    BY <1>1 DEF ReturnNothing, Leave, bookVars
  <2>2. Books'
    BY <2>1, BooksLeft, SoundIs DEF Idle
  <2> QED BY <2>1, <2>2, Released DEF Sound, Books
<1>2. CASE Compensate /\ UNCHANGED <<bookVars, failClosed, dropped, chunks, total, fills, unknown>>
  <2>1. UNCHANGED <<position, open, owners, fills, unknown, chunks>> /\ Moves(step) /\ Sends(step)
    BY <1>2, StillMoves DEF bookVars
  <2>2. AtLeg' /\ AtFlatten' /\ ~Idle'
    BY <1>2, <2>1, LegGoesOn DEF Sound
  <2>3. Books' /\ Own
    BY <2>1, <2>2, LegBooks
  <2>4. FillsTold' /\ FillsOnce' /\ UnknownOwn'
    BY <2>1, <2>3, FillsStay, UnknownStays, SoundIs DEF Hold
  <2> QED BY <2>2, <2>3, <2>4 DEF Sound, Books
<1> QED BY <1>1, <1>2 DEF Rejected

LEMMA RefuseSound == ASSUME Types, Types', Sound, Refuse PROVE Sound'
BY RejectedSound DEF Refuse

LEMMA DuplicateRefusedSound == ASSUME Types, Types', Sound, DuplicateRefused PROVE Sound'
BY RejectedSound DEF DuplicateRefused

LEMMA ConflictSound == ASSUME Types, Types', Sound, Conflict PROVE Sound'
<1>1. Submitting /\ TryAgain
      /\ UNCHANGED <<position, open, owners, fills, unknown, chunks, calls, orders, venue>>
  BY DEF Conflict, Submitting, bookVars
<1>2. Moves(step) /\ Sends(step)
  BY <1>1, StillMoves
<1>3. AtLeg' /\ AtFlatten' /\ ~Idle'
  BY <1>1, <1>2, LegGoesOn DEF Sound
<1>4. Books' /\ Own
  BY <1>1, <1>2, <1>3, LegBooks
<1>5. FillsTold' /\ FillsOnce' /\ UnknownOwn'
  BY <1>1, <1>4, FillsStay, UnknownStays, SoundIs DEF Hold
<1> QED BY <1>3, <1>4, <1>5 DEF Sound, Books

LEMMA DuplicateResolvedSound ==
  ASSUME Inductive, Types, Types', Sound, DuplicateResolved, ~reused' PROVE Sound'
<1>1. Submitting /\ UNCHANGED <<position, open, owners, calls, chunks, orders, venue>>
      /\ ~Foreign(step, request.cid) /\ Taken(step, request.cid)
  BY DEF DuplicateResolved, bookVars
<1>2. Moves(step) /\ Sends(step) /\ Own
  BY <1>1, StillMoves
<1>3. PICK o \in orders : o.leg = step /\ o.cid = request.cid
  BY <1>1 DEF Taken
<1>4. Executed(step, request.cid) = o.quantity /\ o.quantity \in Nat
      /\ o.call = calls /\ o.chunk = chunk
  BY <1>1, <1>3, ExecutedIs DEF Foreign, Types, OrderTypes
<1>5. \A g \in fills : g.quantity > 0 => Name(g) # Name(o)
  <2> SUFFICES ASSUME NEW g \in fills, g.quantity > 0, Name(g) = Name(o) PROVE FALSE
    OBVIOUS
  <2>1. PICK p \in orders : Name(p) = Name(g) /\ g.chunk \in {0, p.chunk}
    BY DEF Sound, FillsTold
  <2>2. p = o
    BY <2>1 DEF Inductive, OncePerId
  <2>3. g.leg = step /\ g.chunk \in {0, chunk}
    BY <1>3, <1>4, <2>1, <2>2 DEF Name
  <2> QED BY <1>1, <2>3 DEF Sound, AtLeg, Submitting
<1>6. PICK readOrder \in BOOLEAN, read \in BOOLEAN :
          LET q == IF readOrder THEN Executed(step, request.cid) ELSE 0
          IN  \/ /\ NextLeg /\ UNCHANGED <<fills, unknown>>
              \/ AddFill(step, request.cid, q, chunk) /\ NextLeg /\ UNCHANGED unknown
              \/ /\ request' = [cid |-> Cid("again", attempt + 1),
                                quantity |-> RetryQuantity(q, request.quantity, read, venue[step])]
                 /\ UNCHANGED <<step, at, chunk, fills, unknown>>
              \/ /\ unknown' = unknown \cup {[leg |-> step, cid |-> ExitCid(chunk)]}
                 /\ Compensate /\ UNCHANGED fills
  BY DEF DuplicateResolved
<1> DEFINE q == IF readOrder THEN Executed(step, request.cid) ELSE 0
<1>7. q \in {0, o.quantity} /\ q \in Nat
  BY <1>4
<1> HIDE DEF q
<1>8. CASE UNCHANGED <<fills, unknown>> /\ NextLeg
  <2>1. AtLeg' /\ AtFlatten' /\ ~Idle'
    BY <1>1, <1>2, <1>8, LegGoesOn DEF Sound
  <2>2. Books'
    BY <1>1, <1>2, <2>1, LegBooks
  <2>3. FillsTold' /\ FillsOnce' /\ UnknownOwn'
    BY <1>1, <1>2, <1>8, FillsStay, UnknownStays, SoundIs DEF Hold
  <2> QED BY <2>1, <2>2, <2>3 DEF Sound, Books
<1>9. CASE AddFill(step, request.cid, q, chunk) /\ NextLeg /\ UNCHANGED unknown
  <2> DEFINE f == [leg |-> step, cid |-> request.cid, quantity |-> q, chunk |-> chunk]
  <2>1. fills' = fills \cup {f}
    BY <1>9 DEF AddFill
  <2>2. f.leg = step /\ f.chunk = chunk /\ f.quantity = q /\ Name(f) = Name(o)
    BY <1>3 DEF Name
  <2> HIDE DEF f
  <2>3. AtLeg' /\ AtFlatten' /\ ~Idle'
    <3>1. \A g \in fills' : g \in fills \/ (g.chunk = chunk /\ g.leg = step)
      BY <2>1, <2>2
    <3> QED BY <1>1, <1>2, <1>9, <3>1, LegGoesOn DEF Sound
  <2>4. Books'
    BY <1>1, <1>2, <2>3, LegBooks
  <2>5. FillsTold' /\ FillsOnce'
    <3>1. f.quantity > 0 =>
            /\ \E p \in orders' : /\ Name(p) = Name(f) /\ p.quantity = f.quantity
                                  /\ p.call = calls /\ f.chunk \in {0, p.chunk}
            /\ \A g \in fills : g.quantity > 0 => Name(g) # Name(f)
      BY <1>1, <1>3, <1>4, <1>5, <1>7, <2>2
    <3> QED BY <1>1, <1>2, <1>7, <2>1, <2>2, <3>1, FillsGrow, SoundIs
  <2>6. UnknownOwn'
    BY <1>1, <1>2, <1>9, UnknownStays DEF Sound
  <2> QED BY <2>3, <2>4, <2>5, <2>6 DEF Sound, Books
<1>10. CASE /\ request' = [cid |-> Cid("again", attempt + 1),
                           quantity |-> RetryQuantity(q, request.quantity, read, venue[step])]
            /\ UNCHANGED <<step, at, chunk, fills, unknown>>
  <2>1. request'.cid.stage = "again" /\ step \in Legs /\ ExitCid(chunk)' = ExitCid(chunk)
    BY <1>1, <1>10 DEF Cid, Submitting, ExitCid
  <2>2. \A p \in orders : Name(p) = [leg |-> step, cid |-> ExitCid(chunk)] => p.call = calls
    <3>1. Mine([leg |-> step, cid |-> ExitCid(chunk)])
      BY <1>1, <1>2, ExitIsMine
    <3> QED BY <1>1, <3>1 DEF Mine
  <2>3. AtLeg' /\ AtFlatten' /\ ~Idle'
    BY <1>1, <1>10, <2>1, <2>2 DEF Sound, AtLeg, AtFlatten, Idle, Legs, Name
  <2>4. Books'
    BY <1>1, <1>2, <2>3, LegBooks
  <2>5. FillsTold' /\ FillsOnce' /\ UnknownOwn'
    BY <1>1, <1>2, <1>10, FillsStay, UnknownStays, SoundIs DEF Hold
  <2> QED BY <2>3, <2>4, <2>5 DEF Sound, Books
<1>11. CASE unknown' = unknown \cup {[leg |-> step, cid |-> ExitCid(chunk)]}
            /\ Compensate /\ UNCHANGED fills
  <2>1. AtLeg' /\ AtFlatten' /\ ~Idle'
    BY <1>1, <1>2, <1>11, LegGoesOn DEF Sound
  <2>2. Books'
    BY <1>1, <1>2, <2>1, LegBooks
  <2>3. FillsTold' /\ FillsOnce'
    BY <1>1, <1>2, <1>11, FillsStay, SoundIs
  <2>4. UnknownOwn'
    <3>1. \A u \in unknown' : u \in unknown \/ Mine(u)
      BY <1>1, <1>2, <1>11, ExitIsMine
    <3> QED BY <1>1, <1>2, <3>1, UnknownStays DEF Sound
  <2> QED BY <2>1, <2>2, <2>3, <2>4 DEF Sound, Books
<1> QED BY <1>6, <1>8, <1>9, <1>10, <1>11 DEF q

-----------------------------------------------------------------------------
(* An owner is registered.                                                 *)

\* A finite set stays finite under a function.
LEMMA ImageFinite ==
  ASSUME NEW S, IsFiniteSet(S), NEW f, NEW T, T = {f[x] : x \in S}
  PROVE  IsFiniteSet(T)
<1> DEFINE g == [x \in S |-> f[x]]
<1>1. g \in Surjection(S, T)
  BY DEF Surjection
<1> HIDE DEF g
<1> QED BY <1>1, FS_Surjection

\* What Partials says of one owner.
Covered(e) ==
  /\ IsFiniteSet(e.legs) /\ e.call \in Nat /\ e.call <= calls
  /\ \A o \in e.legs : o = [leg |-> o.leg, cid |-> o.cid, quantity |-> o.quantity]
  /\ \A o \in orders : Name(o) \in Named(e) => o.call >= e.call
  /\ \A l \in Legs : e.snapshot[l] >= venue[l] + Since(e.call, l)

LEMMA OwnerLegs ==
  ASSUME Types
  PROVE  /\ IsFiniteSet(Owner.legs)
         /\ \A o \in Owner.legs : o = [leg |-> o.leg, cid |-> o.cid, quantity |-> o.quantity]
<1> DEFINE F == {g \in fills : g.quantity > 0}
           known == [f \in F |-> [leg |-> f.leg, cid |-> f.cid, quantity |-> f.quantity]]
           holder == [u \in Unconfirmed |-> [leg |-> u.leg, cid |-> u.cid, quantity |-> 0]]
           holders == {[leg |-> u.leg, cid |-> u.cid, quantity |-> 0] : u \in Unconfirmed}
<1>1. KnownOrders = {known[f] : f \in F} /\ holders = {holder[u] : u \in Unconfirmed}
  BY DEF KnownOrders
<1>2. IsFiniteSet(F) /\ IsFiniteSet(Unconfirmed)
  BY FS_Subset DEF Types, HandTypes, Unconfirmed
<1>3. \A o \in KnownOrders \cup holders : o = [leg |-> o.leg, cid |-> o.cid, quantity |-> o.quantity]
  BY DEF KnownOrders
<1>4. Owner.legs = KnownOrders \cup holders
  BY DEF Owner
<1> HIDE DEF F, known, holder, holders
<1>5. IsFiniteSet(KnownOrders) /\ IsFiniteSet(holders)
  BY <1>1, <1>2, ImageFinite
<1>6. IsFiniteSet(KnownOrders \cup holders)
  BY <1>5, FS_Union
<1> QED BY <1>3, <1>4, <1>6

\* What the owner names is of this call.
LEMMA OwnerNamesOwn ==
  ASSUME Inductive, Sound, NEW o \in orders, Name(o) \in Named(Owner)
  PROVE  o.call = calls
<1> DEFINE holders == {[leg |-> u.leg, cid |-> u.cid, quantity |-> 0] : u \in Unconfirmed}
<1>1. Owner.legs = KnownOrders \cup holders
  BY DEF Owner
<1>2. PICK p \in KnownOrders \cup holders : Name(o) = Name(p)
  BY <1>1 DEF Named
<1>3. CASE p \in KnownOrders
  <2>1. PICK f \in fills : f.quantity > 0 /\ Name(f) = Name(p)
    BY <1>3 DEF KnownOrders, Name
  <2>2. PICK q \in orders : Name(q) = Name(f) /\ q.call = calls
    BY <2>1 DEF Sound, FillsTold
  <2> QED BY <1>2, <2>1, <2>2 DEF Inductive, OncePerId
<1>4. CASE p \in holders
  <2>1. PICK u \in unknown : Name(p) = Name(u)
    BY <1>4 DEF Unconfirmed, Name
  <2> QED BY <1>2, <2>1 DEF Sound, UnknownOwn, Inductive, Hands, Identities
<1> QED BY <1>2, <1>3, <1>4

LEMMA OwnerCovered ==
  ASSUME Inductive, Types, Sound, ~Idle PROVE Covered(Owner)
<1>1. Owner.call = calls /\ \A l \in Legs : Owner.snapshot[l] = position[l]
  BY DEF Owner
<1>2. \A l \in Legs : position[l] >= venue[l] + Since(calls, l)
  BY DEF Sound, Recorded, Gone
<1>3. \A o \in orders : Name(o) \in Named(Owner) => o.call = calls
  BY OwnerNamesOwn
<1> DEFINE own == Owner
<1>4. /\ own.call = calls /\ \A l \in Legs : own.snapshot[l] = position[l]
      /\ \A o \in orders : Name(o) \in Named(own) => o.call = calls
      /\ IsFiniteSet(own.legs)
      /\ \A o \in own.legs : o = [leg |-> o.leg, cid |-> o.cid, quantity |-> o.quantity]
  BY <1>1, <1>3, OwnerLegs
<1> HIDE DEF own
<1>5. Covered(own)
  BY <1>2, <1>4 DEF Covered, Types, CountTypes
<1> QED BY <1>5 DEF own

\* The owners of a step that executes nothing, each of them one there was or this call's.
LEMMA Registered ==
  ASSUME Inductive, Types, Sound, ~Idle, UNCHANGED <<orders, venue, calls>>,
         owners' = Enqueue(Owner)
  PROVE  Partials'
<1> DEFINE own == Owner
<1>1. Covered(own)
  BY OwnerCovered
<1>2. owners' = Enqueue(own)
  OBVIOUS
<1> HIDE DEF own
<1>3. \A e \in owners' : e \in owners \/ e = own
  BY <1>2 DEF Enqueue
<1>4. \A e \in owners : e.kind = "partial" => Covered(e)
  BY DEF Sound, Partials, Covered
<1>5. \A e : Covered(e) => Covered(e)'
  BY SinceSame DEF Covered, Named, Name
<1>6. \A e \in owners' : e.kind = "partial" => Covered(e)'
  BY <1>1, <1>3, <1>4, <1>5
<1> QED BY <1>6 DEF Partials, Covered

LEMMA CompensationFailsSound ==
  ASSUME Inductive, Types, Sound, ~Idle, CompensationFails, UNCHANGED <<orders, venue, calls>>
  PROVE  Sound'
<1>1. owners' = Enqueue(Owner) /\ UNCHANGED <<position, open>>
      /\ fills' = {} /\ unknown' = {} /\ step' = "idle"
  BY DEF CompensationFails, Leave
<1>2. Recorded' /\ Gone'
  BY <1>1, RecordLeft DEF Sound, Idle
<1>3. Partials'
  BY <1>1, Registered
<1> QED BY <1>1, <1>2, <1>3, Released DEF Sound

LEMMA GiveUpSound == ASSUME Inductive, Types, Sound, GiveUp PROVE Sound'
BY CompensationFailsSound DEF GiveUp, Idle

-----------------------------------------------------------------------------
(* The steps of compensation keep the account.                             *)

\* The next venue has not been flattened yet.
LEMMA NextVenueIs ==
  ASSUME AtFlatten, step \in {"probe", "flatten"}, NextVenue, Sends(at), calls' = calls
  PROVE  AtLeg' /\ AtFlatten' /\ ~Idle'
<1>1. CASE at = "short" /\ at' = "long" /\ step' = "probe"
  <2>1. \A o \in orders : o.call = calls /\ o.cid.stage = "flatten" => o.leg # "long"
    BY <1>1 DEF AtFlatten
  <2>2. \A o \in orders' : o.call = calls /\ o.cid.stage = "flatten" => o.leg # "long"
    BY <1>1, <2>1 DEF Sends
  <2> QED BY <1>1, <2>2 DEF AtLeg, AtFlatten, Idle, Legs
<1>2. CASE step' = "write"
  BY <1>2 DEF AtLeg, AtFlatten, Idle, Legs
<1> QED BY <1>1, <1>2 DEF NextVenue

LEMMA ProbeSound == ASSUME Inductive, Types, Types', Sound, Probe PROVE Sound'
<1>1. step = "probe" /\ ~Idle /\ UNCHANGED <<orders, venue, calls>> /\ at \in Legs
      /\ Moves(at) /\ Sends(at) /\ Own
  BY StillMoves DEF Probe, Idle, Types, CountTypes
<1>2. CASE CompensationFails
  BY <1>1, <1>2, CompensationFailsSound
<1>3. ASSUME AtLeg', AtFlatten', ~Idle', UNCHANGED <<position, open, owners, fills, unknown>>
      PROVE  Sound'
  <2>1. Books'
    BY <1>1, <1>3, BooksInCall, SoundIs
  <2>2. FillsTold' /\ FillsOnce' /\ UnknownOwn'
    BY <1>1, <1>3, FillsStay, UnknownStays, SoundIs DEF Hold
  <2> QED BY <1>3, <2>1, <2>2 DEF Sound, Books
<1>4. CASE NextVenue /\ UNCHANGED <<bookVars, failClosed, dropped, chunks, total, fills, unknown, blind>>
  <2>1. AtLeg' /\ AtFlatten' /\ ~Idle'
    BY <1>1, <1>4, NextVenueIs DEF Sound
  <2> QED BY <1>3, <1>4, <2>1 DEF bookVars
<1>5. CASE /\ step' = "flatten" /\ attempt' = 1
           /\ request' = [cid |-> Cid("flatten", 1), quantity |-> venue[at]]
           /\ UNCHANGED <<bookVars, failClosed, dropped, at, callVars, fills, unknown, blind>>
  <2>1. \A o \in orders : o.call = calls /\ o.cid.stage = "flatten" =>
              (o.leg = "long" => at = "long") /\ o.leg # at
    BY <1>1 DEF Sound, AtFlatten
  <2>2. AtFlatten'
    BY <1>1, <1>5, <2>1 DEF AtFlatten
  <2>3. AtLeg' /\ ~Idle'
    BY <1>5 DEF AtLeg, Idle, Legs
  <2> QED BY <1>3, <1>5, <2>2, <2>3 DEF bookVars
<1> QED BY <1>2, <1>4, <1>5 DEF Probe

\* An attempt is over: the next one has an id of its own.
LEMMA AttemptIs ==
  ASSUME Types, AtFlatten, Flattening, Sends(at), calls' = calls,
         NotFlat \/ \E flat : AfterAttempt(flat)
  PROVE  AtLeg' /\ AtFlatten' /\ ~Idle'
<1>1. /\ request.cid = Cid("flatten", attempt) /\ attempt \in Nat
      /\ \A o \in orders : o.call = calls /\ o.cid.stage = "flatten" =>
            /\ o.leg = "long" => at = "long"
            /\ o.leg = at => o.cid.n \in Nat /\ o.cid.n < attempt
  BY DEF AtFlatten, Flattening, Types, CountTypes
<1>2. \A o \in orders' : o.call = calls /\ o.cid.stage = "flatten" =>
            /\ o.leg = "long" => at = "long"
            /\ o.leg = at => o.cid.n \in Nat /\ o.cid.n < attempt + 1
  <2> TAKE o \in orders'
  <2>1. CASE o \in orders
    BY <1>1, <2>1
  <2>2. CASE o.leg = at /\ o.cid = Cid("flatten", attempt)
    BY <1>1, <2>2 DEF Cid
  <2> QED BY <1>1, <2>1, <2>2 DEF Sends
<1>3. CASE NextVenue
  BY <1>3, NextVenueIs DEF Flattening
<1>4. CASE NotFlat
  <2>1. CASE attempt' = attempt + 1 /\ request'.cid = Cid("flatten", attempt + 1) /\ step' = step
    BY <1>2, <1>4, <2>1 DEF NotFlat, AtLeg, AtFlatten, Idle, Legs, Flattening
  <2>2. CASE step' = "failed"
    BY <2>2 DEF AtLeg, AtFlatten, Idle, Legs
  <2> QED BY <1>4, <2>1, <2>2 DEF NotFlat
<1> QED BY <1>3, <1>4 DEF AfterAttempt

\* What an attempt that the venue has just taken leaves in the hands.
LEMMA RetainHold ==
  ASSUME Hold, Own, calls' = calls, NEW x \in Nat, Retain(x), ~Taken(at, request.cid),
         x > 0 => \E o \in orders' : /\ Name(o) = [leg |-> at, cid |-> request.cid]
                                     /\ o.quantity = x /\ o.call = calls
  PROVE  Hold'
<1> DEFINE n == [leg |-> at, cid |-> request.cid]
           f == [leg |-> at, cid |-> request.cid, quantity |-> x, chunk |-> 0]
<1>1. f.quantity = x /\ f.chunk = 0 /\ Name(f) = n
  BY DEF Name
<1>2. /\ fills' = (IF x = 0 THEN fills ELSE fills \cup {f})
      /\ unknown' = (IF x = 0 THEN unknown \cup {n} ELSE unknown)
  BY DEF Retain
<1>3. Mine(n) /\ \A g \in fills : g.quantity > 0 => Name(g) # n
  BY NewIsMine, NewIsUntold
<1>4. x > 0 => \E o \in orders' : Name(o) = n /\ o.quantity = x /\ o.call = calls
  OBVIOUS
<1> HIDE DEF n, f
<1>5. UnknownOwn'
  <2>1. \A u \in unknown' : u \in unknown \/ Mine(u)
    BY <1>2, <1>3
  <2> QED BY <2>1, UnknownStays DEF Hold
<1>6. FillsTold' /\ FillsOnce'
  <2>1. CASE x = 0
    BY <1>2, <2>1, FillsStay
  <2>2. CASE x # 0
    <3>1. f.quantity \in Nat /\ fills' = fills \cup {f}
      BY <1>1, <1>2, <2>2
    <3>2. f.quantity > 0 =>
            /\ \E o \in orders' : /\ Name(o) = Name(f) /\ o.quantity = f.quantity
                                  /\ o.call = calls /\ f.chunk \in {0, o.chunk}
            /\ \A g \in fills : g.quantity > 0 => Name(g) # Name(f)
      BY <1>1, <1>3, <1>4
    <3> QED BY <3>1, <3>2, FillsGrow
  <2> QED BY <2>1, <2>2
<1> QED BY <1>5, <1>6 DEF Hold

LEMMA FlattenAnsweredSound ==
  ASSUME Types, Types', Sound, FlattenAnswered PROVE Sound'
<1>1. PICK x \in IocResult(at) : Execute(at, x) /\ Retain(x)
                                 /\ AfterAttempt(x >= request.quantity \/ venue'[at] = 0)
  BY DEF FlattenAnswered
<1>2. Flattening /\ ~Idle /\ at \in Legs /\ UNCHANGED <<position, open, owners, calls>>
  BY <1>1, BookStays DEF FlattenAnswered, Flattening, Idle, bookVars, Types, CountTypes
<1>3. x \in 0..venue[at] /\ x \in Nat
  BY <1>2, IocIs
<1>4. Moves(at) /\ Sends(at) /\ Own
  BY <1>1, <1>2, <1>3, MovesSend, MovesOwn DEF Moves
<1>5. AtLeg' /\ AtFlatten' /\ ~Idle'
  BY <1>1, <1>2, <1>4, AttemptIs DEF Sound
<1>6. Books'
  BY <1>2, <1>4, <1>5, BooksInCall, SoundIs
<1>7. Hold'
  <2> DEFINE o == [leg |-> at, cid |-> request.cid, quantity |-> x, call |-> calls, chunk |-> chunk]
  <2>1. o \in orders' /\ ~Taken(at, request.cid)
    BY <1>1 DEF Execute
  <2>2. Name(o) = [leg |-> at, cid |-> request.cid] /\ o.quantity = x /\ o.call = calls
    BY DEF Name
  <2> HIDE DEF o
  <2> QED BY <1>1, <1>2, <1>3, <1>4, <2>1, <2>2, RetainHold, SoundIs
<1> QED BY <1>5, <1>6, <1>7 DEF Sound, Books, Hold

LEMMA FlattenLostSound ==
  ASSUME Types, Types', Sound, FlattenLost PROVE Sound'
<1> DEFINE flat == venue'[at] = 0
<1>1. AfterAttempt(flat) /\ Retain(0) /\ ~Taken(at, request.cid)
  BY DEF FlattenLost
<1> HIDE DEF flat
<1>2. Flattening /\ ~Idle /\ at \in Legs /\ UNCHANGED <<position, open, owners, calls>>
  BY <1>1, BookStays DEF FlattenLost, Flattening, Idle, bookVars, Types, CountTypes
<1>3. Moves(at) /\ Sends(at) /\ Own
  BY <1>2, FlattenMoves, MovesSend, MovesOwn
<1>4. AtLeg' /\ AtFlatten' /\ ~Idle'
  BY <1>1, <1>2, <1>3, AttemptIs DEF Sound
<1>5. Books'
  BY <1>2, <1>3, <1>4, BooksInCall, SoundIs
<1>6. Hold'
  BY <1>1, <1>2, <1>3, RetainHold, SoundIs
<1> QED BY <1>4, <1>5, <1>6 DEF Sound, Books, Hold

LEMMA FlattenRefusedSound ==
  ASSUME Types, Types', Sound, FlattenRefused PROVE Sound'
<1>1. Flattening /\ ~Idle /\ NotFlat /\ UNCHANGED <<orders, venue, fills, unknown, calls>>
      /\ at \in Legs
  BY DEF FlattenRefused, ExecuteNothing, Flattening, Idle, Types, CountTypes
<1>2. UNCHANGED <<position, open, owners>>
  BY <1>1, BookStays DEF bookVars
<1>3. Moves(at) /\ Sends(at) /\ Own
  BY <1>1, StillMoves
<1>4. AtLeg' /\ AtFlatten' /\ ~Idle'
  BY <1>1, <1>3, AttemptIs DEF Sound
<1>5. Books'
  BY <1>1, <1>2, <1>3, <1>4, BooksInCall, SoundIs
<1>6. FillsTold' /\ FillsOnce' /\ UnknownOwn'
  BY <1>1, <1>3, FillsStay, UnknownStays, SoundIs DEF Hold
<1> QED BY <1>4, <1>5, <1>6 DEF Sound, Books

\* A compensation order is a duplicate only of another close's.
LEMMA FlattenDuplicateReuses ==
  ASSUME Sound, FlattenDuplicate PROVE reused'
<1>1. PICK o \in orders : o.leg = at /\ o.cid = request.cid
  BY DEF FlattenDuplicate, Taken
<1>2. request.cid = Cid("flatten", attempt)
      /\ (o.call = calls /\ o.cid.stage = "flatten" => o.cid.n \in Nat /\ o.cid.n < attempt)
  BY <1>1 DEF FlattenDuplicate, Flattening, Sound, AtFlatten
<1>3. o.cid.stage = "flatten" /\ o.cid.n = attempt
  BY <1>1, <1>2 DEF Cid
<1>4. o.call # calls
  BY <1>2, <1>3
<1>5. Foreign(at, request.cid)
  BY <1>1, <1>4 DEF Foreign
<1> QED BY <1>5 DEF FlattenDuplicate

-----------------------------------------------------------------------------
(* The end of a call keeps the account.                                    *)

LEMMA NothingClosedSound == ASSUME Types, Sound, NothingClosed PROVE Sound'
<1>1. /\ fills' = {} /\ unknown' = {} /\ step' = "idle"
      /\ UNCHANGED <<orders, venue, calls, position, open, owners>>
  BY DEF NothingClosed, Leave, bookVars
<1>2. Books'
  BY <1>1, BooksLeft, SoundIs DEF Idle
<1> QED BY <1>1, <1>2, Released DEF Sound, Books

\* The fills of a call count no more than its orders executed.
LEMMA ClosedWithin ==
  ASSUME Types, Sound, NEW l PROVE Closed(l) <= Since(calls, l)
<1> DEFINE S == fills
           T == {o \in orders : o.call >= calls}
<1>1. IsFiniteSet(S) /\ (\A x \in S : x.quantity \in Nat)
  BY DEF Types, HandTypes
<1>2. IsFiniteSet(T) /\ (\A x \in T : x.quantity \in Nat)
  BY FS_Subset DEF Types, OrderTypes
<1>3. \A x \in S : x.quantity > 0 => \E y \in T : Name(y) = Name(x) /\ y.quantity = x.quantity
  BY DEF Sound, FillsTold, Types, CountTypes
<1>4. \A w, x \in S : w.quantity > 0 /\ x.quantity > 0 /\ Name(w) = Name(x) => w = x
  BY DEF Sound, FillsOnce
<1>5. Closed(l) = QuantityOf(S, l) /\ Since(calls, l) = QuantityOf(T, l)
  BY DEF Closed, Since
<1> HIDE DEF S, T
<1>6. QuantityOf(S, l) <= QuantityOf(T, l)
  BY <1>1, <1>2, <1>3, <1>4, QuantityWithin
<1> QED BY <1>5, <1>6

LEMMA WriteBackSound == ASSUME Inductive, Types, Types', Sound, WriteBack PROVE Sound'
<1>1. /\ position' = [matched |-> Less(position.matched, MatchedClosed),
                      short |-> Less(position.short, Closed("short")),
                      long |-> Less(position.long, Closed("long"))]
      /\ open' = (position'.matched > 0)
      /\ UNCHANGED <<orders, venue, calls>> /\ ~Idle
      /\ fills' = {} /\ unknown' = {} /\ step' = "idle"
      /\ owners' = owners \/ owners' = Enqueue(Owner)
  BY DEF WriteBack, Leave, Idle
<1>2. ASSUME NEW l \in Legs
      PROVE  position'.matched >= position'[l] /\ position'[l] >= venue[l] /\ venue[l] \in Nat
  <2>1. /\ position[l] \in Nat /\ position.matched \in Nat /\ venue[l] \in Nat
        /\ Closed(l) \in Nat /\ Closed("short") \in Nat /\ Closed("long") \in Nat
        /\ Since(calls, l) \in Nat
    BY ClosedType, SinceType DEF Types, BookTypes, Legs
  <2>2. position.matched >= position[l] /\ position[l] >= venue[l] + Since(calls, l)
    BY <1>1 DEF Sound, Recorded, Gone
  <2>3. Closed(l) <= Since(calls, l)
    BY ClosedWithin
  <2>4. position'[l] = Less(position[l], Closed(l))
        /\ position'.matched = Less(position.matched, MatchedClosed)
    BY <1>1 DEF Legs
  <2>5. MatchedClosed \in Nat /\ MatchedClosed <= Closed(l)
    BY <2>1 DEF MatchedClosed, Lesser, Legs
  <2>6. position'[l] = position[l] - Closed(l)
    BY <2>1, <2>2, <2>3, <2>4 DEF Less
  <2>7. MatchedClosed <= position.matched
    <3> SUFFICES ASSUME NEW a \in Nat, NEW b \in Nat, NEW c \in Nat, NEW d \in Nat, NEW e \in Nat,
                        NEW m \in Nat, a >= b, b >= c + d, e <= d, m <= e
        PROVE  m <= a
      BY <2>1, <2>2, <2>3, <2>5
    <3> QED OBVIOUS
  <2>8. position'.matched = position.matched - MatchedClosed
    BY <2>1, <2>4, <2>5, <2>7, LessIsMinus
  <2> QED BY <2>1, <2>2, <2>3, <2>5, <2>6, <2>8
<1>3. Recorded'
  <2>1. \A l \in Legs : position'.matched >= position'[l] /\ position'[l] >= venue[l] + 0
    BY <1>2 DEF Types, BookTypes, Legs
  <2> QED BY <1>1, <2>1 DEF Recorded, Idle
<1>4. Gone'
  <2>1. position'.matched \in Nat /\ position'.short \in Nat /\ position'.long \in Nat
    BY DEF Types, BookTypes
  <2>2. ASSUME ~open', NEW l \in Legs PROVE venue'[l] = 0
    <3>1. position'[l] \in Nat
      BY <2>1 DEF Legs
    <3>2. position'.matched >= position'[l] /\ position'[l] >= venue[l] /\ venue[l] \in Nat
      BY <1>2
    <3>3. ~(position'.matched > 0) /\ venue' = venue
      BY <1>1, <2>2
    <3> QED BY <2>1, <3>1, <3>2, <3>3
  <2> QED BY <1>1, <2>2 DEF Gone, Idle
<1>5. Partials'
  <2>1. CASE owners' = owners
    BY <1>1, <2>1, SinceSame DEF Sound, Partials, Named, Name
  <2>2. CASE owners' = Enqueue(Owner)
    BY <1>1, <2>2, Registered
  <2> QED BY <1>1, <2>1, <2>2
<1> QED BY <1>1, <1>3, <1>4, <1>5, Released DEF Sound

-----------------------------------------------------------------------------
(* Between two calls the account is kept.                                  *)

\* The owners shrink or the final one learns, and the position leaves the
\* record only when the venues are flat.
LEMMA BetweenSound ==
  ASSUME Types, Sound, Idle,
         UNCHANGED <<orders, venue, calls, position, step, fills, unknown>>,
         open' = open \/ (open' = FALSE /\ \A l \in Legs : venue[l] = 0),
         \A e \in owners' : e.kind = "partial" => e \in owners
  PROVE  Sound'
<1>1. step = "idle" /\ step' = "idle"
  BY DEF Idle
<1>2. Recorded' /\ Gone'
  BY <1>1 DEF Sound, Recorded, Gone, Idle
<1>3. Partials'
  BY SinceSame DEF Sound, Partials, Named, Name
<1>4. FillsTold' /\ FillsOnce' /\ UnknownOwn'
  BY DEF Sound, FillsTold, FillsOnce, UnknownOwn, Name
<1>5. AtLeg' /\ AtFlatten'
  BY <1>1 DEF AtLeg, AtFlatten, Legs
<1> QED BY <1>2, <1>3, <1>4, <1>5 DEF Sound

LEMMA ResolvePendingCloseSound ==
  ASSUME Types, Sound, ResolvePendingClose PROVE Sound'
<1>1. PICK p \in pendings : /\ ~open \/ \A l \in Legs : venue[l] = 0
                            /\ owners' = MergeAll(p) /\ open' = FALSE
  BY DEF ResolvePendingClose
<1>2. \A e : Merged(e, p).kind = e.kind
  BY DEF Merged
<1>3. \A e \in owners' : e.kind = "partial" => e \in owners
  BY <1>1, <1>2 DEF MergeAll
<1>4. \A l \in Legs : venue[l] = 0
  BY <1>1 DEF Sound, Gone
<1> QED BY <1>1, <1>3, <1>4, BetweenSound DEF ResolvePendingClose, outside, callLocals

LEMMA TerminalizeSound == ASSUME Types, Sound, Terminalize PROVE Sound'
BY BetweenSound DEF Terminalize, outside, callLocals

\* What an owner's lookups find executed no more than its call and later ones did.
LEMMA FoundWithin ==
  ASSUME Inductive, Types, NEW e, Covered(e), NEW unread, NEW l
  PROVE  QuantityOf(Found(e, unread), l) \in Nat /\ QuantityOf(Found(e, unread), l) <= Since(e.call, l)
<1> DEFINE P == {p \in e.legs : Name(p) \notin unread}
           found == [o \in P |-> [o EXCEPT !.quantity = Executed(o.leg, o.cid)]]
           S == Found(e, unread)
           T == {o \in orders : o.call >= e.call}
<1>1. S = {found[o] : o \in P}
  BY DEF Found
<1>2. IsFiniteSet(P)
  BY FS_Subset DEF Covered
<1>3. IsFiniteSet(S)
  <2> HIDE DEF P, found, S
  <2> QED BY <1>1, <1>2, ImageFinite
<1>4. ASSUME NEW x \in S
      PROVE  /\ x = [leg |-> x.leg, cid |-> x.cid, quantity |-> Executed(x.leg, x.cid)]
             /\ \E o \in e.legs : Name(o) = Name(x)
  <2>1. PICK o \in P : x = found[o]
    BY <1>1
  <2>2. o \in e.legs /\ o = [leg |-> o.leg, cid |-> o.cid, quantity |-> o.quantity]
    BY DEF Covered
  <2>3. x = [leg |-> o.leg, cid |-> o.cid, quantity |-> Executed(o.leg, o.cid)]
    BY <2>1, <2>2
  <2> QED BY <2>2, <2>3 DEF Name
<1>5. IsFiniteSet(T) /\ (\A x \in T : x.quantity \in Nat)
  BY FS_Subset DEF Types, OrderTypes
<1>6. \A x \in S : x.quantity \in Nat
  <2> TAKE x \in S
  <2>1. x.quantity = Executed(x.leg, x.cid)
    BY <1>4
  <2> QED BY <2>1, ExecutedType
<1>7. ASSUME NEW x \in S, x.quantity > 0
      PROVE  \E y \in T : Name(y) = Name(x) /\ y.quantity = x.quantity
  <2>1. x.quantity = Executed(x.leg, x.cid)
    BY <1>4
  <2>2. PICK y \in orders : y.leg = x.leg /\ y.cid = x.cid
    <3> SUFFICES ASSUME \A y \in orders : ~(y.leg = x.leg /\ y.cid = x.cid) PROVE FALSE
      OBVIOUS
    <3> DEFINE O == {o \in orders : o.cid = x.cid}
    <3>1. \A o \in O : o.leg # x.leg
      OBVIOUS
    <3>2. Executed(x.leg, x.cid) = QuantityOf(O, x.leg)
      BY DEF Executed
    <3> HIDE DEF O
    <3>3. QuantityOf(O, x.leg) = 0
      BY <3>1, QuantityOfNone
    <3> QED BY <1>7, <2>1, <3>2, <3>3
  <2>3. y.quantity = x.quantity
    <3>1. Executed(y.leg, y.cid) = y.quantity
      BY ExecutedIs
    <3> QED BY <2>1, <2>2, <3>1
  <2>4. Name(y) = Name(x)
    BY <2>2 DEF Name
  <2>5. y.call >= e.call
    BY <1>4, <2>4 DEF Covered, Named
  <2> QED BY <2>3, <2>4, <2>5
<1>8. ASSUME NEW w \in S, NEW x \in S, Name(w) = Name(x) PROVE w = x
  <2>1. w.leg = x.leg /\ w.cid = x.cid
    BY <1>8 DEF Name
  <2> QED BY <1>4, <2>1
<1>9. QuantityOf(S, l) <= QuantityOf(T, l) /\ QuantityOf(S, l) \in Nat
  <2> HIDE DEF S, T
  <2>1. QuantityOf(S, l) <= QuantityOf(T, l)
    BY <1>3, <1>5, <1>6, <1>7, <1>8, QuantityWithin
  <2> QED BY <1>3, <1>6, <2>1, QuantityType
<1>10. Since(e.call, l) = QuantityOf(T, l)
  BY DEF Since
<1> QED BY <1>9, <1>10

\* The venues are flat when a promoted bill removes the position.
LEMMA PromotedFlat ==
  ASSUME Inductive, Types, Sound, NEW e \in owners, NEW unread, Promoted(e, Found(e, unread)),
         NEW l \in Legs
  PROVE  venue[l] = 0
<1>1. Covered(e)
  BY DEF Promoted, Sound, Partials, Covered
<1> DEFINE q == QuantityOf(Found(e, unread), l)
<1>2. q \in Nat /\ q <= Since(e.call, l)
  BY <1>1, FoundWithin
<1>3. e.snapshot[l] = q
  BY DEF Promoted
<1>4. e.snapshot[l] >= venue[l] + Since(e.call, l)
  BY <1>1 DEF Covered
<1>5. venue[l] \in Nat /\ Since(e.call, l) \in Nat
  BY SinceType DEF Types, BookTypes
<1> HIDE DEF q
<1> QED BY <1>2, <1>3, <1>4, <1>5

LEMMA SettleSound == ASSUME Inductive, Types, Sound, Settle PROVE Sound'
<1>0. PICK e \in owners : \E unread :
         /\ owners' = owners \ {e}
         /\ (Promoted(e, Found(e, unread)) /\ open' = FALSE) \/ open' = open
  BY DEF Settle
<1>1. PICK unread : /\ owners' = owners \ {e}
                    /\ (Promoted(e, Found(e, unread)) /\ open' = FALSE) \/ open' = open
  BY <1>0
<1>2. Promoted(e, Found(e, unread)) => \A l \in Legs : venue[l] = 0
  BY PromotedFlat
<1>3. open' = open \/ (open' = FALSE /\ \A l \in Legs : venue[l] = 0)
  BY <1>1, <1>2
<1> QED BY <1>1, <1>3, BetweenSound DEF Settle, callLocals

LEMMA StutterSound == ASSUME Types, Sound, UNCHANGED vars PROVE Sound'
<1>1. Recorded' /\ Gone' /\ Partials'
  <2>1. UNCHANGED <<position, open, venue, step, owners, calls, orders>>
    BY DEF vars
  <2>2. \A c, l : Since(c, l)' = Since(c, l)
    BY <2>1, SinceSame
  <2>3. Recorded'
    BY <2>1, <2>2 DEF Sound, Recorded, Idle
  <2>4. Gone'
    BY <2>1 DEF Sound, Gone, Idle
  <2>5. Partials'
    BY <2>1, <2>2 DEF Sound, Partials, Named, Name
  <2> QED BY <2>3, <2>4, <2>5
<1>2. FillsTold' /\ FillsOnce' /\ UnknownOwn'
  BY DEF vars, Sound, FillsTold, FillsOnce, UnknownOwn, Name
<1>3. AtLeg' /\ AtFlatten'
  BY DEF vars, Sound, AtLeg, AtFlatten, ExitCid, Name
<1> QED BY <1>1, <1>2, <1>3 DEF Sound

-----------------------------------------------------------------------------
(* Every step.                                                             *)

\* An id that came back stays noted.
LEMMA ReusedStays == ASSUME [Next]_vars, reused PROVE reused'
<1>1. CASE Submit \/ Flatten
  BY <1>1 DEF Submit, Flatten, Filled, Unanswered, NothingToReduce, Refuse, Conflict, DuplicateRefused,
     DuplicateResolved, FlattenAnswered, FlattenLost, FlattenRefused, FlattenDuplicate, setup
<1>2. CASE Begin \/ Probe \/ GiveUp \/ NothingClosed \/ WriteBack
  BY <1>2 DEF Begin, Probe, GiveUp, NothingClosed, WriteBack, setup
<1>3. CASE LedgerStep \/ UNCHANGED vars
  BY <1>3 DEF LedgerStep, ResolvePendingClose, Settle, Terminalize, outside, setup, vars
<1> QED BY <1>1, <1>2, <1>3 DEF Next, CloseStep

LEMMA NextSound == ASSUME Inductive, Types, Types', Sound, [Next]_vars, ~reused' PROVE Sound'
<1>1. CASE Begin
  BY <1>1, BeginSound
<1>2. CASE Submit
  BY <1>2, FilledSound, UnansweredSound, NothingToReduceSound, RefuseSound, ConflictSound,
     DuplicateRefusedSound, DuplicateResolvedSound DEF Submit
<1>3. CASE Flatten
  BY <1>3, FlattenAnsweredSound, FlattenLostSound, FlattenRefusedSound, FlattenDuplicateReuses
     DEF Flatten
<1>4. CASE Probe \/ GiveUp \/ NothingClosed \/ WriteBack
  BY <1>4, ProbeSound, GiveUpSound, NothingClosedSound, WriteBackSound
<1>5. CASE LedgerStep \/ UNCHANGED vars
  BY <1>5, ResolvePendingCloseSound, SettleSound, TerminalizeSound, StutterSound DEF LedgerStep
<1> QED BY <1>1, <1>2, <1>3, <1>4, <1>5 DEF Next, CloseStep

\* Inside a call, between two and after every promotion, write-back and failed
\* compensation, record and snapshots account for every unit that was executed.
THEOREM AccountsHold == Spec => [](Inductive /\ Accounts)
<1>1. Init => Inductive /\ Accounts
  BY InitInductive, InitTypes, InitSound DEF Accounts
<1>2. Inductive /\ Accounts /\ [Next]_vars => (Inductive /\ Accounts)'
  <2> SUFFICES ASSUME Inductive, Accounts, [Next]_vars PROVE Inductive' /\ Accounts'
    OBVIOUS
  <2>1. Inductive'
    BY NextInductive
  <2>2. Types'
    BY NextTypes DEF Accounts
  <2>3. ASSUME ~reused' PROVE Sound'
    <3>1. Sound
      BY <2>3, ReusedStays DEF Accounts
    <3> QED BY <2>2, <2>3, <3>1, NextSound DEF Accounts
  <2> QED BY <2>1, <2>2, <2>3 DEF Accounts
<1> QED BY <1>1, <1>2, PTL DEF Spec

\* A position leaves the record only when both venues are flat, whichever of the
\* write-back, the pending close and the promoted bill removes it.
THEOREM GoneMeansFlat == Spec => []GoneIsFlat
<1>1. Inductive /\ Accounts => GoneIsFlat
  BY DEF Accounts, GoneIsFlat, Whole, Sound, Gone
<1> QED BY <1>1, AccountsHold, PTL

\* While a position is recorded no leg is recorded smaller than the venue holds
\* it: no unit is taken off the record twice, over retries, chunks, duplicates,
\* compensation and write-backs.
THEOREM BookCoversVenue == Spec => []BookNotBelowVenue
<1>1. ASSUME Accounts, Whole, open, NEW l \in Legs PROVE position[l] >= venue[l]
  <2>1. position[l] >= venue[l] + 0
    BY <1>1 DEF Accounts, Sound, Recorded, Whole
  <2>2. venue[l] \in Nat
    BY <1>1 DEF Accounts, Types, BookTypes
  <2> QED BY <2>1, <2>2
<1>2. Inductive /\ Accounts => BookNotBelowVenue
  BY <1>1 DEF BookNotBelowVenue
<1> QED BY <1>2, AccountsHold, PTL

-----------------------------------------------------------------------------
(* What a call leaves of its legs.                                         *)

\* What a leg held when the running call began.
Start(l) == venue[l] + (IF Idle THEN 0 ELSE Since(calls, l))
\* The calls that are over and closed more of one leg than of the other.
Uneven(c) == QuantityOf(OfCall(c), "short") # QuantityOf(OfCall(c), "long")
Past == {c \in 1..calls : (c # calls \/ Idle) /\ Uneven(c)}

\* Inside a call every order of it that executed is one of its fills or unresolved.
Handed ==
    ~Idle =>
        /\ calls > 0
        /\ \A o \in orders : o.call = calls /\ o.quantity > 0 => Name(o) \in FilledNames \cup unknown

\* A call starts with equal legs, or with those that the one uneven call left
\* and its repair.
Clear == ~reused /\ dropped = {} /\ ~failClosed /\ pendings = {}
Level ==
    Clear /\ Past = {} => \A l, m \in Legs : Start(l) = Start(m)
Repaired ==
    Clear /\ (\A c, d \in Past : c = d) =>
        \A l, m \in Legs :
            Start(l) > Start(m) => residual = {[leg |-> l, quantity |-> Start(l) - Start(m)]}
Covers == Handed /\ Level /\ Repaired

\* A step inside a call: it executes one order or nothing, and keeps its name.
Keeps ==
    /\ fills \subseteq fills' /\ unknown \subseteq unknown'
    /\ \A o \in orders' : o \in orders \/ o.quantity = 0 \/ Name(o) \in FilledNames' \cup unknown'
Works ==
    /\ ~Idle /\ ~Idle' /\ (\E k \in Legs : Moves(k)) /\ Keeps
    /\ UNCHANGED <<calls, residual, pendings, dropped, failClosed>>

LEMMA OfCallSame ==
  ASSUME Own, NEW c, c # calls PROVE OfCall(c)' = OfCall(c)
BY DEF Own, OfCall

LEMMA PastSame ==
  ASSUME Types, Own, ~Idle, ~Idle', calls' = calls PROVE Past' = Past
<1>1. \A c : c # calls => Uneven(c)' = Uneven(c)
  BY OfCallSame DEF Uneven
<1> QED BY <1>1 DEF Past

LEMMA WorksCovers ==
  ASSUME Types, Works, reused => reused', Covers PROVE Covers'
<1>1. PICK k \in Legs : Moves(k)
  BY DEF Works
<1>2. calls' = calls /\ calls \in Nat
  BY DEF Works, Types, CountTypes
<1>3. Own /\ \A l \in Legs : \A c \in Nat : c <= calls =>
               venue'[l] + Since(c, l)' = venue[l] + Since(c, l)
  BY <1>1, <1>2, MovesOwn
<1>4. \A l \in Legs : Start(l)' = Start(l)
  <2> TAKE l \in Legs
  <2>1. venue'[l] + Since(calls, l)' = venue[l] + Since(calls, l)
    BY <1>2, <1>3
  <2>2. Start(l) = venue[l] + Since(calls, l) /\ Start(l)' = venue'[l] + Since(calls, l)'
    BY <1>2 DEF Works, Start
  <2> QED BY <2>1, <2>2
<1>5. Past' = Past
  BY <1>2, <1>3, PastSame DEF Works
<1>6. Clear' => Clear
  BY DEF Works, Clear
<1>7. Level'
  BY <1>4, <1>5, <1>6 DEF Covers, Level
<1>8. Repaired'
  BY <1>4, <1>5, <1>6 DEF Covers, Repaired, Works
<1>9. Handed'
  <2> SUFFICES ASSUME NEW o \in orders', o.call = calls, o.quantity > 0
      PROVE Name(o) \in FilledNames' \cup unknown'
    BY <1>2 DEF Handed, Name, Covers, Works
  <2>1. CASE o \in orders
    <3>1. Name(o) \in FilledNames \cup unknown
      BY <2>1 DEF Covers, Handed, Works
    <3>2. FilledNames \subseteq FilledNames' /\ unknown \subseteq unknown'
      BY DEF Works, Keeps, FilledNames, Name
    <3> QED BY <3>1, <3>2
  <2>2. CASE o \notin orders
    BY <2>2 DEF Works, Keeps
  <2> QED BY <2>1, <2>2
<1> QED BY <1>7, <1>8, <1>9 DEF Covers

-----------------------------------------------------------------------------
(* The ends of a call.                                                     *)

\* What the orders of the running call executed, once none of them comes after it.
LEMMA SinceIs ==
  ASSUME Types, NEW l PROVE Since(calls, l) = QuantityOf(OfCall(calls), l)
<1>1. {o \in orders : o.call >= calls} = OfCall(calls)
  BY DEF Types, OrderTypes, CountTypes, OfCall
<1> QED BY <1>1 DEF Since

\* Sums that only have zeros.
LEMMA QuantityOfZeros ==
  ASSUME NEW S, IsFiniteSet(S), \A o \in S : o.quantity = 0, NEW l
  PROVE  QuantityOf(S, l) = 0
<1>1. QuantityOf(S, l) <= QuantityOf({}, l)
  BY FS_EmptySet, QuantityWithin
<1>2. QuantityOf({}, l) = 0
  BY QuantityOfNone
<1>3. QuantityOf(S, l) \in Nat
  BY QuantityType
<1> QED BY <1>1, <1>2, <1>3

\* What a finished call leaves, given what was summed of its orders.
LEMMA PastAfter ==
  ASSUME Types, ~Idle, Idle', UNCHANGED <<orders, calls>>, calls > 0
  PROVE  /\ calls \notin Past
         /\ Past' = IF Uneven(calls) THEN Past \cup {calls} ELSE Past
<1>1. \A c : Uneven(c)' = Uneven(c)
  BY DEF Uneven, OfCall
<1>2. calls \in 1..calls
  BY DEF Types, CountTypes
<1> QED BY <1>1, <1>2 DEF Past

\* A call that executed nothing, or lost what it executed.
Drops ==
    /\ ~Idle /\ Idle' /\ UNCHANGED <<orders, venue, calls, residual, pendings, failClosed>>
    /\ dropped \subseteq dropped'
    /\ dropped' = {} => fills = {} /\ unknown = {}

LEMMA DropsCovers ==
  ASSUME Types, Drops, reused => reused', Covers PROVE Covers'
<1>1. Handed'
  BY DEF Handed, Drops
<1>2. Clear' => Clear
  BY DEF Drops, Clear
<1>3. SUFFICES ASSUME Clear' PROVE Level' /\ Repaired'
  BY <1>1 DEF Covers, Level, Repaired
<1>4. FilledNames = {} /\ unknown = {}
  BY <1>3 DEF Drops, Clear, FilledNames
<1>5. \A o \in OfCall(calls) : o.quantity = 0
  BY <1>4 DEF Covers, Handed, Drops, OfCall, Types, OrderTypes
<1>6. \A l : Since(calls, l) = 0 /\ QuantityOf(OfCall(calls), l) = 0
  <2>1. IsFiniteSet(OfCall(calls))
    BY FS_Subset DEF Types, OrderTypes, OfCall
  <2> QED BY <1>5, <2>1, QuantityOfZeros, SinceIs
<1>7. ~Uneven(calls)
  BY <1>6 DEF Uneven
<1>8. Past' = Past
  <2>1. \A c : Uneven(c)' = Uneven(c)
    BY DEF Uneven, OfCall, Drops
  <2> QED BY <1>7, <2>1 DEF Past, Drops
<1>9. \A l \in Legs : Start(l)' = Start(l)
  <2> TAKE l \in Legs
  <2>1. venue[l] \in Nat /\ venue' = venue
    BY DEF Types, BookTypes, Drops
  <2> QED BY <1>6, <2>1 DEF Start, Drops
<1>10. Level'
  BY <1>2, <1>3, <1>8, <1>9 DEF Covers, Level
<1>11. Repaired'
  BY <1>2, <1>3, <1>8, <1>9 DEF Covers, Repaired, Drops
<1> QED BY <1>10, <1>11

\* The fills of a call with a known outcome count exactly what its orders executed.
LEMMA ClosedIs ==
  ASSUME Inductive, Types, Sound, Handed, ~Idle, unknown = {}, NEW l
  PROVE  Closed(l) = Since(calls, l)
<1> DEFINE S == {o \in orders : o.call >= calls}
           T == fills
<1>1. IsFiniteSet(S) /\ (\A x \in S : x.quantity \in Nat)
  BY FS_Subset DEF Types, OrderTypes
<1>2. IsFiniteSet(T) /\ (\A x \in T : x.quantity \in Nat)
  BY DEF Types, HandTypes
<1>3. ASSUME NEW x \in S, x.quantity > 0 PROVE \E y \in T : Name(y) = Name(x) /\ y.quantity = x.quantity
  <2>1. x.call = calls
    BY DEF Types, OrderTypes, CountTypes
  <2>2. Name(x) \in FilledNames
    BY <1>3, <2>1 DEF Handed
  <2>3. PICK f \in fills : f.quantity > 0 /\ Name(f) = Name(x)
    BY <2>2 DEF FilledNames
  <2>4. PICK o \in orders : Name(o) = Name(f) /\ o.quantity = f.quantity
    BY <2>3 DEF Sound, FillsTold
  <2>5. o = x
    BY <2>3, <2>4 DEF Inductive, OncePerId
  <2> QED BY <2>3, <2>4, <2>5
<1>4. \A w, x \in S : w.quantity > 0 /\ x.quantity > 0 /\ Name(w) = Name(x) => w = x
  BY DEF Inductive, OncePerId
<1>5. Closed(l) = QuantityOf(T, l) /\ Since(calls, l) = QuantityOf(S, l)
  BY DEF Closed, Since
<1> HIDE DEF S, T
<1>6. QuantityOf(S, l) <= QuantityOf(T, l)
  BY <1>1, <1>2, <1>3, <1>4, QuantityWithin
<1>7. Closed(l) <= Since(calls, l) /\ Closed(l) \in Nat /\ Since(calls, l) \in Nat
  BY ClosedWithin, ClosedType, SinceType
<1> QED BY <1>5, <1>6, <1>7

\* The leg that closed less, and by how much.
LEMMA ResidualIs ==
  ASSUME NEW k \in Legs, NEW m \in Legs, Remaining(k) \in Nat, Remaining(m) \in Nat,
         Remaining(k) > Remaining(m)
  PROVE  Residual = {[leg |-> k, quantity |-> Remaining(k) - Remaining(m)]}
<1> DEFINE r(l) == Remaining(l)
<1>1. {q \in Legs \X Legs : r(q[1]) > r(q[2])} = {<<k, m>>}
  BY DEF Legs
<1>2. Residual = {[leg |-> p[1], quantity |-> r(p[1]) - r(p[2])] :
                    p \in {q \in Legs \X Legs : r(q[1]) > r(q[2])}}
  BY DEF Residual
<1>3. Residual = {[leg |-> p[1], quantity |-> r(p[1]) - r(p[2])] : p \in {<<k, m>>}}
  BY <1>1, <1>2
<1> HIDE DEF r
<1>4. {[leg |-> p[1], quantity |-> r(p[1]) - r(p[2])] : p \in {<<k, m>>}} =
        {[leg |-> k, quantity |-> r(k) - r(m)]}
  OBVIOUS
<1> QED BY <1>3, <1>4 DEF r

LEMMA NoResidual ==
  ASSUME Remaining("short") \in Nat, Remaining("short") = Remaining("long")
  PROVE  Residual = {}
BY DEF Residual, Legs

LEMMA WriteBackCovers ==
  ASSUME Inductive, Types, WriteBack, ~reused => Sound, Covers PROVE Covers'
<1>1. /\ ~Idle /\ Idle' /\ UNCHANGED <<orders, venue, calls, reused, failClosed>>
      /\ residual' = IF Residual = {} THEN residual ELSE Residual
      /\ dropped \subseteq dropped' /\ pendings \subseteq pendings'
      /\ unknown = {} \/ pendings' # {}
  BY DEF WriteBack, Leave, Idle, setup
<1>2. Handed'
  BY <1>1 DEF Handed
<1>3. Clear' => Clear /\ unknown = {}
  BY <1>1 DEF Clear
<1>4. SUFFICES ASSUME Clear' PROVE Level' /\ Repaired'
  BY <1>2 DEF Covers, Level, Repaired
<1>5. Clear /\ unknown = {} /\ Sound /\ Handed
  BY <1>3, <1>4 DEF Clear, Covers
<1>6. \A l : Closed(l) = Since(calls, l) /\ Closed(l) = QuantityOf(OfCall(calls), l) /\ Closed(l) \in Nat
  BY <1>1, <1>5, ClosedIs, SinceIs, ClosedType
<1>7. \A l \in Legs : Remaining(l) = position.matched - Closed(l) /\ Remaining(l) \in Nat
  <2> TAKE l \in Legs
  <2>1. position[l] \in Nat /\ position.matched \in Nat /\ venue[l] \in Nat /\ Closed(l) \in Nat
    BY <1>6 DEF Types, BookTypes, Legs
  <2>2. position.matched >= position[l] /\ position[l] >= venue[l] + Closed(l)
    BY <1>1, <1>5, <1>6 DEF Sound, Recorded, Gone
  <2>3. Closed(l) <= position.matched
    <3> SUFFICES ASSUME NEW a \in Nat, NEW b \in Nat, NEW c \in Nat, NEW d \in Nat,
                        a >= b, b >= c + d
        PROVE  d <= a
      BY <2>1, <2>2
    <3> QED OBVIOUS
  <2>4. Remaining(l) = position.matched - Closed(l)
    BY <2>1, <2>3, LessIsMinus DEF Remaining
  <2> QED BY <2>1, <2>3, <2>4
<1>8. \A l \in Legs : venue[l] \in Nat /\ Start(l) = venue[l] + Closed(l) /\ Start(l)' = venue[l]
  <2> TAKE l \in Legs
  <2>1. venue[l] \in Nat
    BY DEF Types, BookTypes
  <2> QED BY <1>1, <1>6, <2>1 DEF Start
<1>9. calls \notin Past /\ Past' = IF Closed("short") # Closed("long") THEN Past \cup {calls} ELSE Past
  <2>1. calls > 0
    BY <1>1, <1>5 DEF Handed
  <2> QED BY <1>1, <1>6, <2>1, PastAfter DEF Uneven
<1>10. CASE Closed("short") = Closed("long")
  <2>1. Past' = Past
    BY <1>9, <1>10
  <2>2. \A l \in Legs : Remaining(l) = Remaining("short") /\ Closed(l) = Closed("short")
    BY <1>7, <1>10 DEF Legs
  <2>3. residual' = residual
    <3>1. Remaining("short") \in Nat /\ Remaining("short") = Remaining("long")
      BY <1>7, <2>2 DEF Legs
    <3> QED BY <1>1, <3>1, NoResidual
  <2>4. ASSUME NEW l \in Legs, NEW m \in Legs
        PROVE  /\ Start(l) = Start(m) <=> Start(l)' = Start(m)'
               /\ Start(l) > Start(m) <=> Start(l)' > Start(m)'
               /\ Start(l) - Start(m) = Start(l)' - Start(m)'
    <3>1. Closed(l) = Closed(m) /\ Closed(m) \in Nat
      BY <1>6, <2>2
    <3>2. /\ venue[l] \in Nat /\ Start(l) = venue[l] + Closed(l) /\ Start(l)' = venue[l]
          /\ venue[m] \in Nat /\ Start(m) = venue[m] + Closed(m) /\ Start(m)' = venue[m]
      BY <1>8
    <3> QED BY <3>1, <3>2
  <2>5. Level'
    BY <1>5, <2>1, <2>4 DEF Covers, Level
  <2>6. Repaired'
    <3> SUFFICES ASSUME \A c, d \in Past : c = d, NEW l \in Legs, NEW m \in Legs, Start(l)' > Start(m)'
        PROVE  residual' = {[leg |-> l, quantity |-> Start(l)' - Start(m)']}
      BY <2>1 DEF Repaired
    <3>1. Start(l) > Start(m) /\ Start(l) - Start(m) = Start(l)' - Start(m)'
      BY <2>4
    <3>2. residual = {[leg |-> l, quantity |-> Start(l) - Start(m)]}
      BY <1>5, <3>1 DEF Covers, Repaired
    <3> QED BY <2>3, <3>1, <3>2
  <2> QED BY <2>5, <2>6
<1>11. CASE Closed("short") # Closed("long")
  <2>1. Past' = Past \cup {calls} /\ calls \notin Past
    BY <1>9, <1>11
  <2>2. Level'
    BY <2>1 DEF Level
  <2>3. Repaired'
    <3> SUFFICES ASSUME \A c, d \in Past \cup {calls} : c = d, NEW l \in Legs, NEW m \in Legs,
                        Start(l)' > Start(m)'
        PROVE  residual' = {[leg |-> l, quantity |-> Start(l)' - Start(m)']}
      BY <2>1 DEF Repaired
    <3>1. Past = {}
      BY <2>1
    <3>2. Start(l) = Start(m)
      BY <1>5, <3>1 DEF Covers, Level
    <3>3. /\ venue[l] \in Nat /\ Start(l) = venue[l] + Closed(l) /\ Start(l)' = venue[l]
          /\ venue[m] \in Nat /\ Start(m) = venue[m] + Closed(m) /\ Start(m)' = venue[m]
          /\ Closed(l) \in Nat /\ Closed(m) \in Nat
      BY <1>6, <1>8
    <3>4. /\ Remaining(l) = position.matched - Closed(l) /\ Remaining(l) \in Nat
          /\ Remaining(m) = position.matched - Closed(m) /\ Remaining(m) \in Nat
          /\ position.matched \in Nat
      BY <1>7 DEF Types, BookTypes
    <3>5. /\ Remaining(l) > Remaining(m)
          /\ Remaining(l) - Remaining(m) = Start(l)' - Start(m)'
      <4>1. ASSUME NEW v \in Nat, NEW w \in Nat, NEW c \in Nat, NEW d \in Nat, NEW p \in Nat,
                   v > w, v + c = w + d
            PROVE  p - c > p - d /\ (p - c) - (p - d) = v - w
        BY <4>1
      <4>2. venue[l] > venue[m] /\ venue[l] + Closed(l) = venue[m] + Closed(m)
        BY <3>2, <3>3
      <4>3. LET p == position.matched
            IN  /\ p - Closed(l) > p - Closed(m)
                /\ (p - Closed(l)) - (p - Closed(m)) = venue[l] - venue[m]
        BY <3>3, <3>4, <4>1, <4>2
      <4> QED BY <3>3, <3>4, <4>3
    <3>6. Residual = {[leg |-> l, quantity |-> Remaining(l) - Remaining(m)]}
      BY <3>4, <3>5, ResidualIs
    <3> QED BY <1>1, <3>5, <3>6
  <2> QED BY <2>2, <2>3
<1> QED BY <1>10, <1>11

LEMMA BeginCovers ==
  ASSUME Types, Types', Begin, Covers PROVE Covers'
<1>1. Idle /\ ~Idle' /\ calls' = calls + 1 /\ calls \in Nat
      /\ UNCHANGED <<orders, venue, residual, pendings, dropped, failClosed, reused>>
  BY DEF Begin, Idle, Types, CountTypes, setup, bookVars
<1>2. \A o \in orders : o.call <= calls /\ o.call \in Nat
  BY DEF Types, OrderTypes
<1>3. Handed'
  BY <1>1, <1>2 DEF Handed
<1>4. \A l \in Legs : Start(l)' = Start(l)
  <2> TAKE l \in Legs
  <2>1. {o \in orders : o.call >= calls + 1} = {}
    BY <1>1, <1>2
  <2>2. Since(calls, l)' = 0
    BY <1>1, <2>1, QuantityOfNone DEF Since
  <2>3. venue[l] \in Nat /\ venue' = venue
    BY <1>1 DEF Types, BookTypes
  <2> QED BY <1>1, <2>2, <2>3 DEF Start
<1>5. Past' = Past
  <2>1. \A c : Uneven(c)' = Uneven(c)
    BY <1>1 DEF Uneven, OfCall
  <2>2. \A c : c \in 1..(calls + 1) /\ c # calls + 1 <=> c \in 1..calls
    BY <1>1
  <2> QED BY <1>1, <2>1, <2>2 DEF Past
<1>6. Clear' => Clear
  BY <1>1 DEF Clear
<1>7. Level'
  BY <1>4, <1>5, <1>6 DEF Covers, Level
<1>8. Repaired'
  BY <1>1, <1>4, <1>5, <1>6 DEF Covers, Repaired
<1> QED BY <1>3, <1>7, <1>8 DEF Covers

-----------------------------------------------------------------------------
(* Between two calls.                                                      *)

\* The legs are flat, or the repair and the pending closes are as they were.
LEMMA BetweenCovers ==
  ASSUME Idle, Types, UNCHANGED <<orders, venue, calls, step, reused, failClosed>>,
         dropped \subseteq dropped',
         (\A l \in Legs : venue[l] = 0) \/ reused \/ UNCHANGED <<residual, pendings>>, Covers
  PROVE  Covers'
<1>1. Idle'
  BY DEF Idle
<1>2. Handed'
  BY <1>1 DEF Handed
<1>3. \A l \in Legs : Start(l)' = Start(l) /\ Start(l) = venue[l] + 0
  BY <1>1 DEF Start
<1>4. Past' = Past
  <2>1. \A c : Uneven(c)' = Uneven(c)
    BY DEF Uneven, OfCall
  <2> QED BY <1>1, <2>1 DEF Past
<1>5. CASE \A l \in Legs : venue[l] = 0
  <2>1. \A l \in Legs : Start(l)' = 0
    BY <1>3, <1>5
  <2> QED BY <1>2, <2>1 DEF Covers, Level, Repaired
<1>6. CASE reused
  BY <1>2, <1>6 DEF Covers, Level, Repaired, Clear
<1>7. CASE UNCHANGED <<residual, pendings>>
  <2>1. Clear' => Clear
    BY <1>7 DEF Clear
  <2>2. Level'
    BY <1>3, <1>4, <2>1 DEF Covers, Level
  <2>3. Repaired'
    BY <1>3, <1>4, <1>7, <2>1 DEF Covers, Repaired
  <2> QED BY <1>2, <2>2, <2>3 DEF Covers
<1> QED BY <1>5, <1>6, <1>7

-----------------------------------------------------------------------------
(* The steps inside a call.                                                *)

\* What a step inside a call leaves to the end of the call.
Later == UNCHANGED <<calls, residual, pendings, dropped, failClosed>>

\* Nothing is executed.
LEMMA StillWorks ==
  ASSUME ~Idle, ~Idle', Later, UNCHANGED <<orders, venue>>, fills \subseteq fills',
         unknown \subseteq unknown'
  PROVE  Works
<1>1. "short" \in Legs /\ Moves("short")
  BY StillMoves DEF Legs
<1> QED BY <1>1 DEF Works, Keeps, Later

\* An order is executed, and what it executed is a fill or unresolved.
LEMMA OrderWorks ==
  ASSUME ~Idle, ~Idle', Later, NEW k \in Legs, NEW x \in 0..venue[k], Execute(k, x),
         fills \subseteq fills', unknown \subseteq unknown',
         x # 0 => [leg |-> k, cid |-> request.cid] \in FilledNames' \cup unknown'
  PROVE  Works
<1> DEFINE new == [leg |-> k, cid |-> request.cid, quantity |-> x, call |-> calls,
                    chunk |-> chunk]
<1>1. orders' = orders \cup {new}
  BY DEF Execute
<1>2. Name(new) = [leg |-> k, cid |-> request.cid] /\ new.quantity = x
  BY DEF Name
<1> HIDE DEF new
<1>3. Keeps
  BY <1>1, <1>2 DEF Keeps
<1>4. Moves(k)
  BY DEF Moves
<1> QED BY <1>3, <1>4 DEF Works, Later

LEMMA FilledWorks == ASSUME Types, Filled PROVE Works
<1>1. PICK x \in IocResult(step) \ {0} : Execute(step, x) /\ AddFill(step, request.cid, x, chunk)
  BY DEF Filled
<1>2. step \in Legs /\ ~Idle /\ ~Idle' /\ Later /\ unknown' = unknown /\ fills \subseteq fills'
  BY <1>1 DEF Filled, Submitting, Legs, Idle, NextLeg, Later, bookVars, AddFill
<1>3. x \in 0..venue[step] /\ x \in Nat /\ x > 0
  BY <1>1, <1>2, IocIs, ResultIs
<1> DEFINE f == [leg |-> step, cid |-> request.cid, quantity |-> x, chunk |-> chunk]
<1>4. f \in fills' /\ f.quantity > 0 /\ Name(f) = [leg |-> step, cid |-> request.cid]
  BY <1>1, <1>3 DEF AddFill, Name
<1> HIDE DEF f
<1>5. [leg |-> step, cid |-> request.cid] \in FilledNames'
  BY <1>4 DEF FilledNames, Name
<1> QED BY <1>1, <1>2, <1>3, <1>5, OrderWorks

LEMMA UnansweredWorks == ASSUME Types, Unanswered PROVE Works
<1>1. /\ step \in Legs /\ ~Idle /\ ~Idle' /\ Later /\ fills' = fills /\ unknown \subseteq unknown'
      /\ [leg |-> step, cid |-> request.cid] \in unknown'
  BY DEF Unanswered, Submitting, Legs, Idle, Unsure, TryAgain, Compensate, Later, bookVars
<1>2. CASE ExecuteNothing
  BY <1>1, <1>2, StillWorks DEF ExecuteNothing
<1>3. ASSUME NEW x \in 0..venue[step], Execute(step, x) PROVE Works
  BY <1>1, <1>3, OrderWorks
<1>4. Moves(step)
  BY UnansweredMoves
<1> QED BY <1>2, <1>3, <1>4 DEF Moves

LEMMA NothingToReduceWorks == ASSUME NothingToReduce PROVE Works
BY StillWorks DEF NothingToReduce, Submitting, Legs, Idle, NextLeg, Later, bookVars, AddFill

\* A refused short leg ends the call.
LEMMA RejectedWorks ==
  ASSUME Submitting, Rejected, UNCHANGED <<orders, venue, calls>> PROVE Works \/ Drops
<1>1. ~Idle
  BY DEF Submitting, Legs, Idle
<1>2. CASE ReturnNothing
  <2>1. /\ Idle' /\ UNCHANGED <<residual, pendings, failClosed>>
        /\ dropped' = dropped \cup ({Name(f) : f \in fills} \cup unknown)
    BY <1>2 DEF ReturnNothing, Leave, bookVars, Idle
  <2>2. dropped' = {} => fills = {} /\ unknown = {}
    BY <2>1
  <2> QED BY <1>1, <2>1, <2>2 DEF Drops
<1>3. CASE Compensate /\ UNCHANGED <<bookVars, failClosed, dropped, chunks, total, fills, unknown>>
  BY <1>1, <1>3, StillWorks DEF Compensate, Idle, Later, bookVars
<1> QED BY <1>2, <1>3 DEF Rejected

LEMMA ConflictWorks == ASSUME Conflict PROVE Works
BY StillWorks DEF Conflict, Submitting, Legs, Idle, TryAgain, Later, bookVars

LEMMA DuplicateResolvedWorks == ASSUME DuplicateResolved PROVE Works
<1>1. fills \subseteq fills' /\ unknown \subseteq unknown'
  BY DEF DuplicateResolved, AddFill
<1>2. ~Idle /\ ~Idle'
  BY DEF DuplicateResolved, Submitting, NextLeg, Compensate, Legs, Idle
<1>3. Later /\ UNCHANGED <<orders, venue>>
  BY DEF DuplicateResolved, bookVars, Later
<1> QED BY <1>1, <1>2, <1>3, StillWorks

\* The call ends fail-closed.
Fails == ~Idle /\ Idle' /\ failClosed'
LEMMA ProbeWorks == ASSUME Probe PROVE Works \/ Fails
<1>1. CASE CompensationFails
  BY <1>1 DEF Probe, CompensationFails, Leave, Fails, Idle
<1>2. CASE ~CompensationFails
  <2>1. /\ ~Idle /\ ~Idle' /\ Later /\ UNCHANGED <<orders, venue>>
        /\ fills' = fills /\ unknown' = unknown
    BY <1>2 DEF Probe, bookVars, Later, NextVenue, Idle
  <2> QED BY <2>1, StillWorks
<1> QED BY <1>1, <1>2

LEMMA AttemptLater ==
  ASSUME Flattening, calls' = calls,
         NotFlat \/ AfterAttempt(TRUE) \/ AfterAttempt(FALSE)
  PROVE  ~Idle /\ ~Idle' /\ Later
BY DEF Flattening, NotFlat, AfterAttempt, NextVenue, Idle, Later, bookVars

LEMMA RetainKeeps ==
  ASSUME NEW q \in Nat, Retain(q)
  PROVE  /\ fills \subseteq fills' /\ unknown \subseteq unknown'
         /\ [leg |-> at, cid |-> request.cid] \in FilledNames' \cup unknown'
<1>1. CASE q = 0
  BY <1>1 DEF Retain
<1>2. CASE q > 0
  <2> DEFINE f == [leg |-> at, cid |-> request.cid, quantity |-> q, chunk |-> 0]
  <2>1. f \in fills' /\ f.quantity > 0 /\ Name(f) = [leg |-> at, cid |-> request.cid]
    BY <1>2 DEF Retain, Name
  <2> HIDE DEF f
  <2>2. [leg |-> at, cid |-> request.cid] \in FilledNames'
    BY <2>1 DEF FilledNames, Name
  <2> QED BY <2>2 DEF Retain
<1> QED BY <1>1, <1>2

LEMMA FlattenAnsweredWorks == ASSUME Types, FlattenAnswered PROVE Works
<1>1. PICK x \in IocResult(at) : Execute(at, x) /\ Retain(x)
                                 /\ AfterAttempt(x >= request.quantity \/ venue'[at] = 0)
  BY DEF FlattenAnswered
<1>2. at \in Legs /\ x \in Nat /\ x \in 0..venue[at]
  BY <1>1, ResultIs, IocIs DEF Types, CountTypes
<1>3. ~Idle /\ ~Idle' /\ Later
  BY <1>1, AttemptLater DEF FlattenAnswered, AfterAttempt
<1> QED BY <1>1, <1>2, <1>3, RetainKeeps, OrderWorks

LEMMA FlattenLostWorks == ASSUME Types, FlattenLost PROVE Works
<1>1. ~Idle /\ ~Idle' /\ Later
  BY AttemptLater DEF FlattenLost, AfterAttempt
<1>2. /\ fills \subseteq fills' /\ unknown \subseteq unknown'
      /\ [leg |-> at, cid |-> request.cid] \in FilledNames' \cup unknown'
  BY RetainKeeps DEF FlattenLost
<1>3. CASE ExecuteNothing
  BY <1>1, <1>2, <1>3, StillWorks DEF ExecuteNothing
<1>4. ASSUME NEW x \in 0..venue[at], Execute(at, x) PROVE Works
  <2>1. at \in Legs
    BY DEF Types, CountTypes
  <2> QED BY <1>1, <1>2, <1>4, <2>1, OrderWorks
<1>5. Moves(at)
  BY FlattenMoves
<1> QED BY <1>3, <1>4, <1>5 DEF Moves

LEMMA FlattenRefusedWorks == ASSUME FlattenRefused PROVE Works
<1>1. ~Idle /\ ~Idle' /\ Later
  BY AttemptLater DEF FlattenRefused
<1> QED BY <1>1, StillWorks DEF FlattenRefused, ExecuteNothing

LEMMA FlattenDuplicateWorks == ASSUME FlattenDuplicate PROVE Works
<1>1. ~Idle /\ ~Idle' /\ Later
  BY DEF FlattenDuplicate, Flattening, NotFlat, Idle, Later, bookVars
<1>2. (\E q : Retain(q)) \/ UNCHANGED <<fills, unknown>>
  BY DEF FlattenDuplicate
<1>3. fills \subseteq fills' /\ unknown \subseteq unknown'
  BY <1>2 DEF Retain
<1> QED BY <1>1, <1>3, StillWorks DEF FlattenDuplicate, ExecuteNothing

\* A step of a call goes on, or ends it in one of four ways.
LEMMA CallWorks ==
  ASSUME Types, CloseStep PROVE Works \/ Drops \/ Fails \/ WriteBack
<1>1. CASE Submit
  <2>1. CASE Refuse \/ DuplicateRefused
    BY <2>1, RejectedWorks DEF Refuse, DuplicateRefused
  <2> QED BY <1>1, <2>1, FilledWorks, UnansweredWorks, NothingToReduceWorks, ConflictWorks,
         DuplicateResolvedWorks DEF Submit
<1>2. CASE Flatten
  BY <1>2, FlattenAnsweredWorks, FlattenLostWorks, FlattenRefusedWorks, FlattenDuplicateWorks
     DEF Flatten
<1>3. CASE GiveUp
  BY <1>3 DEF GiveUp, CompensationFails, Leave, Fails, Idle
<1>4. CASE NothingClosed
  BY <1>4 DEF NothingClosed, Leave, Drops, Idle, bookVars
<1>5. CASE Probe
  BY <1>5, ProbeWorks
<1> QED BY <1>1, <1>2, <1>3, <1>4, <1>5 DEF CloseStep

LEMMA FailsCovers == ASSUME Fails PROVE Covers'
BY DEF Fails, Covers, Handed, Level, Repaired, Clear

-----------------------------------------------------------------------------
(* The lanes between two calls, and every step.                            *)

LEMMA LedgerCovers ==
  ASSUME Inductive, Types, ~reused => Sound, LedgerStep \/ UNCHANGED vars, Idle, Covers PROVE Covers'
<1>1. CASE ResolvePendingClose
  <2>1. (\A l \in Legs : venue[l] = 0) \/ reused
    BY <1>1 DEF ResolvePendingClose, Sound, Gone
  <2> QED BY <1>1, <2>1, BetweenCovers DEF ResolvePendingClose, outside, setup, callLocals
<1>2. CASE Settle
  <2>1. PICK e \in owners : \E unread :
           Promoted(e, Found(e, unread)) \/ UNCHANGED <<residual, pendings>>
    BY <1>2 DEF Settle
  <2>2. (\A l \in Legs : venue[l] = 0) \/ reused \/ UNCHANGED <<residual, pendings>>
    BY <2>1, PromotedFlat
  <2>3. dropped \subseteq dropped' /\ UNCHANGED <<orders, venue, calls, step, reused, failClosed>>
    BY <1>2 DEF Settle, setup, callLocals
  <2> QED BY <2>2, <2>3, BetweenCovers
<1>3. CASE Terminalize
  BY <1>3, BetweenCovers DEF Terminalize, outside, setup, callLocals
<1>4. CASE UNCHANGED vars
  BY <1>4, BetweenCovers DEF vars
<1> QED BY <1>1, <1>2, <1>3, <1>4 DEF LedgerStep

LEMMA StutterWorks == ASSUME UNCHANGED vars, ~Idle PROVE Works
BY StillWorks DEF vars, Idle, Later

LEMMA NextCovers ==
  ASSUME Inductive, Types, Types', ~reused => Sound, Covers, [Next]_vars PROVE Covers'
<1>1. reused => reused'
  BY ReusedStays
<1>2. CASE Begin
  BY <1>2, BeginCovers
<1>3. CASE Works
  BY <1>1, <1>3, WorksCovers
<1>4. CASE CloseStep
  BY <1>1, <1>3, <1>4, CallWorks, DropsCovers, FailsCovers, WriteBackCovers
<1>5. CASE LedgerStep
  <2>1. Idle
    BY <1>5 DEF LedgerStep, ResolvePendingClose, Settle, Terminalize
  <2> QED BY <1>5, <2>1, LedgerCovers
<1>6. CASE UNCHANGED vars
  BY <1>3, <1>6, StutterWorks, LedgerCovers
<1> QED BY <1>2, <1>4, <1>5, <1>6 DEF Next

LEMMA InitCovers == ASSUME Init PROVE Covers
<1>1. Idle /\ \A l \in Legs : venue[l] = Quantity
  BY DEF Init, Idle, Legs
<1>2. \A l \in Legs : Start(l) = Quantity + 0
  BY <1>1 DEF Start
<1>3. Quantity + 0 \in Nat
  BY CloseConstants
<1> QED BY <1>1, <1>2, <1>3 DEF Covers, Handed, Level, Repaired

\* A set of one member at most.
LEMMA AtMostOne ==
  ASSUME NEW S, IsFiniteSet(S), Cardinality(S) <= 1 PROVE \A c, d \in S : c = d
<1> SUFFICES ASSUME NEW c \in S, NEW d \in S, c # d PROVE FALSE
  OBVIOUS
<1>1. IsFiniteSet(S \ {c}) /\ Cardinality(S \ {c}) = Cardinality(S) - 1 /\ Cardinality(S) \in Nat
  BY FS_RemoveElement, FS_CardinalityType
<1>2. Cardinality(S \ {c}) \in Nat /\ Cardinality(S \ {c}) = 0
  BY <1>1, FS_CardinalityType
<1>3. S \ {c} = {}
  BY <1>1, <1>2, FS_EmptySet
<1> QED BY <1>3

\* When one call closed its legs unequally and nothing is pending, the larger leg
\* has a residual repair for exactly the difference, or the engine has failed
\* closed: refusals, retries, partial fills, the writes of later calls and the
\* removal of the position leave none uncovered.
THEOREM NakedIsRepaired == Spec => []NothingNaked
<1>1. Init => Covers
  BY InitCovers
<1>2. (Inductive /\ Accounts) /\ Accounts' /\ Covers /\ [Next]_vars => Covers'
  BY NextCovers DEF Accounts
<1>3. Accounts /\ Covers => NothingNaked
  <2> SUFFICES ASSUME Types, Covers, Whole, ~failClosed, pendings = {}, Cardinality(Lopsided) <= 1,
                      NEW l \in Legs, NEW m \in Legs, venue[l] > venue[m]
      PROVE  residual = {[leg |-> l, quantity |-> venue[l] - venue[m]]}
    BY DEF NothingNaked, Accounts
  <2>1. Past = Lopsided
    BY DEF Past, Lopsided, Uneven, Whole
  <2>2. IsFiniteSet(Lopsided)
    <3>1. IsFiniteSet(1..calls)
      BY FS_Interval DEF Types, CountTypes
    <3> QED BY <3>1, FS_Subset DEF Lopsided
  <2>3. \A c, d \in Past : c = d
    BY <2>1, <2>2, AtMostOne
  <2>4. \A k \in Legs : venue[k] \in Nat /\ Start(k) = venue[k] + 0
    BY DEF Types, BookTypes, Start, Whole
  <2>5. Start(l) = venue[l] /\ Start(m) = venue[m]
    BY <2>4
  <2>6. Clear
    BY DEF Clear, Whole
  <2> QED BY <2>3, <2>5, <2>6 DEF Covers, Repaired
<1> QED BY <1>1, <1>2, <1>3, AccountsHold, PTL DEF Spec
=============================================================================
