------------------------------ MODULE Counting ------------------------------
(***************************************************************************)
(* Numbers of things, for the proofs: the least element of a set of        *)
(* natural numbers (the earliest alarm of SessionTunnel, the next          *)
(* acknowledgement of CommandLedger, the oldest row of EnvelopeLog's       *)
(* replay), and the place of an element in an ordered set (the numbers     *)
(* that CommandLedger gives to a batch).                                   *)
(***************************************************************************)
EXTENDS Integers, FiniteSetTheorems, FunctionTheorems, TLAPS

\* The least element that the CHOOSE of Earliest and of AdvanceIncomingAcknowledgement
\* name exists.
LEMMA LeastNatural ==
    ASSUME NEW S \in SUBSET Nat, S # {}
    PROVE  \E n \in S : \A m \in S : n <= m
<1>1. PICK R : /\ IsWellFoundedOn(R, Nat)
               /\ \A x, y \in Nat : y < x => <<y, x>> \in R
  <2>1. IsWellFoundedOn(OpToRel(<, Nat), Nat)
    BY NatLessThanWellFounded
  <2>2. \A x, y \in Nat : y < x => <<y, x>> \in OpToRel(<, Nat)
    BY DEF OpToRel
  <2> QED BY <2>1, <2>2
<1>2. PICK n \in S : \A m \in S : ~(<<m, n>> \in R)
  BY <1>1, WFMin
<1>3. \A m \in S : ~(m < n)
  BY <1>1, <1>2
<1> QED BY <1>2, <1>3

-----------------------------------------------------------------------------
(* Places in an ordered set.                                               *)

\* R orders the elements of S one after the other.
Orders(R, S) ==
    /\ \A x \in S : <<x, x>> \notin R
    /\ \A x, y, z \in S : <<x, y>> \in R /\ <<y, z>> \in R => <<x, z>> \in R
    /\ \A x, y \in S : x # y => <<x, y>> \in R \/ <<y, x>> \in R

Below(x, R, S) == {y \in S : <<y, x>> \in R}

\* How many elements come before it.
Place(x, R, S) == Cardinality(Below(x, R, S))

\* A later element has a larger place.
LEMMA PlacesAscend ==
    ASSUME NEW S, IsFiniteSet(S), NEW R, Orders(R, S),
           NEW x \in S, NEW y \in S, <<x, y>> \in R
    PROVE  Place(x, R, S) < Place(y, R, S)
<1>1. Below(x, R, S) \subseteq Below(y, R, S)
  BY DEF Below, Orders
<1>2. x \in Below(y, R, S) /\ x \notin Below(x, R, S)
  BY DEF Below, Orders
<1>3. IsFiniteSet(Below(y, R, S))
  BY FS_Subset DEF Below
<1>4. /\ IsFiniteSet(Below(x, R, S))
      /\ Cardinality(Below(x, R, S)) <= Cardinality(Below(y, R, S))
      /\ Cardinality(Below(x, R, S)) # Cardinality(Below(y, R, S))
  BY <1>1, <1>2, <1>3, FS_Subset
<1>5. Cardinality(Below(x, R, S)) \in Nat /\ Cardinality(Below(y, R, S)) \in Nat
  BY <1>3, <1>4, FS_CardinalityType
<1> QED BY <1>4, <1>5 DEF Place

\* The places of n elements are 0 to n - 1, each taken once.
LEMMA PlacesAreComplete ==
    ASSUME NEW S, IsFiniteSet(S), NEW R, Orders(R, S)
    PROVE  /\ \A x \in S : Place(x, R, S) \in 0..(Cardinality(S) - 1)
           /\ \A x, y \in S : Place(x, R, S) = Place(y, R, S) => x = y
           /\ \A n \in 0..(Cardinality(S) - 1) : \E x \in S : Place(x, R, S) = n
<1> DEFINE T == 0..(Cardinality(S) - 1)
           place == [x \in S |-> Place(x, R, S)]
<1>1. Cardinality(S) \in Nat
  BY FS_CardinalityType
<1>2. ASSUME NEW x \in S
      PROVE  Place(x, R, S) \in T
  <2>1. IsFiniteSet(S \ {x}) /\ Cardinality(S \ {x}) = Cardinality(S) - 1
    BY FS_RemoveElement
  <2>2. Below(x, R, S) \in SUBSET (S \ {x})
    BY DEF Below, Orders
  <2>3. IsFiniteSet(Below(x, R, S)) /\ Cardinality(Below(x, R, S)) <= Cardinality(S \ {x})
    BY <2>1, <2>2, FS_Subset
  <2>4. Cardinality(Below(x, R, S)) \in Nat
    BY <2>3, FS_CardinalityType
  <2> QED BY <1>1, <2>1, <2>3, <2>4 DEF Place
<1>3. ASSUME NEW x \in S, NEW y \in S, Place(x, R, S) = Place(y, R, S)
      PROVE  x = y
  <2>1. Place(x, R, S) \in Int /\ Place(y, R, S) \in Int
    BY <1>2
  <2>2. ~(Place(x, R, S) < Place(y, R, S)) /\ ~(Place(y, R, S) < Place(x, R, S))
    BY <1>3, <2>1
  <2>3. <<x, y>> \notin R /\ <<y, x>> \notin R
    BY <2>2, PlacesAscend
  <2> QED BY <2>3 DEF Orders
<1>4. place \in Injection(S, T)
  BY <1>2, <1>3 DEF Injection, IsInjective
<1>5. IsFiniteSet(T) /\ Cardinality(T) = Cardinality(S)
  BY <1>1, FS_Interval
<1>6. place \in Surjection(S, T)
  BY <1>4, <1>5, FS_Injection
<1>7. \A n \in T : \E x \in S : place[x] = n
  BY <1>6 DEF Surjection
<1> QED BY <1>2, <1>3, <1>7

=============================================================================
