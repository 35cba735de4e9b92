----------------------------- MODULE FlattenProofs -----------------------------
(***************************************************************************)
(* Facts about the concatenation of a sequence of sequences, FlattenSeq,   *)
(* which compact and a restore make of the segments they download, and the *)
(* induction they need.  The induction theorems of the library take the    *)
(* induction formula as a parameter; here it is a set of numbers.          *)
(***************************************************************************)
EXTENDS Integers, SequencesExt, SequenceTheorems, WellFoundedInduction, TLAPS

\* A non-empty set of natural numbers has a least element.
LEMMA LeastNumber ==
  ASSUME NEW T, T \subseteq Nat, T # {}
  PROVE  \E x \in T : \A y \in T : x <= y
<1> DEFINE R == OpToRel(<, Nat)
<1>1. \A x, y \in Nat : y < x => <<y, x>> \in R
  BY DEF OpToRel
<1>2. IsWellFoundedOn(R, Nat)
  BY NatLessThanWellFounded
<1> HIDE DEF R
<1>3. PICK x \in T : \A y \in T : ~(<<y, x>> \in R)
  BY <1>2, WFMin
<1>4. ASSUME NEW y \in T PROVE x <= y
  <2>1. x \in Nat /\ y \in Nat
    OBVIOUS
  <2>2. ~(y < x)
    BY <1>1, <1>3, <2>1
  <2> QED
    BY <2>1, <2>2
<1> QED
  BY <1>4

\* A set that contains 0, and with a number the next one, contains all of them.
LEMMA Induction ==
  ASSUME NEW T, 0 \in T, \A n \in Nat : n \in T => n + 1 \in T
  PROVE  \A n \in Nat : n \in T
<1> SUFFICES ASSUME Nat \ T # {} PROVE FALSE
  OBVIOUS
<1>1. PICK x \in Nat \ T : \A y \in Nat \ T : x <= y
  BY LeastNumber
<1>2. x # 0 /\ x - 1 \in Nat
  BY <1>1
<1>3. x - 1 \in T
  BY <1>1, <1>2
<1> QED
  BY <1>1, <1>2, <1>3

\* A non-empty set of natural numbers that are at most n has a greatest element.
LEMMA GreatestNumber ==
  ASSUME NEW T, T \subseteq Nat, T # {}, NEW n \in Nat, \A x \in T : x <= n
  PROVE  \E x \in T : \A y \in T : y <= x
<1> DEFINE D == {n - x : x \in T}
<1>1. D \subseteq Nat
  <2>1. ASSUME NEW x \in T PROVE n - x \in Nat
    <3>1. x \in Nat /\ x <= n
      OBVIOUS
    <3> QED
      BY <3>1
  <2> QED
    BY <2>1
<1>2. D # {}
  <2>1. PICK x \in T : TRUE
    OBVIOUS
  <2>2. n - x \in D
    OBVIOUS
  <2> QED
    BY <2>2
<1>3. PICK d \in D : \A y \in D : d <= y
  BY <1>1, <1>2, LeastNumber
<1>4. PICK x \in T : d = n - x
  BY <1>3
<1>5. \A y \in T : n - x <= n - y
  BY <1>3, <1>4
<1> QED
  BY <1>4, <1>5

-----------------------------------------------------------------------------
\* f[i] concatenates the first i parts.
Flattens(f, parts) ==
  f = [i \in 1..Len(parts) |-> IF i = 1 THEN parts[i] ELSE f[i - 1] \o parts[i]]

\* Each concatenation is the one before and one part more.
LEMMA FlattensAt ==
  ASSUME NEW f, NEW parts, Flattens(f, parts), NEW i \in 1..Len(parts)
  PROVE  f[i] = IF i = 1 THEN parts[i] ELSE f[i - 1] \o parts[i]
<1> DEFINE h == [j \in 1..Len(parts) |-> IF j = 1 THEN parts[j] ELSE f[j - 1] \o parts[j]]
<1>1. f = h
  BY DEF Flattens
<1>2. h[i] = IF i = 1 THEN parts[i] ELSE f[i - 1] \o parts[i]
  OBVIOUS
<1> QED
  BY <1>1, <1>2

\* Such an f exists, of sequences of what the parts are sequences of.
LEMMA FlattensExists ==
  ASSUME NEW S, NEW parts \in Seq(Seq(S))
  PROVE  \E f \in [1..Len(parts) -> Seq(S)] : Flattens(f, parts)
<1> DEFINE Upto(n) == \E f \in [1..n -> Seq(S)] :
             f = [i \in 1..n |-> IF i = 1 THEN parts[i] ELSE f[i - 1] \o parts[i]]
           T == {n \in Nat : n <= Len(parts) => Upto(n)}
<1>1. Upto(0)
  <2>1. [i \in 1..0 |-> <<>>] \in [1..0 -> Seq(S)]
    OBVIOUS
  <2>2. Upto(0)
    <3> DEFINE f == [i \in 1..0 |-> <<>>]
    <3>1. f = [i \in 1..0 |-> IF i = 1 THEN parts[i] ELSE f[i - 1] \o parts[i]]
      OBVIOUS
    <3> QED
      BY <2>1, <3>1
  <2> QED
    BY <2>2
<1>2. ASSUME NEW n \in Nat, Upto(n), n + 1 <= Len(parts) PROVE Upto(n + 1)
  <2>1. PICK f \in [1..n -> Seq(S)] :
          f = [i \in 1..n |-> IF i = 1 THEN parts[i] ELSE f[i - 1] \o parts[i]]
    BY <1>2
  <2>2. \A i \in 1..(n + 1) : parts[i] \in Seq(S)
    BY <1>2
  <2> DEFINE last == IF n = 0 THEN parts[1] ELSE f[n] \o parts[n + 1]
             h == [i \in 1..(n + 1) |-> IF i <= n THEN f[i] ELSE last]
  <2>3. last \in Seq(S)
    <3>1. CASE n = 0
      BY <2>2, <3>1
    <3>2. CASE n # 0
      <4>1. f[n] \in Seq(S) /\ parts[n + 1] \in Seq(S)
        BY <2>1, <2>2, <3>2
      <4> QED
        BY <4>1, <3>2
    <3> QED
      BY <3>1, <3>2
  <2> HIDE DEF last
  <2>4. h \in [1..(n + 1) -> Seq(S)]
    BY <2>1, <2>3
  <2>5. ASSUME NEW i \in 1..(n + 1)
        PROVE  h[i] = IF i = 1 THEN parts[i] ELSE h[i - 1] \o parts[i]
    <3>1. CASE i <= n
      <4>1. i \in 1..n /\ h[i] = f[i]
        BY <3>1
      <4>2. f[i] = IF i = 1 THEN parts[i] ELSE f[i - 1] \o parts[i]
        BY <2>1, <4>1
      <4>3. i # 1 => h[i - 1] = f[i - 1]
        BY <3>1
      <4> QED
        BY <4>1, <4>2, <4>3
    <3>2. CASE i = n + 1
      <4>1. h[i] = last
        BY <3>2
      <4>2. i # 1 => h[i - 1] = f[n]
        BY <3>2
      <4> QED
        BY <3>2, <4>1, <4>2 DEF last
    <3> QED
      BY <3>1, <3>2
  <2>6. h = [i \in 1..(n + 1) |-> IF i = 1 THEN parts[i] ELSE h[i - 1] \o parts[i]]
    <3> HIDE DEF h
    <3> QED
      BY <2>4, <2>5
  <2> HIDE DEF h
  <2> QED
    BY <2>4, <2>6
<1> HIDE DEF Upto
<1>3. ASSUME NEW n \in Nat, n \in T PROVE n + 1 \in T
  BY <1>2, <1>3
<1>4. 0 \in T
  BY <1>1
<1> HIDE DEF T
<1>5. Len(parts) \in T /\ Len(parts) \in Nat
  BY <1>3, <1>4, Induction
<1>6. Upto(Len(parts))
  BY <1>5 DEF T
<1> QED
  BY <1>6 DEF Upto, Flattens

\* Two sequences are the same up to n.
Agree(f, g, n) == \A i \in 1..n : f[i] = g[i]

\* Two of them agree on the parts they share.
LEMMA FlattensUnique ==
  ASSUME NEW p, NEW q, NEW f, NEW g, Flattens(f, p), Flattens(g, q),
         Len(p) \in Nat, Len(q) \in Nat, Len(p) <= Len(q), Agree(p, q, Len(p))
  PROVE  Agree(f, g, Len(p))
<1> USE DEF Agree
<1> DEFINE T == {n \in Nat : n + 1 <= Len(p) => f[n + 1] = g[n + 1]}
<1>1. \A i \in 1..Len(p) :
        /\ f[i] = IF i = 1 THEN p[i] ELSE f[i - 1] \o p[i]
        /\ g[i] = IF i = 1 THEN p[i] ELSE g[i - 1] \o p[i]
  <2>1. ASSUME NEW i \in 1..Len(p)
        PROVE  f[i] = IF i = 1 THEN p[i] ELSE f[i - 1] \o p[i]
    BY FlattensAt
  <2>2. ASSUME NEW i \in 1..Len(p)
        PROVE  g[i] = IF i = 1 THEN p[i] ELSE g[i - 1] \o p[i]
    <3>1. i \in 1..Len(q) /\ q[i] = p[i]
      OBVIOUS
    <3>2. g[i] = IF i = 1 THEN q[i] ELSE g[i - 1] \o q[i]
      BY <3>1, FlattensAt
    <3> QED
      BY <3>1, <3>2
  <2> QED
    BY <2>1, <2>2
<1>2. 0 \in T
  BY <1>1
<1>3. ASSUME NEW n \in Nat, n \in T PROVE n + 1 \in T
  <2> SUFFICES ASSUME n + 2 <= Len(p) PROVE f[n + 2] = g[n + 2]
    OBVIOUS
  <2>1. f[n + 1] = g[n + 1]
    BY <1>3
  <2>2. n + 2 \in 1..Len(p) /\ n + 2 # 1 /\ (n + 2) - 1 = n + 1
    OBVIOUS
  <2> QED
    BY <1>1, <2>1, <2>2
<1> HIDE DEF T
<1>4. \A n \in Nat : n \in T
  BY <1>2, <1>3, Induction
<1>5. ASSUME NEW i \in 1..Len(p) PROVE f[i] = g[i]
  <2>1. i - 1 \in T /\ (i - 1) + 1 = i
    BY <1>4
  <2> QED
    BY <2>1 DEF T
<1> QED
  BY <1>5

\* What FlattenSeq is: the last of them.
LEMMA FlattenIs ==
  ASSUME NEW S, NEW parts \in Seq(Seq(S)), parts # <<>>
  PROVE  \E f \in [1..Len(parts) -> Seq(S)] :
           Flattens(f, parts) /\ FlattenSeq(parts) = f[Len(parts)]
<1>1. PICK f \in [1..Len(parts) -> Seq(S)] : Flattens(f, parts)
  BY FlattensExists
<1> DEFINE g == CHOOSE g : Flattens(g, parts)
<1>2. Flattens(g, parts)
  BY <1>1
<1>3. FlattenSeq(parts) = g[Len(parts)]
  <2>1. Len(parts) # 0
    OBVIOUS
  <2> QED
    BY <2>1 DEF FlattenSeq, Flattens
<1>4. g[Len(parts)] = f[Len(parts)]
  <2> HIDE DEF g
  <2>1. Len(parts) \in Nat /\ Len(parts) \in 1..Len(parts) /\ Agree(parts, parts, Len(parts))
    BY DEF Agree
  <2>2. Agree(g, f, Len(parts))
    BY <1>1, <1>2, <2>1, FlattensUnique
  <2> QED
    BY <2>1, <2>2 DEF Agree
<1> QED
  BY <1>1, <1>3, <1>4

\* Of no part there is nothing.
LEMMA FlattenEmpty == FlattenSeq(<<>>) = <<>>
BY DEF FlattenSeq

\* The concatenation of sequences over a set is one.
LEMMA FlattenType ==
  ASSUME NEW S, NEW parts \in Seq(Seq(S))
  PROVE  FlattenSeq(parts) \in Seq(S)
<1>1. CASE parts = <<>>
  <2>1. <<>> \in Seq(S)
    OBVIOUS
  <2> QED
    BY <1>1, <2>1, FlattenEmpty
<1>2. CASE parts # <<>>
  <2>1. Len(parts) \in 1..Len(parts)
    BY <1>2
  <2>2. PICK f \in [1..Len(parts) -> Seq(S)] : FlattenSeq(parts) = f[Len(parts)]
    BY <1>2, FlattenIs
  <2> QED
    BY <2>1, <2>2
<1> QED
  BY <1>1, <1>2

\* One more part comes last.
LEMMA FlattenLonger ==
  ASSUME NEW S, NEW p \in Seq(Seq(S)), NEW q \in Seq(Seq(S)),
         Len(q) = Len(p) + 1, \A i \in 1..Len(p) : p[i] = q[i]
  PROVE  FlattenSeq(q) = FlattenSeq(p) \o q[Len(q)]
<1>1. Len(p) \in Nat /\ Len(q) \in 1..Len(q) /\ Len(q) - 1 = Len(p) /\ q # <<>>
  OBVIOUS
<1>2. PICK g : Flattens(g, q) /\ FlattenSeq(q) = g[Len(q)]
  BY <1>1, FlattenIs
<1>3. g[Len(q)] = IF Len(q) = 1 THEN q[Len(q)] ELSE g[Len(q) - 1] \o q[Len(q)]
  BY <1>1, <1>2, FlattensAt
<1>4. CASE p = <<>>
  <2>1. Len(q) = 1 /\ q[Len(q)] \in Seq(S)
    BY <1>1, <1>4
  <2>2. <<>> \o q[Len(q)] = q[Len(q)]
    BY <2>1
  <2> QED
    BY <1>2, <1>3, <1>4, <2>1, <2>2, FlattenEmpty
<1>5. CASE p # <<>>
  <2>1. PICK f : Flattens(f, p) /\ FlattenSeq(p) = f[Len(p)]
    BY <1>5, FlattenIs
  <2>2. Len(p) \in Nat /\ Len(q) \in Nat /\ Len(p) <= Len(q)
    BY <1>1
  <2>3. Agree(p, q, Len(p))
    BY DEF Agree
  <2>4. Agree(f, g, Len(p))
    BY <1>2, <2>1, <2>2, <2>3, FlattensUnique
  <2>5. Len(p) \in 1..Len(p) /\ Len(q) # 1
    BY <1>1, <1>5
  <2> QED
    BY <1>1, <1>2, <1>3, <2>1, <2>4, <2>5 DEF Agree
<1> QED
  BY <1>4, <1>5

\* The same with Append.
LEMMA FlattenAppend ==
  ASSUME NEW S, NEW parts \in Seq(Seq(S)), NEW part \in Seq(S)
  PROVE  FlattenSeq(Append(parts, part)) = FlattenSeq(parts) \o part
<1> DEFINE more == Append(parts, part)
<1>1. /\ more \in Seq(Seq(S)) /\ Len(more) = Len(parts) + 1
      /\ more[Len(more)] = part /\ \A i \in 1..Len(parts) : parts[i] = more[i]
  BY AppendProperties
<1> HIDE DEF more
<1>2. FlattenSeq(more) = FlattenSeq(parts) \o part
  BY <1>1, FlattenLonger
<1> QED
  BY <1>2 DEF more

\* The first part comes first.
Starts(s, part, S) == \E rest \in Seq(S) : s = part \o rest

\* A part alone starts with itself.
LEMMA StartsItself ==
  ASSUME NEW S, NEW part \in Seq(S)
  PROVE  Starts(part, part, S)
<1>1. part \o <<>> = part /\ <<>> \in Seq(S)
  OBVIOUS
<1> QED
  BY <1>1 DEF Starts

\* What comes behind does not matter.
LEMMA StartsLonger ==
  ASSUME NEW S, NEW part \in Seq(S), NEW s, Starts(s, part, S), NEW more \in Seq(S)
  PROVE  Starts(s \o more, part, S)
<1>1. PICK rest \in Seq(S) : s = part \o rest
  BY DEF Starts
<1>2. (part \o rest) \o more = part \o (rest \o more)
  BY ConcatAssociative
<1>3. rest \o more \in Seq(S)
  OBVIOUS
<1> QED
  BY <1>1, <1>2, <1>3 DEF Starts

\* A concatenation starts with its first part.
LEMMA FlattenFirst ==
  ASSUME NEW S, NEW parts \in Seq(Seq(S)), parts # <<>>
  PROVE  Starts(FlattenSeq(parts), parts[1], S)
<1>1. PICK f \in [1..Len(parts) -> Seq(S)] :
        Flattens(f, parts) /\ FlattenSeq(parts) = f[Len(parts)]
  BY FlattenIs
<1> DEFINE T == {n \in Nat : n + 1 <= Len(parts) => Starts(f[n + 1], parts[1], S)}
<1>2. Len(parts) \in Nat /\ Len(parts) >= 1
  OBVIOUS
<1>3. \A i \in 1..Len(parts) : parts[i] \in Seq(S)
  OBVIOUS
<1>4. parts[1] \in Seq(S)
  BY <1>2, <1>3
<1>5. \A i \in 1..Len(parts) : f[i] = IF i = 1 THEN parts[i] ELSE f[i - 1] \o parts[i]
  BY <1>1, FlattensAt
<1>6. 0 \in T
  <2>1. f[1] = parts[1]
    <3>1. 1 \in 1..Len(parts)
      BY <1>2
    <3> QED
      BY <1>5, <3>1
  <2> QED
    BY <2>1, <1>4, StartsItself
<1>7. ASSUME NEW n \in Nat, n \in T PROVE n + 1 \in T
  <2>1. ASSUME n + 2 <= Len(parts) PROVE Starts(f[n + 2], parts[1], S)
    <3>1. Starts(f[n + 1], parts[1], S)
      BY <1>7, <2>1
    <3>2. n + 2 \in 1..Len(parts) /\ n + 2 # 1 /\ (n + 2) - 1 = n + 1
      BY <2>1, <1>2
    <3>3. parts[n + 2] \in Seq(S) /\ f[n + 2] = f[n + 1] \o parts[n + 2]
      BY <1>5, <1>3, <3>2
    <3> QED
      BY <1>4, <3>1, <3>3, StartsLonger
  <2>2. n + 1 \in Nat /\ (n + 1) + 1 = n + 2
    OBVIOUS
  <2> QED
    BY <2>1, <2>2
<1> HIDE DEF T
<1>8. Len(parts) - 1 \in T
  <2>1. Len(parts) - 1 \in Nat
    BY <1>2
  <2> QED
    BY <2>1, <1>6, <1>7, Induction
<1>9. Len(parts) - 1 \in Nat /\ (Len(parts) - 1) + 1 = Len(parts)
  BY <1>2
<1> QED
  BY <1>1, <1>8, <1>9 DEF T

\* Nothing makes nothing.
LEMMA FlattenNothing ==
  ASSUME NEW parts \in Seq({<<>>})
  PROVE  FlattenSeq(parts) = <<>>
<1>1. <<>> \in Seq({})
  OBVIOUS
<1>2. {<<>>} \subseteq Seq({})
  BY <1>1
<1>3. parts \in Seq(Seq({}))
  BY <1>2, SeqMonotonic
<1>4. FlattenSeq(parts) \in Seq({})
  BY <1>3, FlattenType
<1> QED
  BY <1>4
===============================================================================
