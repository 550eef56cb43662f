------------------------ MODULE TradeFeedback_proofs ------------------------
(***************************************************************************)
(* Proofs about TradeFeedback: what sums and drawdowns come to, whatever   *)
(* the order trades are taken in, and the invariant behind the rows and    *)
(* the advice.                                                             *)
(***************************************************************************)
EXTENDS TradeFeedback, SequenceTheorems, FiniteSetTheorems, WellFoundedInduction, TLAPS

-----------------------------------------------------------------------------
\* Sums over sets.  There is no induction theorem to cite that does not take an
\* operator: well-foundedness gives induction for sets.

\* Induction along the subsets of a finite set: C holds them all if it holds
\* the empty one and every other of which it holds what is left when any one
\* element is taken away.
LEMMA SubsetsIn ==
    ASSUME NEW S, IsFiniteSet(S), NEW C, {} \in C,
           \A T \in SUBSET S : T # {} /\ (\A x \in T : (T \ {x}) \in C) => T \in C
    PROVE  SUBSET S \subseteq C
  <1> SUFFICES ASSUME ~(SUBSET S \subseteq C) PROVE FALSE
    OBVIOUS
  <1> DEFINE R == StrictSubsetOrdering(S)
             bad == (SUBSET S) \ C
  <1>1. IsWellFoundedOn(R, SUBSET S)
    <2>1. IsWellFoundedOn(R, FiniteSubsetsOf(S))
      BY FS_StrictSubsetOrderingWellFounded
    <2>2. FiniteSubsetsOf(S) = SUBSET S
      BY FS_FiniteSubsetsOfFinite
    <2> HIDE DEF R
    <2> QED
      BY <2>1, <2>2
  <1>2. PICK T \in bad : \A U \in bad : ~(<<U, T>> \in R)
    <2>1. bad # {} /\ bad \subseteq SUBSET S
      OBVIOUS
    <2> HIDE DEF R, bad
    <2> QED
      BY <1>1, <2>1, WFMin
  <1>3. T \in SUBSET S /\ T \notin C /\ T # {}
    <2> HIDE DEF R
    <2> QED
      BY <1>2
  <1>4. ASSUME NEW x \in T PROVE (T \ {x}) \in C
    <2>1. <<T \ {x}, T>> \in R /\ (T \ {x}) \in SUBSET S
      BY <1>3 DEF StrictSubsetOrdering
    <2> QED
      BY <1>2, <2>1
  <1> QED
    BY <1>3, <1>4

\* f adds up the values p over the subsets of S.
AddsUp(f, p, S) ==
    /\ f \in [SUBSET S -> Int]
    /\ f[{}] = 0
    /\ \A T \in SUBSET S : \A x \in T : f[T] = f[T \ {x}] + p[x]

\* There is something that adds up any values over a finite set.
LEMMA SumExists ==
    ASSUME NEW S, IsFiniteSet(S), NEW p, \A x \in S : p[x] \in Int
    PROVE  \E f : AddsUp(f, p, S)
  <1> DEFINE C == {U \in SUBSET S : \E f : AddsUp(f, p, U)}
  <1>1. {} \in C
    <2> DEFINE f == [T \in SUBSET {} |-> 0]
    <2>1. AddsUp(f, p, {})
      BY DEF AddsUp
    <2> QED
      BY <2>1
  <1>2. ASSUME NEW U \in SUBSET S, U # {}, \A x \in U : (U \ {x}) \in C PROVE U \in C
    <2>0. PICK x \in U : (U \ {x}) \in C
      BY <1>2
    <2>1. PICK f : AddsUp(f, p, U \ {x})
      BY <2>0
    <2> DEFINE g == [T \in SUBSET U |-> IF x \in T THEN f[T \ {x}] + p[x] ELSE f[T]]
    <2>2. \A T \in SUBSET U : f[T \ {x}] \in Int /\ (x \notin T => f[T] \in Int)
      BY <2>1 DEF AddsUp
    <2>3. g \in [SUBSET U -> Int] /\ g[{}] = 0
      BY <2>1, <2>2 DEF AddsUp
    <2>4. \A T \in SUBSET U : g[T] = IF x \in T THEN f[T \ {x}] + p[x] ELSE f[T]
      OBVIOUS
    <2> HIDE DEF g
    <2>6. ASSUME NEW T \in SUBSET U, NEW y \in T PROVE g[T] = g[T \ {y}] + p[y]
      <3>1. CASE y = x
        <4>1. x \in T /\ (T \ {x}) \in SUBSET U /\ x \notin T \ {x}
          BY <3>1
        <4>2. g[T] = g[T \ {x}] + p[x]
          BY <2>4, <4>1
        <4> QED
          BY <3>1, <4>2
      <3>2. CASE y # x /\ x \in T
        <4>1. (T \ {x}) \in SUBSET (U \ {x}) /\ y \in T \ {x} /\ (T \ {y}) \ {x} = (T \ {x}) \ {y}
          BY <3>2
        <4>2. g[T] = f[T \ {x}] + p[x] /\ g[T \ {y}] = f[(T \ {x}) \ {y}] + p[x]
          <5>1. (T \ {y}) \in SUBSET U /\ x \in T \ {y}
            BY <3>2
          <5> QED
            BY <2>4, <3>2, <4>1, <5>1
        <4>3. f[T \ {x}] = f[(T \ {x}) \ {y}] + p[y]
          BY <2>1, <4>1 DEF AddsUp
        <4>4. f[T \ {x}] \in Int /\ f[(T \ {x}) \ {y}] \in Int /\ p[x] \in Int /\ p[y] \in Int
          <5>1. (T \ {x}) \ {y} \in SUBSET (U \ {x})
            OBVIOUS
          <5> QED
            BY <2>1, <4>1, <5>1 DEF AddsUp
        <4> QED
          BY <4>2, <4>3, <4>4
      <3>3. CASE y # x /\ x \notin T
        <4>1. g[T] = f[T] /\ g[T \ {y}] = f[T \ {y}]
          <5>1. (T \ {y}) \in SUBSET U /\ x \notin T \ {y}
            BY <3>3
          <5> QED
            BY <2>4, <3>3, <5>1
        <4>2. T \in SUBSET (U \ {x})
          BY <3>3
        <4> QED
          BY <2>1, <4>1, <4>2 DEF AddsUp
      <3> QED
        BY <3>1, <3>2, <3>3
    <2>5. AddsUp(g, p, U)
      BY <2>3, <2>6 DEF AddsUp
    <2> QED
      BY <2>5
  <1>3. SUBSET S \subseteq C
    <2> HIDE DEF C
    <2> QED
      BY <1>1, <1>2, SubsetsIn
  <1> QED
    BY <1>3

\* g adds some element of a set to what it gives for the others.
TakesOne(g, p, S) ==
    /\ g[{}] = 0
    /\ \A T \in SUBSET S : T # {} => \E x \in T : g[T] = p[x] + g[T \ {x}]

\* What adds up the same values, whatever element is taken first, is equal.
LEMMA SumUnique ==
    ASSUME NEW S, IsFiniteSet(S), NEW p, NEW f, AddsUp(f, p, S),
           NEW g, TakesOne(g, p, S),
           \A x \in S : p[x] \in Int
    PROVE  g[S] = f[S]
  <1> DEFINE C == {T \in SUBSET S : g[T] = f[T]}
  <1>1. {} \in C
    BY DEF AddsUp, TakesOne
  <1>2. ASSUME NEW T \in SUBSET S, T # {}, \A x \in T : (T \ {x}) \in C PROVE T \in C
    <2>1. PICK x \in T : g[T] = p[x] + g[T \ {x}]
      BY <1>2 DEF TakesOne
    <2>2. g[T \ {x}] = f[T \ {x}] /\ f[T \ {x}] \in Int /\ p[x] \in Int
      BY <1>2 DEF AddsUp
    <2>3. f[T] = f[T \ {x}] + p[x]
      BY DEF AddsUp
    <2> QED
      BY <2>1, <2>2, <2>3
  <1>3. SUBSET S \subseteq C
    <2> HIDE DEF C
    <2> QED
      BY <1>1, <1>2, SubsetsIn
  <1> QED
    BY <1>3

\* Sum takes some trade at a time: it is what adds up their profits.
LEMMA SumIs ==
    ASSUME NEW S, IsFiniteSet(S), NEW p, NEW f, AddsUp(f, p, S),
           \A x \in S : p[x] \in Int /\ p[x] = x.profit
    PROVE  Sum(S) = f[S]
  <1> DEFINE Body(g) == [s \in SUBSET S |->
                           IF s = {} THEN 0
                           ELSE LET x == CHOOSE x \in s : TRUE
                                IN  (x.profit) + g[s \ {x}]]
             sum == CHOOSE g : g = Body(g)
  <1>1. Sum(S) = sum[S]
    BY DEF Sum, MapThenSumSet, MapThenFoldSet
  <1>2. \E g : g = Body(g)
    <2> DEFINE g == [s \in SUBSET S |-> f[s]]
    <2>1. ASSUME NEW s \in SUBSET S, s # {} PROVE g[s] = Body(g)[s]
      <3> DEFINE x == CHOOSE x \in s : TRUE
      <3>1. x \in s /\ x \in S /\ (s \ {x}) \in SUBSET S
        BY <2>1
      <3>2. Body(g)[s] = (x.profit) + g[s \ {x}]
        BY <2>1
      <3> HIDE DEF x
      <3>3. g[s] = f[s] /\ g[s \ {x}] = f[s \ {x}] /\ f[s] \in Int /\ f[s \ {x}] \in Int
        BY <3>1 DEF AddsUp
      <3>4. f[s] = f[s \ {x}] + p[x]
        BY <3>1 DEF AddsUp
      <3>5. p[x] \in Int /\ p[x] = x.profit
        BY <3>1
      <3> HIDE DEF Body, g
      <3> QED
        BY <3>2, <3>3, <3>4, <3>5
    <2>2. g[{}] = Body(g)[{}]
      BY DEF AddsUp
    <2>3. \A s \in SUBSET S : g[s] = Body(g)[s]
      <3> HIDE DEF Body, g
      <3> QED
        BY <2>1, <2>2
    <2>4. g = Body(g)
      BY <2>3
    <2> QED
      BY <2>4
  <1>3. sum = Body(sum)
    <2> HIDE DEF Body
    <2> QED
      BY <1>2
  <1> HIDE DEF sum
  <1>4. sum[{}] = 0
    BY <1>3
  <1>5. ASSUME NEW T \in SUBSET S, T # {} PROVE \E x \in T : sum[T] = p[x] + sum[T \ {x}]
    <2> DEFINE x == CHOOSE x \in T : TRUE
    <2>1. x \in T /\ p[x] = x.profit
      BY <1>5
    <2>2. sum[T] = (x.profit) + sum[T \ {x}]
      BY <1>3, <1>5
    <2> HIDE DEF x
    <2> QED
      BY <2>1, <2>2
  <1>6. sum[S] = f[S]
    <2>1. TakesOne(sum, p, S)
      BY <1>4, <1>5 DEF TakesOne
    <2>2. \A x \in S : p[x] \in Int
      OBVIOUS
    <2> QED
      BY <2>1, <2>2, SumUnique
  <1> QED
    BY <1>1, <1>6

\* SumOfRows likewise.
LEMMA SumOfRowsIs ==
    ASSUME NEW S, IsFiniteSet(S), NEW p, NEW f, AddsUp(f, p, S),
           \A x \in S : p[x] \in Int /\ p[x] = x.of.profit + x.of.loss
    PROVE  SumOfRows(S) = f[S]
  <1> DEFINE Body(g) == [s \in SUBSET S |->
                           IF s = {} THEN 0
                           ELSE LET x == CHOOSE x \in s : TRUE
                                IN  (x.of.profit + x.of.loss) + g[s \ {x}]]
             sum == CHOOSE g : g = Body(g)
  <1>1. SumOfRows(S) = sum[S]
    BY DEF SumOfRows, MapThenSumSet, MapThenFoldSet
  <1>2. \E g : g = Body(g)
    <2> DEFINE g == [s \in SUBSET S |-> f[s]]
    <2>1. ASSUME NEW s \in SUBSET S, s # {} PROVE g[s] = Body(g)[s]
      <3> DEFINE x == CHOOSE x \in s : TRUE
      <3>1. x \in s /\ x \in S /\ (s \ {x}) \in SUBSET S
        BY <2>1
      <3>2. Body(g)[s] = (x.of.profit + x.of.loss) + g[s \ {x}]
        BY <2>1
      <3> HIDE DEF x
      <3>3. g[s] = f[s] /\ g[s \ {x}] = f[s \ {x}] /\ f[s] \in Int /\ f[s \ {x}] \in Int
        BY <3>1 DEF AddsUp
      <3>4. f[s] = f[s \ {x}] + p[x]
        BY <3>1 DEF AddsUp
      <3>5. p[x] \in Int /\ p[x] = x.of.profit + x.of.loss
        BY <3>1
      <3> HIDE DEF Body, g
      <3> QED
        BY <3>2, <3>3, <3>4, <3>5
    <2>2. g[{}] = Body(g)[{}]
      BY DEF AddsUp
    <2>3. \A s \in SUBSET S : g[s] = Body(g)[s]
      <3> HIDE DEF Body, g
      <3> QED
        BY <2>1, <2>2
    <2>4. g = Body(g)
      BY <2>3
    <2> QED
      BY <2>4
  <1>3. sum = Body(sum)
    <2> HIDE DEF Body
    <2> QED
      BY <1>2
  <1> HIDE DEF sum
  <1>4. sum[{}] = 0
    BY <1>3
  <1>5. ASSUME NEW T \in SUBSET S, T # {} PROVE \E x \in T : sum[T] = p[x] + sum[T \ {x}]
    <2> DEFINE x == CHOOSE x \in T : TRUE
    <2>1. x \in T /\ p[x] = x.of.profit + x.of.loss
      BY <1>5
    <2>2. sum[T] = (x.of.profit + x.of.loss) + sum[T \ {x}]
      BY <1>3, <1>5
    <2> HIDE DEF x
    <2> QED
      BY <2>1, <2>2
  <1>6. sum[S] = f[S]
    <2>1. TakesOne(sum, p, S)
      BY <1>4, <1>5 DEF TakesOne
    <2>2. \A x \in S : p[x] \in Int
      OBVIOUS
    <2> QED
      BY <2>1, <2>2, SumUnique
  <1> QED
    BY <1>1, <1>6

\* Sum adds up what the trades of S brought, whatever their order.
SumAdds(S) ==
    /\ Sum({}) = 0
    /\ \A T \in SUBSET S : Sum(T) \in Int
    /\ \A T \in SUBSET S : \A x \in T : Sum(T) = Sum(T \ {x}) + x.profit

RowsAdd(S) ==
    /\ SumOfRows({}) = 0
    /\ \A T \in SUBSET S : SumOfRows(T) \in Int
    /\ \A T \in SUBSET S : \A x \in T : SumOfRows(T) = SumOfRows(T \ {x}) + (x.of.profit + x.of.loss)

\* A part of what adds up adds up.
LEMMA AddsUpPart ==
    ASSUME NEW S, IsFiniteSet(S), NEW p, NEW f, AddsUp(f, p, S), NEW T \in SUBSET S
    PROVE  IsFiniteSet(T) /\ AddsUp([U \in SUBSET T |-> f[U]], p, T)
  <1>1. IsFiniteSet(T)
    BY FS_Subset
  <1> DEFINE h == [U \in SUBSET T |-> f[U]]
  <1>2. h \in [SUBSET T -> Int] /\ h[{}] = 0
    BY DEF AddsUp
  <1>3. ASSUME NEW U \in SUBSET T, NEW x \in U PROVE h[U] = h[U \ {x}] + p[x]
    <2>1. h[U] = f[U] /\ h[U \ {x}] = f[U \ {x}] /\ U \in SUBSET S
      OBVIOUS
    <2> HIDE DEF h
    <2> QED
      BY <2>1 DEF AddsUp
  <1> HIDE DEF h
  <1>4. AddsUp(h, p, T)
    BY <1>2, <1>3 DEF AddsUp
  <1> QED
    BY <1>1, <1>4 DEF h

\* Sum and SumOfRows can be told by any element and the rest.
LEMMA SumOfTrades ==
    ASSUME NEW S, IsFiniteSet(S), \A t \in S : t.profit \in Int
    PROVE  SumAdds(S)
  <1> DEFINE p == [t \in S |-> t.profit]
  <1>1. \A t \in S : p[t] \in Int /\ p[t] = t.profit
    OBVIOUS
  <1> HIDE DEF p
  <1>2. PICK f : AddsUp(f, p, S)
    BY <1>1, SumExists
  <1>3. ASSUME NEW T \in SUBSET S PROVE Sum(T) = f[T]
    <2> DEFINE h == [U \in SUBSET T |-> f[U]]
    <2>1. IsFiniteSet(T) /\ AddsUp(h, p, T)
      BY <1>2, AddsUpPart
    <2>2. h[T] = f[T]
      OBVIOUS
    <2>3. \A x \in T : p[x] \in Int /\ p[x] = x.profit
      BY <1>1
    <2> HIDE DEF h
    <2>4. Sum(T) = h[T]
      BY <2>1, <2>3, SumIs
    <2> QED
      BY <2>2, <2>4
  <1> QED
    BY <1>1, <1>2, <1>3 DEF AddsUp, SumAdds

LEMMA SumOfStrategies ==
    ASSUME NEW S, IsFiniteSet(S), \A t \in S : t.of.profit + t.of.loss \in Int
    PROVE  RowsAdd(S)
  <1> DEFINE p == [t \in S |-> t.of.profit + t.of.loss]
  <1>1. \A t \in S : p[t] \in Int /\ p[t] = t.of.profit + t.of.loss
    OBVIOUS
  <1> HIDE DEF p
  <1>2. PICK f : AddsUp(f, p, S)
    BY <1>1, SumExists
  <1>3. ASSUME NEW T \in SUBSET S PROVE SumOfRows(T) = f[T]
    <2> DEFINE h == [U \in SUBSET T |-> f[U]]
    <2>1. IsFiniteSet(T) /\ AddsUp(h, p, T)
      BY <1>2, AddsUpPart
    <2>2. h[T] = f[T]
      OBVIOUS
    <2>3. \A x \in T : p[x] \in Int /\ p[x] = x.of.profit + x.of.loss
      BY <1>1
    <2> HIDE DEF h
    <2>4. SumOfRows(T) = h[T]
      BY <2>1, <2>3, SumOfRowsIs
    <2> QED
      BY <2>2, <2>4
  <1> QED
    BY <1>1, <1>2, <1>3 DEF AddsUp, RowsAdd

Losses(T) == {t \in T : t.profit < 0}

\* What was won and what was lost make the sum: a trade that broke even adds nothing.
LEMMA WonAndLost ==
    ASSUME NEW S, IsFiniteSet(S), \A t \in S : t.profit \in Int, NEW T \in SUBSET S
    PROVE  /\ GrossProfit(T) \in Int /\ GrossProfit(T) >= 0
           /\ GrossLoss(T) \in Int /\ GrossLoss(T) <= 0
           /\ Sum(T) = GrossProfit(T) + GrossLoss(T)
  <1>0. SumAdds(S)
    BY SumOfTrades
  <1> DEFINE C == {U \in SUBSET S :
                     /\ Sum(Wins(U)) >= 0
                     /\ Sum(Losses(U)) <= 0
                     /\ Sum(U) = Sum(Wins(U)) + Sum(Losses(U))}
  <1>1. {} \in C
    <2>1. Wins({}) = {} /\ Losses({}) = {}
      BY DEF Wins, Losses
    <2>2. Sum(Wins({})) = 0 /\ Sum(Losses({})) = 0 /\ Sum({}) = 0
      BY <1>0, <2>1, Zenon DEF SumAdds
    <2> QED
      BY <2>2
  <1>2. ASSUME NEW U \in SUBSET S, U # {}, \A x \in U : (U \ {x}) \in C PROVE U \in C
    <2>1. PICK x \in U : TRUE
      BY <1>2
    <2> DEFINE V == U \ {x}
    <2>2. V \in C /\ V \in SUBSET S
      BY <1>2
    <2>3. Wins(U) \in SUBSET S /\ Losses(U) \in SUBSET S /\ Wins(V) \in SUBSET S /\ Losses(V) \in SUBSET S
      BY DEF Wins, Losses
    <2>4. Sum(U) = Sum(V) + x.profit /\ x.profit \in Int
      BY <1>0 DEF SumAdds
    <2>5. /\ Sum(Wins(U)) = IF x.profit > 0 THEN Sum(Wins(V)) + x.profit ELSE Sum(Wins(V))
          /\ Sum(Losses(U)) = IF x.profit < 0 THEN Sum(Losses(V)) + x.profit ELSE Sum(Losses(V))
      <3>1. CASE x.profit > 0
        <4>1. x \in Wins(U) /\ Wins(U) \ {x} = Wins(V) /\ Losses(U) = Losses(V)
          BY <3>1, <2>4 DEF Wins, Losses
        <4>2. Sum(Wins(U)) = Sum(Wins(U) \ {x}) + x.profit
          BY <1>0, <2>3, <4>1 DEF SumAdds
        <4>3. Sum(Wins(U) \ {x}) = Sum(Wins(V)) /\ Sum(Losses(U)) = Sum(Losses(V))
          BY <4>1, Zenon
        <4> HIDE DEF V
        <4> QED
          BY <2>4, <3>1, <4>2, <4>3
      <3>2. CASE x.profit < 0
        <4>1. x \in Losses(U) /\ Losses(U) \ {x} = Losses(V) /\ Wins(U) = Wins(V)
          BY <3>2, <2>4 DEF Wins, Losses
        <4>2. Sum(Losses(U)) = Sum(Losses(U) \ {x}) + x.profit
          BY <1>0, <2>3, <4>1 DEF SumAdds
        <4>3. Sum(Losses(U) \ {x}) = Sum(Losses(V)) /\ Sum(Wins(U)) = Sum(Wins(V))
          BY <4>1, Zenon
        <4> HIDE DEF V
        <4> QED
          BY <2>4, <3>2, <4>2, <4>3
      <3>3. CASE x.profit = 0
        <4>1. Wins(U) = Wins(V) /\ Losses(U) = Losses(V)
          BY <3>3 DEF Wins, Losses
        <4>2. Sum(Wins(U)) = Sum(Wins(V)) /\ Sum(Losses(U)) = Sum(Losses(V))
          BY <4>1, Zenon
        <4> HIDE DEF V
        <4> QED
          BY <3>3, <4>2
      <3> QED
        BY <2>4, <3>1, <3>2, <3>3
    <2>6. /\ Sum(Wins(V)) \in Int /\ Sum(Losses(V)) \in Int /\ Sum(V) \in Int
          /\ Sum(Wins(V)) >= 0 /\ Sum(Losses(V)) <= 0 /\ Sum(V) = Sum(Wins(V)) + Sum(Losses(V))
      BY <1>0, <2>2, <2>3 DEF SumAdds
    <2>7. Sum(Wins(U)) >= 0 /\ Sum(Losses(U)) <= 0 /\ Sum(U) = Sum(Wins(U)) + Sum(Losses(U))
      <3> HIDE DEF V
      <3> QED
        BY <2>4, <2>5, <2>6
    <2> QED
      BY <2>7
  <1>3. T \in C
    <2>1. SUBSET S \subseteq C
      <3> HIDE DEF C
      <3> QED
        BY <1>1, <1>2, SubsetsIn
    <2> HIDE DEF C
    <2> QED
      BY <2>1
  <1>4. Wins(T) \in SUBSET S /\ Losses(T) \in SUBSET S
    BY DEF Wins, Losses
  <1>5. GrossProfit(T) = Sum(Wins(T)) /\ GrossLoss(T) = Sum(Losses(T))
    BY DEF GrossProfit, GrossLoss, Losses
  <1> QED
    BY <1>0, <1>3, <1>4, <1>5 DEF SumAdds

\* Two sets of trades that share none bring what either brings.
LEMMA DisjointSum ==
    ASSUME NEW S, IsFiniteSet(S), \A t \in S : t.profit \in Int,
           NEW A \in SUBSET S, NEW B \in SUBSET S, A \cap B = {}
    PROVE  Sum(A \cup B) = Sum(A) + Sum(B)
  <1>0. SumAdds(S)
    BY SumOfTrades
  <1>1. IsFiniteSet(B)
    BY FS_Subset
  <1> DEFINE C == {U \in SUBSET B : Sum(A \cup U) = Sum(A) + Sum(U)}
  <1>2. {} \in C
    <2>1. A \cup {} = A
      OBVIOUS
    <2>2. Sum(A \cup {}) = Sum(A) /\ Sum({}) = 0 /\ Sum(A) \in Int
      BY <1>0, <2>1, Zenon DEF SumAdds
    <2>3. Sum(A \cup {}) = Sum(A) + Sum({})
      BY <2>2
    <2> QED
      BY <2>3
  <1>3. ASSUME NEW U \in SUBSET B, U # {}, \A x \in U : (U \ {x}) \in C PROVE U \in C
    <2>1. PICK x \in U : TRUE
      BY <1>3
    <2> DEFINE V == U \ {x}
    <2>2. Sum(A \cup V) = Sum(A) + Sum(V)
      BY <1>3
    <2>3. /\ x \in A \cup U /\ (A \cup U) \in SUBSET S /\ (A \cup U) \ {x} = A \cup V
          /\ U \in SUBSET S /\ V \in SUBSET S
      OBVIOUS
    <2>4. Sum(A \cup U) = Sum((A \cup U) \ {x}) + x.profit /\ Sum(U) = Sum(V) + x.profit
      BY <1>0, <2>3 DEF SumAdds
    <2>5. Sum((A \cup U) \ {x}) = Sum(A \cup V)
      BY <2>3, Zenon
    <2>6. Sum(A) \in Int /\ Sum(V) \in Int /\ x.profit \in Int
      BY <1>0, <2>3 DEF SumAdds
    <2>7. Sum(A \cup U) = Sum(A) + Sum(U)
      <3> HIDE DEF V
      <3> QED
        BY <2>2, <2>4, <2>5, <2>6
    <2> QED
      BY <2>7
  <1>4. B \in C
    <2> HIDE DEF C
    <2> QED
      BY <1>1, <1>2, <1>3, SubsetsIn
  <1> QED
    BY <1>4

RowsOfKeys(n, T, K) == {StrategyRow(n, T, k) : k \in K}

TradesOf(T, K) == {t \in T : t.key \in K}

\* The rows of a run that strategies get add up to what its trades brought.
LEMMA KeysAddUp ==
    ASSUME NEW n, NEW T, IsFiniteSet(T), \A t \in T : t.profit \in Int
    PROVE  SumOfRows({StrategyRow(n, T, k) : k \in KeysOf(T)}) = Sum(T)
  <1> DEFINE Row(k) == StrategyRow(n, T, k)
             keys == KeysOf(T)
             R == RowsOfKeys(n, T, keys)
             C == {K \in SUBSET keys : SumOfRows(RowsOfKeys(n, T, K)) = Sum(TradesOf(T, K))}
  <1>1. IsFiniteSet(keys)
    <2> DEFINE h == [t \in T |-> t.key]
    <2>1. h \in Surjection(T, keys)
      BY DEF KeysOf, Surjection
    <2> QED
      BY <2>1, FS_Surjection
  <1>2. IsFiniteSet(R)
    <2> DEFINE h == [k \in keys |-> Row(k)]
    <2>1. h \in Surjection(keys, R)
      BY DEF RowsOfKeys, Surjection
    <2> HIDE DEF keys, R, h
    <2> QED
      BY <1>1, <2>1, FS_Surjection
  <1>3. \A k : /\ Row(k).key = k
              /\ Row(k).of.profit = GrossProfit(TradesOf(T, {k}))
              /\ Row(k).of.loss = GrossLoss(TradesOf(T, {k}))
    <2>1. \A k : {t \in T : t.key = k} = TradesOf(T, {k})
      BY DEF TradesOf
    <2> QED
      BY <2>1 DEF StrategyRow, Totals
  <1>4. \A k : /\ Row(k).of.profit + Row(k).of.loss = Sum(TradesOf(T, {k}))
              /\ Sum(TradesOf(T, {k})) \in Int
    <2> TAKE k
    <2> DEFINE U == TradesOf(T, {k})
    <2>1. U \in SUBSET T
      BY DEF TradesOf
    <2>2. Row(k).of.profit = GrossProfit(U) /\ Row(k).of.loss = GrossLoss(U)
      BY <1>3
    <2> HIDE DEF Row, U
    <2>3. GrossProfit(U) + GrossLoss(U) = Sum(U) /\ Sum(U) \in Int
      BY <2>1, WonAndLost
    <2> QED
      BY <2>2, <2>3 DEF U
  <1>5. SumAdds(T) /\ RowsAdd(R)
    <2>1. \A row \in R : row.of.profit + row.of.loss \in Int
      <3>1. \A row \in R : \E k \in keys : row = Row(k)
        BY DEF RowsOfKeys
      <3> HIDE DEF Row, R, keys
      <3> QED
        BY <1>4, <3>1
    <2> HIDE DEF R, keys
    <2> QED
      BY <1>2, <2>1, SumOfTrades, SumOfStrategies
  <1>6. {} \in C
    <2>1. RowsOfKeys(n, T, {}) = {} /\ TradesOf(T, {}) = {}
      BY DEF RowsOfKeys, TradesOf
    <2>2. SumOfRows({}) = Sum({})
      BY <1>5 DEF SumAdds, RowsAdd
    <2> QED
      BY <2>1, <2>2, Zenon
  <1>7. ASSUME NEW K \in SUBSET keys, K # {}, \A k \in K : (K \ {k}) \in C PROVE K \in C
    <2>1. PICK k \in K : TRUE
      BY <1>7
    <2> DEFINE L == K \ {k}
    <2>2. SumOfRows(RowsOfKeys(n, T, L)) = Sum(TradesOf(T, L))
      BY <1>7
    <2>3. /\ Row(k) \in RowsOfKeys(n, T, K) /\ RowsOfKeys(n, T, K) \in SUBSET R
          /\ RowsOfKeys(n, T, K) \ {Row(k)} = RowsOfKeys(n, T, L)
      <3> HIDE DEF Row
      <3>1. RowsOfKeys(n, T, K) = {Row(j) : j \in K} /\ RowsOfKeys(n, T, L) = {Row(j) : j \in L}
        BY DEF RowsOfKeys, Row
      <3>2. R = {Row(j) : j \in keys}
        BY DEF RowsOfKeys, Row
      <3>3. \A j \in L : Row(j) # Row(k)
        BY <1>3
      <3> HIDE DEF R, keys
      <3>4. {Row(j) : j \in K} \ {Row(k)} = {Row(j) : j \in L}
        BY <3>3
      <3> HIDE DEF L
      <3> QED
        BY <3>1, <3>2, <3>4
    <2>4. SumOfRows(RowsOfKeys(n, T, K)) = SumOfRows(RowsOfKeys(n, T, L)) + Sum(TradesOf(T, {k}))
      <3>1. SumOfRows(RowsOfKeys(n, T, K)) = SumOfRows(RowsOfKeys(n, T, K) \ {Row(k)})
                                               + (Row(k).of.profit + Row(k).of.loss)
        <4> HIDE DEF Row, R
        <4> QED
          BY <1>5, <2>3 DEF RowsAdd
      <3>2. SumOfRows(RowsOfKeys(n, T, K) \ {Row(k)}) = SumOfRows(RowsOfKeys(n, T, L))
        BY <2>3, Zenon
      <3> HIDE DEF Row, L
      <3> QED
        BY <1>4, <3>1, <3>2
    <2>5. Sum(TradesOf(T, K)) = Sum(TradesOf(T, L)) + Sum(TradesOf(T, {k}))
      <3>1. /\ TradesOf(T, L) \in SUBSET T /\ TradesOf(T, {k}) \in SUBSET T
            /\ TradesOf(T, L) \cap TradesOf(T, {k}) = {}
            /\ TradesOf(T, K) = TradesOf(T, L) \cup TradesOf(T, {k})
        BY DEF TradesOf
      <3> DEFINE A == TradesOf(T, L)
                 B == TradesOf(T, {k})
      <3>2. Sum(A \cup B) = Sum(A) + Sum(B)
        <4>1. A \in SUBSET T /\ B \in SUBSET T /\ A \cap B = {}
          BY <3>1
        <4> HIDE DEF A, B
        <4> QED
          BY <4>1, DisjointSum
      <3>3. Sum(TradesOf(T, K)) = Sum(TradesOf(T, L) \cup TradesOf(T, {k}))
        BY <3>1, Zenon
      <3> QED
        BY <3>2, <3>3
    <2> HIDE DEF L
    <2> QED
      BY <2>2, <2>4, <2>5
  <1>8. keys \in C
    <2> HIDE DEF keys, C
    <2> QED
      BY <1>1, <1>6, <1>7, SubsetsIn
  <1>9. TradesOf(T, keys) = T /\ RowsOfKeys(n, T, keys) = {StrategyRow(n, T, k) : k \in KeysOf(T)}
    BY DEF TradesOf, KeysOf, RowsOfKeys
  <1> QED
    BY <1>8, <1>9

\* A trade adds to the losses what it lost.
LEMMA LossStep ==
    ASSUME NEW S, IsFiniteSet(S), \A t \in S : t.profit \in Int, NEW T \in SUBSET S, NEW x \in T
    PROVE  GrossLoss(T) = GrossLoss(T \ {x}) + (IF x.profit < 0 THEN x.profit ELSE 0)
  <1>0. SumAdds(S)
    BY SumOfTrades
  <1>1. Losses(T) \in SUBSET S /\ Losses(T \ {x}) \in SUBSET S /\ x.profit \in Int
    BY DEF Losses
  <1>2. Sum(Losses(T \ {x})) \in Int
    BY <1>0, <1>1 DEF SumAdds
  <1>3. CASE x.profit < 0
    <2>1. x \in Losses(T) /\ Losses(T) \ {x} = Losses(T \ {x})
      BY <1>3 DEF Losses
    <2>2. Sum(Losses(T)) = Sum(Losses(T) \ {x}) + x.profit
      BY <1>0, <1>1, <2>1 DEF SumAdds
    <2>3. Sum(Losses(T) \ {x}) = Sum(Losses(T \ {x}))
      BY <2>1, Zenon
    <2> QED
      BY <1>3, <2>2, <2>3 DEF GrossLoss, Losses
  <1>4. CASE ~(x.profit < 0)
    <2>1. Losses(T) = Losses(T \ {x})
      BY <1>4 DEF Losses
    <2>2. Sum(Losses(T)) = Sum(Losses(T \ {x}))
      BY <2>1, Zenon
    <2> QED
      BY <1>2, <1>4, <2>2 DEF GrossLoss, Losses
  <1> QED
    BY <1>3, <1>4

\* The rows come in some order, each once.
LEMMA RowsInOrder ==
    ASSUME NEW T, IsFiniteSet(T), NEW rows \in SetToSeqs(T)
    PROVE  /\ Cardinality(T) \in Nat
           /\ DOMAIN rows = 1 .. Cardinality(T) /\ Len(rows) = Cardinality(T)
           /\ \A i \in 1 .. Cardinality(T) : rows[i] \in T
           /\ \A i, j \in 1 .. Cardinality(T) : i # j => rows[i] # rows[j]
           /\ Range(rows) = T
  <1> DEFINE n == Cardinality(T)
  <1>1. n \in Nat
    BY FS_CardinalityType
  <1>2. rows \in [1 .. n -> T] /\ \A i, j \in 1 .. n : i # j => rows[i] # rows[j]
    BY DEF SetToSeqs
  <1>3. IsFiniteSet(1 .. n) /\ Cardinality(1 .. n) = n
    <2> HIDE DEF n
    <2>1. 1 \in Int /\ n \in Int
      BY <1>1
    <2> QED
      BY <1>1, <2>1, FS_Interval
  <1>4. Range(rows) = T
    <2>1. rows \in Injection(1 .. n, T)
      BY <1>2 DEF Injection, IsInjective
    <2>2. rows \in Surjection(1 .. n, T)
      BY <1>3, <2>1, FS_Injection
    <2> QED
      BY <2>2 DEF Surjection, Range
  <1>5. rows \in Seq(T) /\ Len(rows) = n
    BY <1>1, <1>2
  <1> QED
    BY <1>1, <1>2, <1>4, <1>5

-----------------------------------------------------------------------------
\* The drawdown.  MaxDrawdown folds over a sequence, from the greatest index down;
\* what follows says so of the first n numbers.

\* Induction: a set with 0 and the successors of its members holds all numbers.
LEMMA NatInSets ==
    ASSUME NEW S, 0 \in S, \A n \in Nat : n \in S => n + 1 \in S
    PROVE  Nat \subseteq S
  <1> SUFFICES ASSUME ~(Nat \subseteq S) PROVE FALSE
    OBVIOUS
  <1> DEFINE T == Nat \ S
  <1>1. PICK x \in T : \A y \in T : ~(<<y, x>> \in OpToRel(<, Nat))
    <2>1. T # {} /\ T \subseteq Nat
      OBVIOUS
    <2> QED
      BY <2>1, NatLessThanWellFounded, WFMin
  <1>2. \A y \in T : ~(y < x)
    BY <1>1 DEF OpToRel
  <1>3. x - 1 \in Nat /\ x - 1 \in S
    BY <1>2
  <1> QED
    BY <1>3

LEMMA HasMax ==
    ASSUME NEW s, NEW m \in s, \A x \in s : m >= x, s \subseteq Int
    PROVE  Max(s) = m
  <1>1. \E x \in s : \A y \in s : x >= y
    OBVIOUS
  <1>2. Max(s) \in s /\ \A y \in s : Max(s) >= y
    BY <1>1 DEF Max
  <1>3. Max(s) >= m /\ m >= Max(s) /\ Max(s) \in Int /\ m \in Int
    BY <1>2
  <1> QED
    BY <1>3

LEMMA SomeMax ==
    ASSUME NEW n \in Nat, NEW s \in SUBSET (1 .. n), s # {}
    PROVE  Max(s) \in s
  <1> DEFINE Bounded == {k \in Nat : \A t \in SUBSET (1 .. k) : t # {} =>
                                        \E m \in t : \A x \in t : m >= x}
  <1>1. 0 \in Bounded
    <2>1. \A t \in SUBSET (1 .. 0) : t = {}
      OBVIOUS
    <2> QED
      BY <2>1
  <1>2. ASSUME NEW k \in Nat, k \in Bounded PROVE k + 1 \in Bounded
    <2> SUFFICES ASSUME NEW t \in SUBSET (1 .. k + 1), t # {}
                 PROVE  \E m \in t : \A x \in t : m >= x
      OBVIOUS
    <2>1. CASE k + 1 \in t
      BY <2>1
    <2>2. CASE k + 1 \notin t
      <3>1. t \in SUBSET (1 .. k)
        BY <2>2
      <3> QED
        BY <1>2, <3>1
    <2> QED
      BY <2>1, <2>2
  <1>3. Nat \subseteq Bounded
    <2> HIDE DEF Bounded
    <2> QED
      BY <1>1, <1>2, NatInSets
  <1>4. n \in Bounded
    <2> HIDE DEF Bounded
    <2> QED
      BY <1>3
  <1>5. PICK m \in s : \A x \in s : m >= x
    BY <1>4
  <1>6. s \subseteq Int
    OBVIOUS
  <1> QED
    BY <1>5, <1>6, HasMax

\* The recursion of MapThenFoldSet, over the first n numbers from the greatest
\* down, has a solution.
FoldsTo(g, n, base, step) ==
    \A s \in SUBSET (1 .. n) :
       g[s] = IF s = {} THEN base ELSE step[<<g[s \ {Max(s)}], Max(s)>>]

LEMMA FoldExists ==
    ASSUME NEW n \in Nat, NEW A, NEW base \in A, NEW step \in [A \X (1 .. n) -> A]
    PROVE  \E g \in [SUBSET (1 .. n) -> A] : FoldsTo(g, n, base, step)
  <1> DEFINE Solves(g, k) ==
               \A s \in SUBSET (1 .. k) :
                  g[s] = IF s = {} THEN base ELSE step[<<g[s \ {Max(s)}], Max(s)>>]
             Solved == {k \in Nat : k <= n => \E g \in [SUBSET (1 .. k) -> A] : Solves(g, k)}
  <1>1. 0 \in Solved
    <2>0. \A s \in SUBSET (1 .. 0) : s = {}
      OBVIOUS
    <2>1. [s \in SUBSET (1 .. 0) |-> base] \in [SUBSET (1 .. 0) -> A]
      BY <2>0
    <2>2. Solves([s \in SUBSET (1 .. 0) |-> base], 0)
      BY <2>0
    <2> QED
      BY <2>1, <2>2
  <1>2. ASSUME NEW k \in Nat, k \in Solved PROVE k + 1 \in Solved
    <2> SUFFICES ASSUME k + 1 <= n PROVE \E g \in [SUBSET (1 .. k + 1) -> A] : Solves(g, k + 1)
      <3>1. k + 1 \in Nat
        OBVIOUS
      <3> HIDE DEF Solves
      <3> QED
        BY <3>1
    <2>1. PICK f \in [SUBSET (1 .. k) -> A] : Solves(f, k)
      <3>1. k <= n
        OBVIOUS
      <3> QED
        BY <1>2, <3>1
    <2> DEFINE g == [s \in SUBSET (1 .. k + 1) |->
                       IF k + 1 \in s THEN step[<<f[s \ {k + 1}], k + 1>>] ELSE f[s]]
    <2>2. ASSUME NEW s \in SUBSET (1 .. k + 1)
          PROVE  (s \ {k + 1}) \in SUBSET (1 .. k) /\ (k + 1 \notin s => s \in SUBSET (1 .. k))
      OBVIOUS
    <2>3. g \in [SUBSET (1 .. k + 1) -> A]
      BY <2>2
    <2>4. ASSUME NEW s \in SUBSET (1 .. k)
          PROVE  g[s] = f[s] /\ s \in SUBSET (1 .. k + 1)
      OBVIOUS
    <2>5. ASSUME NEW s \in SUBSET (1 .. k + 1)
          PROVE  g[s] = IF s = {} THEN base ELSE step[<<g[s \ {Max(s)}], Max(s)>>]
      <3>1. CASE k + 1 \in s
        <4>1. Max(s) = k + 1
          <5>1. s \subseteq Int /\ \A x \in s : k + 1 >= x
            OBVIOUS
          <5> QED
            BY <3>1, <5>1, HasMax
        <4>2. g[s \ {k + 1}] = f[s \ {k + 1}]
          BY <2>2, <2>4
        <4>3. g[s] = step[<<f[s \ {k + 1}], k + 1>>]
          BY <3>1
        <4> HIDE DEF g
        <4> QED BY <3>1, <4>1, <4>2, <4>3
      <3>2. CASE k + 1 \notin s
        <4>1. s \in SUBSET (1 .. k)
          BY <2>2, <3>2
        <4>2. (s \ {Max(s)}) \in SUBSET (1 .. k)
          BY <4>1
        <4>3. g[s] = f[s] /\ g[s \ {Max(s)}] = f[s \ {Max(s)}]
          BY <2>4, <4>1, <4>2
        <4> HIDE DEF g
        <4> QED BY <2>1, <4>1, <4>3
      <3> QED BY <3>1, <3>2
    <2> HIDE DEF g
    <2> QED
      BY <2>3, <2>5
  <1>3. n \in Solved
    <2>1. Nat \subseteq Solved
      <3> HIDE DEF Solved
      <3> QED BY <1>1, <1>2, NatInSets
    <2> HIDE DEF Solved
    <2> QED BY <2>1
  <1>4. \E g \in [SUBSET (1 .. n) -> A] : Solves(g, n)
    <2>1. n <= n
      OBVIOUS
    <2> QED
      BY <1>3, <2>1
  <1> QED
    BY <1>4 DEF FoldsTo

\* Induction along the first n numbers.
LEMMA Along ==
    ASSUME NEW n \in Nat, NEW S, 0 \in S, \A i \in 1 .. n : i - 1 \in S => i \in S
    PROVE  0 .. n \subseteq S
  <1> DEFINE T == {i \in Nat : i <= n => i \in S}
  <1>1. 0 \in T
    OBVIOUS
  <1>2. ASSUME NEW i \in Nat, i \in T PROVE i + 1 \in T
    <2>1. i + 1 <= n => i + 1 \in 1 .. n /\ (i + 1) - 1 \in S
      BY <1>2
    <2> QED
      BY <2>1
  <1>3. Nat \subseteq T
    <2> HIDE DEF T
    <2> QED
      BY <1>1, <1>2, NatInSets
  <1> QED
    BY <1>3

LEMMA FirstOnes ==
    ASSUME NEW n \in Nat, NEW i \in 1 .. n
    PROVE  /\ Max(1 .. i) = i
           /\ (1 .. i) \ {i} = 1 .. (i - 1)
           /\ 1 .. i # {} /\ (1 .. i) \in SUBSET (1 .. n)
  <1>1. 1 .. i \subseteq Int /\ i \in 1 .. i /\ \A x \in 1 .. i : i >= x
    OBVIOUS
  <1>2. Max(1 .. i) = i
    BY <1>1, HasMax
  <1> QED
    BY <1>2

CurveType == [equity: Int, peak: Int, worst: Int]

\* The curve after each row, and what the last one makes the drawdown.
Curve(fold, rows) ==
    /\ fold[{}] = [equity |-> 0, peak |-> 0, worst |-> 0]
    /\ \A i \in 1 .. Len(rows) : fold[1 .. i] = Through(fold[1 .. i - 1], rows[i])
    /\ fold[1 .. Len(rows)].worst = MaxDrawdown(rows)

\* MaxDrawdown goes through the rows one by one.
LEMMA DrawdownFolds ==
    ASSUME NEW T, IsFiniteSet(T), \A t \in T : t.profit \in Int, NEW rows \in SetToSeqs(T)
    PROVE  \E fold : Curve(fold, rows)
  <1> DEFINE n == Len(rows)
             A == CurveType
             base == [equity |-> 0, peak |-> 0, worst |-> 0]
             step == [x \in A \X (1 .. n) |-> Through(x[1], rows[x[2]])]
             Body(g) == [s \in SUBSET (1 .. n) |->
                           IF s = {} THEN base ELSE Through(g[s \ {Max(s)}], rows[Max(s)])]
             fold == CHOOSE g : g = Body(g)
  <1>0. n \in Nat /\ DOMAIN rows = 1 .. n /\ \A i \in 1 .. n : rows[i] \in T /\ rows[i].profit \in Int
    BY RowsInOrder
  <1>1. MaxDrawdown(rows) = fold[1 .. n].worst
    BY <1>0 DEF MaxDrawdown, FoldLeft, MapThenFoldSet
  <1>2. step \in [A \X (1 .. n) -> A] /\ base \in A
    <2>1. \A c \in A, i \in 1 .. n : Through(c, rows[i]) \in A
      BY <1>0 DEF Through, CurveType
    <2>2. base \in A
      BY DEF CurveType
    <2> HIDE DEF A
    <2> QED
      BY <2>1, <2>2
  <1>3. ASSUME NEW c \in A, NEW i \in 1 .. n PROVE step[<<c, i>>] = Through(c, rows[i])
    <2> HIDE DEF A
    <2> QED
      OBVIOUS
  <1> HIDE DEF step, A, base
  <1>4. PICK g \in [SUBSET (1 .. n) -> A] : FoldsTo(g, n, base, step)
    BY <1>0, <1>2, FoldExists
  <1>5. ASSUME NEW s \in SUBSET (1 .. n), s # {}
        PROVE  Max(s) \in 1 .. n /\ (s \ {Max(s)}) \in SUBSET (1 .. n)
    BY <1>0, <1>5, SomeMax
  <1>6. g = Body(g)
    <2>1. \A s \in SUBSET (1 .. n) : g[s] = Body(g)[s]
      BY <1>3, <1>4, <1>5 DEF FoldsTo
    <2> QED
      BY <2>1
  <1>7. fold = Body(fold)
    <2> HIDE DEF Body
    <2> QED
      BY <1>6
  <1> HIDE DEF fold
  <1>8. fold[{}] = base
    BY <1>7
  <1>9. ASSUME NEW i \in 1 .. n PROVE fold[1 .. i] = Through(fold[1 .. i - 1], rows[i])
    <2>1. /\ Max(1 .. i) = i /\ (1 .. i) \ {i} = 1 .. i - 1
          /\ 1 .. i # {} /\ (1 .. i) \in SUBSET (1 .. n)
      BY <1>0, FirstOnes
    <2>2. fold[1 .. i] = Through(fold[(1 .. i) \ {Max(1 .. i)}], rows[Max(1 .. i)])
      BY <1>7, <2>1
    <2> QED
      BY <2>1, <2>2
  <1> QED
    BY <1>1, <1>8, <1>9 DEF Curve, base

\* What the curve says of the trades it went through.
Bounded(c, U) ==
    /\ c \in CurveType
    /\ c.equity = Sum(U)
    /\ c.peak >= 0 /\ c.peak >= c.equity
    /\ c.worst >= 0 /\ c.worst >= c.peak - c.equity
    /\ c.worst <= -GrossLoss(U)

\* The next row keeps the bounds.
LEMMA BoundedStep ==
    ASSUME NEW T, IsFiniteSet(T), \A t \in T : t.profit \in Int,
           NEW U \in SUBSET T, NEW t \in U, NEW c, Bounded(c, U \ {t})
    PROVE  Bounded(Through(c, t), U)
  <1> DEFINE e == c.equity
             L == GrossLoss(U)
             M == GrossLoss(U \ {t})
             p == t.profit
  <1>1. Sum(U) = Sum(U \ {t}) + p /\ p \in Int
    <2>1. SumAdds(T)
      BY SumOfTrades
    <2> QED
      BY <2>1 DEF SumAdds
  <1>2. L = M + (IF p < 0 THEN p ELSE 0)
    BY LossStep
  <1>3. M \in Int /\ M <= 0
    <2> DEFINE V == U \ {t}
    <2>1. V \in SUBSET T
      OBVIOUS
    <2> HIDE DEF V
    <2>2. GrossLoss(V) \in Int /\ GrossLoss(V) <= 0
      BY <2>1, WonAndLost
    <2> QED
      BY <2>2 DEF V
  <1>4. /\ c.equity \in Int /\ c.peak \in Int /\ c.worst \in Int
        /\ c.equity = Sum(U \ {t})
        /\ c.peak >= 0 /\ c.peak >= c.equity
        /\ c.worst >= 0 /\ c.worst >= c.peak - c.equity
        /\ c.worst <= -M
    BY DEF Bounded, CurveType
  <1> DEFINE equity == c.equity + p
             peak == IF equity > c.peak THEN equity ELSE c.peak
             worst == IF peak - equity > c.worst THEN peak - equity ELSE c.worst
  <1>5. Through(c, t) = [equity |-> equity, peak |-> peak, worst |-> worst]
    BY DEF Through
  <1>6. equity = Sum(U)
    BY <1>1, <1>4
  <1> HIDE DEF L, M, p
  <1>7. equity \in Int /\ peak \in Int /\ worst \in Int
    BY <1>1, <1>4
  <1>8. /\ peak >= 0 /\ peak >= equity
        /\ worst >= 0 /\ worst >= peak - equity
    BY <1>1, <1>4
  <1>9. worst <= -L
    BY <1>1, <1>2, <1>3, <1>4
  <1> HIDE DEF equity, peak, worst
  <1> QED
    BY <1>5, <1>6, <1>7, <1>8, <1>9 DEF Bounded, CurveType, L

\* The drawdown of a day is no less than its fall and no more than its losses,
\* in whatever order the rows come.
LEMMA DrawdownBounds ==
    ASSUME NEW T, IsFiniteSet(T), \A t \in T : t.profit \in Int, NEW rows \in SetToSeqs(T)
    PROVE  /\ MaxDrawdown(rows) \in Int /\ MaxDrawdown(rows) >= 0
           /\ MaxDrawdown(rows) >= -Sum(T)
           /\ MaxDrawdown(rows) <= -GrossLoss(T)
  <1> DEFINE n == Len(rows)
             First(i) == {rows[j] : j \in 1 .. i}
  <1>0. /\ n \in Nat /\ DOMAIN rows = 1 .. n
        /\ \A i \in 1 .. n : rows[i] \in T
        /\ \A i, j \in 1 .. n : i # j => rows[i] # rows[j]
        /\ Range(rows) = T
    BY RowsInOrder
  <1>1. PICK fold : Curve(fold, rows)
    BY DrawdownFolds
  <1> DEFINE S == {i \in 0 .. n : Bounded(fold[1 .. i], First(i))}
  <1>2. 0 \in S
    <2>1. First(0) = {} /\ 1 .. 0 = {} /\ 0 \in 0 .. n
      BY <1>0
    <2>2. Sum({}) = 0
      <3>1. SumAdds(T)
        BY SumOfTrades
      <3> QED
        BY <3>1 DEF SumAdds
    <2>3. GrossLoss({}) = 0
      <3>1. {t \in {} : t.profit < 0} = {}
        OBVIOUS
      <3> QED
        BY <2>2, <3>1, Zenon DEF GrossLoss
    <2>4. fold[{}] = [equity |-> 0, peak |-> 0, worst |-> 0]
      BY <1>1 DEF Curve
    <2>5. Bounded(fold[{}], {})
      BY <2>2, <2>3, <2>4 DEF Bounded, CurveType
    <2> HIDE DEF First
    <2> QED
      BY <2>1, <2>5
  <1>3. ASSUME NEW i \in 1 .. n, i - 1 \in S PROVE i \in S
    <2>1. /\ First(i) \in SUBSET T /\ rows[i] \in First(i) /\ First(i) \ {rows[i]} = First(i - 1)
      BY <1>0
    <2>2. Bounded(fold[1 .. i - 1], First(i - 1))
      BY <1>3
    <2>3. fold[1 .. i] = Through(fold[1 .. i - 1], rows[i])
      BY <1>1 DEF Curve
    <2> HIDE DEF First
    <2>4. Bounded(Through(fold[1 .. i - 1], rows[i]), First(i))
      BY <2>1, <2>2, BoundedStep
    <2>5. Bounded(fold[1 .. i], First(i)) /\ i \in 0 .. n
      BY <1>0, <2>3, <2>4
    <2> QED
      BY <2>5
  <1>4. n \in S
    <2> HIDE DEF S
    <2>1. 0 .. n \subseteq S
      BY <1>0, <1>2, <1>3, Along
    <2> QED
      BY <1>0, <2>1
  <1>5. Bounded(fold[1 .. n], First(n))
    <2> HIDE DEF First
    <2> QED
      BY <1>4
  <1>6. First(n) = T
    BY <1>0 DEF Range
  <1>7. Bounded(fold[1 .. n], T) /\ fold[1 .. n].worst = MaxDrawdown(rows)
    <2> HIDE DEF First
    <2> QED
      BY <1>1, <1>5, <1>6 DEF Curve
  <1>8. Sum(T) \in Int /\ GrossLoss(T) \in Int
    <2>1. SumAdds(T)
      BY SumOfTrades
    <2>2. T \in SUBSET T
      OBVIOUS
    <2> QED
      BY <2>1, <2>2, WonAndLost DEF SumAdds
  <1> QED
    BY <1>7, <1>8 DEF Bounded, CurveType

-----------------------------------------------------------------------------
\* The invariant, step by step

\* Nothing is read, counted, judged or advised at first.
LEMMA InitInv == Init => IInv
  <1> SUFFICES ASSUME Init PROVE IInv
    OBVIOUS
  <1> USE FeedbackAssumption DEF Init
  <1>1. 1 \in Days
    BY DEF Days
  <1>2. TypeOK
    <2>1. IsFiniteSet({})
      BY FS_EmptySet
    <2> QED
      BY <1>1, <2>1 DEF TypeOK
  <1>3. CountedInv
    BY DEF CountedInv
  <1>4. DailyInv
    BY DEF DailyInv
  <1>5. JudgedInv
    BY DEF JudgedInv
  <1>6. EventsInv
    BY DEF EventsInv
  <1> QED
    BY <1>2, <1>3, <1>4, <1>5, <1>6 DEF IInv

\* Trades that are closed stay closed.
LEMMA ClosedStay ==
    ASSUME trades \subseteq trades', NEW d
    PROVE  ClosedToday(d) \subseteq ClosedToday(d)'
  BY DEF ClosedToday

\* What is counted stays true while trades are added, and no run begins or ends.
LEMMA CountedKeeps ==
    ASSUME TypeOK, CountedInv, trades \subseteq trades', UNCHANGED <<counted, run>>,
           phase' = "analyzing" => phase = "analyzing" /\ read' = read
    PROVE  CountedInv'
  <1>1. \A d : ClosedToday(d) \subseteq ClosedToday(d)'
    BY ClosedStay
  <1> QED
    BY <1>1 DEF CountedInv

\* The daily rows, the rows of strategies and the events stay true while they and
\* the runs stay.
LEMMA DailyKeeps ==
    ASSUME DailyInv, UNCHANGED <<counted, daily>>
    PROVE  DailyInv'
  BY DEF DailyInv

LEMMA JudgedKeeps ==
    ASSUME JudgedInv, UNCHANGED <<counted, judged, run>>,
           phase' = "analyzing" => phase = "analyzing"
    PROVE  JudgedInv'
  <1>1. \A n : RowsOf(n)' = RowsOf(n)
    BY DEF RowsOf
  <1> QED
    BY <1>1 DEF JudgedInv

LEMMA EventsKeep ==
    ASSUME EventsInv, UNCHANGED <<events, judged, run>>
    PROVE  EventsInv'
  BY DEF EventsInv

\* A run reads all that was counted of its day, and more.
LEMMA ReadTradesStep == IInv /\ ReadTrades => IInv'
  <1> SUFFICES ASSUME IInv, ReadTrades PROVE IInv'
    OBVIOUS
  <1> USE FeedbackAssumption
  <1>1. TypeOK /\ CountedInv /\ DailyInv /\ JudgedInv /\ EventsInv
    BY DEF IInv
  <1>2. /\ run' = IF run > MaxRuns THEN run ELSE run + 1
        /\ read' = [day |-> day, trades |-> ClosedToday(day)]
        /\ phase' = "analyzing"
        /\ UNCHANGED <<day, trades, daily, judged, events, session, ends, counted>>
    BY DEF ReadTrades
  <1>3. /\ run \in 0 .. MaxRuns + 1 /\ run' \in 1 .. MaxRuns + 1 /\ run <= run'
        /\ run' <= MaxRuns => run < run'
    BY <1>1, <1>2 DEF TypeOK
  <1>4. TypeOK'
    BY <1>1, <1>2, <1>3 DEF TypeOK
  <1>5. CountedInv'
    <2>1. \A d : ClosedToday(d)' = ClosedToday(d)
      BY <1>2 DEF ClosedToday
    <2>2. \A d \in Days : counted[d].run \in Int /\ counted[d].run <= run /\ counted[d].trades \subseteq ClosedToday(d)
      BY <1>1 DEF CountedInv, TypeOK
    <2>3. \A d \in Days : counted[d].run = 0 => counted[d].trades = {}
      BY <1>1 DEF CountedInv
    <2>4. day \in Days
      BY <1>1 DEF TypeOK
    <2> QED
      BY <1>2, <1>3, <2>1, <2>2, <2>3, <2>4 DEF CountedInv
  <1>6. DailyInv'
    BY <1>1, <1>2, DailyKeeps
  <1>7. JudgedInv'
    <2>1. \A n : RowsOf(n)' = RowsOf(n)
      BY <1>2 DEF RowsOf
    <2>2. \A row \in judged : row.run \in 1 .. MaxRuns /\ row.run <= run /\ row.drawdown = 0
      BY <1>1 DEF JudgedInv, TypeOK
    <2>3. \A row \in judged : row.run < run'
      BY <1>2, <1>3, <2>2
    <2>4. \A row \in judged : row.run <= run'
      BY <1>3, <2>2, <2>3
    <2>5. \A d \in Days : counted[d].run \in 1 .. MaxRuns =>
             RowsOf(counted[d].run) = {StrategyRow(counted[d].run, counted[d].trades, k) :
                                         k \in KeysOf(counted[d].trades)}
      BY <1>1 DEF JudgedInv
    <2> QED
      BY <1>2, <2>1, <2>2, <2>3, <2>4, <2>5 DEF JudgedInv
  <1>8. EventsInv'
    <2>1. \A e \in events : e.run \in 1 .. MaxRuns /\ e.run <= run
      BY <1>1 DEF EventsInv, TypeOK
    <2>2. \A e \in events : e.run <= run'
      BY <1>3, <2>1
    <2> QED
      BY <1>1, <1>2, <2>2 DEF EventsInv
  <1> QED
    BY <1>4, <1>5, <1>6, <1>7, <1>8 DEF IInv

\* What a run writes is what it read.
LEMMA WriteRowsStep == IInv /\ WriteRows => IInv'
  <1> SUFFICES ASSUME IInv, WriteRows PROVE IInv'
    OBVIOUS
  <1> USE FeedbackAssumption
  <1> DEFINE D == read.day
             T == read.trades
             new == {StrategyRow(run, T, k) : k \in KeysOf(T)}
  <1>1. TypeOK /\ CountedInv /\ DailyInv /\ JudgedInv /\ EventsInv
    BY DEF IInv
  <1>2. PICK rows \in SetToSeqs(T) :
           daily' = [a \in Accounts |-> IF \E t \in T : t.account = a
                                        THEN [daily[a] EXCEPT ![D] = DailyRow(rows)]
                                        ELSE daily[a]]
    BY DEF WriteRows
  <1>3. /\ phase = "analyzing"
        /\ judged' = IF run > MaxRuns THEN judged ELSE judged \cup new
        /\ counted' = [counted EXCEPT ![D] = [run |-> run, trades |-> T]]
        /\ read' = Nothing
        /\ phase' \in {"judging", "waiting"} /\ session' \in {session, "poisoned"}
        /\ UNCHANGED <<day, trades, run, events, ends>>
    BY DEF WriteRows, Commits
  <1>4. /\ run > 0 /\ run \in 0 .. MaxRuns + 1 /\ D \in Days
        /\ counted[D].trades \subseteq T /\ T \subseteq ClosedToday(D)
        /\ run <= MaxRuns => \A d \in Days : counted[d].run < run
    BY <1>1, <1>3 DEF CountedInv, TypeOK
  <1>5. /\ counted'[D] = [run |-> run, trades |-> T]
        /\ \A d \in Days : d # D => counted'[d] = counted[d]
        /\ DOMAIN counted' = Days
    BY <1>1, <1>3, <1>4 DEF TypeOK
  <1>6. \A row \in new : row.run = run /\ row.drawdown = 0
    <2>1. \A k : StrategyRow(run, T, k).run = run /\ StrategyRow(run, T, k).drawdown = 0
      BY DEF StrategyRow
    <2> QED
      BY <2>1
  <1> HIDE DEF new, T, D
  <1>7. TypeOK'
    <2>1. \A row \in judged' : row.run \in 1 .. MaxRuns
      BY <1>1, <1>3, <1>4, <1>6 DEF TypeOK
    <2>2. DOMAIN counted' = Days /\ \A d \in Days : counted'[d].run \in 0 .. MaxRuns + 1
      BY <1>1, <1>4, <1>5 DEF TypeOK
    <2>3. DOMAIN daily' = Accounts /\ \A a \in Accounts : DOMAIN daily'[a] = Days
      BY <1>1, <1>2 DEF TypeOK
    <2>4. session' \in {"clean", "poisoned"} /\ phase' \in {"waiting", "analyzing", "judging"}
      BY <1>1, <1>3 DEF TypeOK
    <2> QED
      BY <1>1, <1>3, <2>1, <2>2, <2>3, <2>4 DEF TypeOK
  <1>8. CountedInv'
    <2>1. \A d : ClosedToday(d)' = ClosedToday(d)
      BY <1>3 DEF ClosedToday
    <2>2. ASSUME NEW d \in Days
          PROVE  /\ counted'[d].run <= run /\ counted'[d].trades \subseteq ClosedToday(d)
                 /\ counted'[d].run = 0 => counted'[d].trades = {}
      <3>1. CASE d = D
        BY <1>4, <1>5, <3>1
      <3>2. CASE d # D
        BY <1>1, <1>5, <3>2 DEF CountedInv
      <3> QED
        BY <3>1, <3>2
    <2> QED
      BY <1>3, <2>1, <2>2 DEF CountedInv
  <1>9. DailyInv'
    <2> SUFFICES ASSUME NEW a \in Accounts, NEW d \in Days
                 PROVE  IF \E t \in counted'[d].trades : t.account = a
                        THEN \E r \in SetToSeqs(counted'[d].trades) : daily'[a][d] = DailyRow(r)
                        ELSE daily'[a][d] = None
      BY DEF DailyInv
    <2>0. /\ DOMAIN daily = Accounts /\ DOMAIN daily[a] = Days
          /\ IF \E t \in counted[d].trades : t.account = a
             THEN \E r \in SetToSeqs(counted[d].trades) : daily[a][d] = DailyRow(r)
             ELSE daily[a][d] = None
      BY <1>1 DEF TypeOK, DailyInv
    <2>1. CASE d # D
      <3>1. counted'[d] = counted[d] /\ daily'[a][d] = daily[a][d]
        BY <1>2, <1>5, <2>0, <2>1
      <3> QED
        BY <2>0, <3>1
    <2>2. CASE d = D /\ \E t \in T : t.account = a
      <3>1. counted'[d].trades = T /\ daily'[a][d] = DailyRow(rows)
        BY <1>2, <1>5, <2>0, <2>2
      <3> QED
        BY <2>2, <3>1
    <2>3. CASE d = D /\ ~(\E t \in T : t.account = a)
      <3>1. counted'[d].trades = T /\ daily'[a][d] = daily[a][d]
        BY <1>2, <1>5, <2>0, <2>3
      <3>2. ~(\E t \in counted[d].trades : t.account = a)
        BY <1>4, <2>3
      <3> QED
        BY <2>0, <2>3, <3>1, <3>2
    <2> QED
      BY <2>1, <2>2, <2>3
  <1>10. JudgedInv'
    <2>1. \A row \in judged : row.run \in Int /\ row.run < run /\ row.drawdown = 0
      BY <1>1, <1>3 DEF JudgedInv, TypeOK
    <2>2. \A row \in judged' : row.run <= run /\ row.drawdown = 0
      BY <1>3, <1>4, <1>6, <2>1
    <2>3. ASSUME NEW d \in Days, counted'[d].run \in 1 .. MaxRuns
          PROVE  {row \in judged' : row.run = counted'[d].run} =
                    {StrategyRow(counted'[d].run, counted'[d].trades, k) : k \in KeysOf(counted'[d].trades)}
      <3>1. CASE d = D
        <4>1. counted'[d].run = run /\ counted'[d].trades = T /\ run <= MaxRuns
          BY <1>4, <1>5, <2>3, <3>1
        <4>2. {row \in judged' : row.run = run} = new
          BY <1>3, <1>4, <1>6, <2>1, <4>1
        <4> QED
          BY <4>1, <4>2 DEF new
      <3>2. CASE d # D
        <4> DEFINE n == counted[d].run
        <4>1. counted'[d] = counted[d] /\ n \in 1 .. MaxRuns
          BY <1>5, <2>3, <3>2
        <4>2. run <= MaxRuns => n < run
          BY <1>4
        <4>3. {row \in judged' : row.run = n} = {row \in judged : row.run = n}
          <5> HIDE DEF n
          <5> QED
            BY <1>3, <1>4, <1>6, <4>1, <4>2
        <4>4. {row \in judged : row.run = n} =
                 {StrategyRow(n, counted[d].trades, k) : k \in KeysOf(counted[d].trades)}
          BY <1>1, <4>1 DEF JudgedInv, RowsOf
        <4> QED
          BY <4>1, <4>3, <4>4
      <3> QED
        BY <3>1, <3>2
    <2>4. phase' # "analyzing" /\ run' = run
      BY <1>3
    <2> QED
      BY <2>2, <2>3, <2>4 DEF JudgedInv, RowsOf
  <1>11. EventsInv'
    <2> SUFFICES ASSUME NEW e \in events
                 PROVE  /\ e.advice \in {"NEED_MORE_DATA", "REDUCE_RISK"}
                        /\ e.of[1] <= e.run /\ e.run <= run
                        /\ \A row \in judged' : row.run < e.of[1] /\ Advice(row) # "KEEP_ACTIVE" =>
                              \E f \in events : f.of = <<row.run, row.key>> /\ f.run = e.run
      BY <1>3 DEF EventsInv
    <2>1. /\ e.run \in 1 .. MaxRuns /\ e.of[1] \in 1 .. MaxRuns
          /\ e.advice \in {"NEED_MORE_DATA", "REDUCE_RISK"}
          /\ e.of[1] <= e.run /\ e.run <= run
          /\ \A row \in judged : row.run < e.of[1] /\ Advice(row) # "KEEP_ACTIVE" =>
                \E f \in events : f.of = <<row.run, row.key>> /\ f.run = e.run
      BY <1>1 DEF EventsInv, TypeOK
    <2>2. \A row \in judged' : row.run < e.of[1] => row \in judged
      BY <1>3, <1>4, <1>6, <2>1
    <2> QED
      BY <2>1, <2>2
  <1> QED
    BY <1>7, <1>8, <1>9, <1>10, <1>11 DEF IInv

\* Rows are never deep in drawdown: what is not healthy has too few trades, or wins too rarely.
LEMMA AdviceOfRow ==
    ASSUME NEW row, row.drawdown = 0, Advice(row) # "KEEP_ACTIVE"
    PROVE  Advice(row) \in {"NEED_MORE_DATA", "REDUCE_RISK"}
  <1>1. ~(row.drawdown >= HighDrawdown)
    BY FeedbackAssumption
  <1> QED
    BY <1>1 DEF Advice

\* Every row that is not healthy gets an event, the older and the newer.
LEMMA JudgeStep == IInv /\ Judge => IInv'
  <1> SUFFICES ASSUME IInv, Judge PROVE IInv'
    OBVIOUS
  <1> DEFINE new == {Event(r) : r \in {s \in judged : Advice(s) # "KEEP_ACTIVE"}}
  <1>1. TypeOK /\ CountedInv /\ DailyInv /\ JudgedInv /\ EventsInv
    BY DEF IInv
  <1>2. /\ events' = IF run > MaxRuns THEN events ELSE events \cup new
        /\ phase' \in {"judging", "waiting"} /\ session' \in {session, "poisoned"}
        /\ UNCHANGED <<day, trades, run, read, daily, judged, ends, counted>>
    BY DEF Judge, Commits
  <1>3. \A r \in judged : r.run \in 1 .. MaxRuns /\ r.run <= run /\ r.drawdown = 0
    BY <1>1 DEF TypeOK, JudgedInv
  <1>4. ASSUME NEW e \in new
        PROVE  /\ e.run = run
               /\ \E r \in judged : e.of[1] = r.run /\ r.run \in 1 .. MaxRuns /\ r.run <= run
               /\ e.advice \in {"NEED_MORE_DATA", "REDUCE_RISK"}
    <2>1. PICK r \in judged : Advice(r) # "KEEP_ACTIVE" /\ e = Event(r)
      OBVIOUS
    <2>2. e.run = run /\ e.of = <<r.run, r.key>> /\ e.advice = Advice(r)
      BY <2>1 DEF Event
    <2> QED
      BY <1>3, <2>1, <2>2, AdviceOfRow
  <1>5. ASSUME NEW r \in judged, Advice(r) # "KEEP_ACTIVE"
        PROVE  Event(r) \in new /\ Event(r).of = <<r.run, r.key>> /\ Event(r).run = run
    BY <1>5 DEF Event
  <1> HIDE DEF new
  <1>6. TypeOK'
    <2>1. run \in 0 .. MaxRuns + 1
      BY <1>1 DEF TypeOK
    <2>2. \A e \in events' : e.run \in 1 .. MaxRuns /\ e.of[1] \in 1 .. MaxRuns
      <3>1. \A e \in events : e.run \in 1 .. MaxRuns /\ e.of[1] \in 1 .. MaxRuns
        BY <1>1 DEF TypeOK
      <3>2. ASSUME NEW e \in new, ~(run > MaxRuns)
            PROVE  e.run \in 1 .. MaxRuns /\ e.of[1] \in 1 .. MaxRuns
        BY <1>4, <2>1, <3>2, FeedbackAssumption
      <3> QED
        BY <1>2, <3>1, <3>2
    <2> QED
      BY <1>1, <1>2, <2>2 DEF TypeOK
  <1>7. CountedInv'
    <2>1. phase' # "analyzing" /\ trades \subseteq trades'
      BY <1>2
    <2> QED
      BY <1>1, <1>2, <2>1, CountedKeeps
  <1>8. DailyInv'
    BY <1>1, <1>2, DailyKeeps
  <1>9. JudgedInv'
    BY <1>1, <1>2, JudgedKeeps
  <1>10. EventsInv'
    <2> SUFFICES ASSUME NEW e \in events'
                 PROVE  /\ e.advice \in {"NEED_MORE_DATA", "REDUCE_RISK"}
                        /\ e.of[1] <= e.run /\ e.run <= run
                        /\ \A row \in judged : row.run < e.of[1] /\ Advice(row) # "KEEP_ACTIVE" =>
                              \E f \in events' : f.of = <<row.run, row.key>> /\ f.run = e.run
      BY <1>2 DEF EventsInv
    <2>1. CASE e \in events
      <3>1. events \subseteq events'
        BY <1>2
      <3> QED
        BY <1>1, <2>1, <3>1 DEF EventsInv
    <2>2. CASE e \in new /\ events' = events \cup new
      <3>1. e.run = run /\ e.advice \in {"NEED_MORE_DATA", "REDUCE_RISK"}
        BY <1>4, <2>2
      <3>2. e.of[1] <= e.run /\ e.run <= run
        <4>1. run \in Int
          BY <1>1 DEF TypeOK
        <4> QED
          BY <1>4, <2>2, <3>1, <4>1
      <3>3. ASSUME NEW row \in judged, Advice(row) # "KEEP_ACTIVE"
            PROVE  \E f \in events' : f.of = <<row.run, row.key>> /\ f.run = e.run
        BY <1>5, <2>2, <3>1, <3>3
      <3> QED
        BY <3>1, <3>2, <3>3
    <2> QED
      BY <1>2, <2>1, <2>2
  <1> QED
    BY <1>6, <1>7, <1>8, <1>9, <1>10 DEF IInv

\* A run that ends without writing, or a process that ends.
LEMMA BreakStep == IInv /\ (DatabaseError \/ ProcessEnds) => IInv'
  <1> SUFFICES ASSUME IInv, DatabaseError \/ ProcessEnds PROVE IInv'
    OBVIOUS
  <1>1. TypeOK /\ CountedInv /\ DailyInv /\ JudgedInv /\ EventsInv
    BY DEF IInv
  <1>2. /\ phase' = "waiting" /\ session' \in {"clean", "poisoned"} /\ read' = Nothing
        /\ UNCHANGED <<day, trades, run, daily, judged, events, counted>>
        /\ ends' = ends \/ (ends < MaxEnds /\ ends' = ends + 1)
    BY DEF DatabaseError, ProcessEnds
  <1>3. TypeOK'
    <2>1. ends' \in 0 .. MaxEnds
      BY <1>1, <1>2, FeedbackAssumption DEF TypeOK
    <2> QED
      BY <1>1, <1>2, <2>1 DEF TypeOK
  <1>4. CountedInv'
    <2>1. phase' # "analyzing" /\ trades \subseteq trades'
      BY <1>2
    <2> QED
      BY <1>1, <1>2, <2>1, CountedKeeps
  <1>5. DailyInv' /\ JudgedInv' /\ EventsInv'
    BY <1>1, <1>2, DailyKeeps, JudgedKeeps, EventsKeep
  <1> QED
    BY <1>3, <1>4, <1>5 DEF IInv

\* A trade that is closed is counted by no run yet.
LEMMA CloseStep ==
    ASSUME IInv, NEW linked \in BOOLEAN, NEW a \in Accounts, NEW k \in Keys \cup {"none"},
           NEW p \in Int, Close(linked, a, k, p)
    PROVE  IInv'
  <1>1. TypeOK /\ CountedInv /\ DailyInv /\ JudgedInv /\ EventsInv
    BY DEF IInv
  <1>2. PICK d \in {day, day - 1} \cap Days :
           trades' = trades \cup {[id |-> Count(trades) + 1, linked |-> linked, account |-> a,
                                   key |-> k, profit |-> p, day |-> d]}
    BY DEF Close
  <1>3. UNCHANGED <<day, phase, run, read, daily, judged, events, session, ends, counted>>
    BY DEF Close
  <1>4. TypeOK'
    <2>1. Count(trades) \in Nat
      BY <1>1, FS_CardinalityType DEF TypeOK, Count
    <2>2. trades' \subseteq TradeType
      BY <1>1, <1>2, <2>1 DEF TypeOK, TradeType
    <2>3. IsFiniteSet(trades')
      BY <1>1, <1>2, FS_AddElement DEF TypeOK
    <2> QED
      BY <1>1, <1>3, <2>2, <2>3 DEF TypeOK
  <1>5. CountedInv'
    <2>1. trades \subseteq trades'
      BY <1>2
    <2> QED
      BY <1>1, <1>3, <2>1, CountedKeeps
  <1>6. DailyInv' /\ JudgedInv' /\ EventsInv'
    BY <1>1, <1>3, DailyKeeps, JudgedKeeps, EventsKeep
  <1> QED
    BY <1>4, <1>5, <1>6 DEF IInv

\* The day that ends keeps its rows.
LEMMA MidnightStep == IInv /\ Midnight => IInv'
  <1> SUFFICES ASSUME IInv, Midnight PROVE IInv'
    OBVIOUS
  <1>1. TypeOK /\ CountedInv /\ DailyInv /\ JudgedInv /\ EventsInv
    BY DEF IInv
  <1>2. /\ day < MaxDays /\ day' = day + 1
        /\ UNCHANGED <<trades, phase, run, read, daily, judged, events, session, ends, counted>>
    BY DEF Midnight
  <1>3. TypeOK'
    <2>1. day' \in Days
      BY <1>1, <1>2, FeedbackAssumption DEF TypeOK, Days
    <2> QED
      BY <1>1, <1>2, <2>1 DEF TypeOK
  <1>4. CountedInv'
    BY <1>1, <1>2, CountedKeeps
  <1>5. DailyInv' /\ JudgedInv' /\ EventsInv'
    BY <1>1, <1>2, DailyKeeps, JudgedKeeps, EventsKeep
  <1> QED
    BY <1>3, <1>4, <1>5 DEF IInv

\* Every step keeps the invariant.
LEMMA NextInv == IInv /\ [Next]_vars => IInv'
  <1> SUFFICES ASSUME IInv, [Next]_vars PROVE IInv'
    OBVIOUS
  <1>1. CASE Perform
    BY <1>1, ReadTradesStep, WriteRowsStep, JudgeStep DEF Perform
  <1>2. CASE DatabaseError \/ ProcessEnds
    BY <1>2, BreakStep
  <1>3. CASE CloseLinked
    <2>1. PICK a \in Accounts, k \in Keys, p \in Profits : Close(TRUE, a, k, p)
      BY <1>3 DEF CloseLinked
    <2> QED
      BY <2>1, CloseStep, FeedbackAssumption
  <1>4. CASE CloseSynced
    <2> DEFINE zero == 0
    <2>1. PICK a \in Accounts : Close(FALSE, a, "none", zero)
      BY <1>4 DEF CloseSynced
    <2>2. zero \in Int
      OBVIOUS
    <2> HIDE DEF zero
    <2> QED
      BY <2>1, <2>2, CloseStep
  <1>5. CASE Midnight
    BY <1>5, MidnightStep
  <1>6. CASE UNCHANGED vars
    <2>1. TypeOK /\ CountedInv /\ DailyInv /\ JudgedInv /\ EventsInv
      BY DEF IInv
    <2>2. UNCHANGED <<day, trades, phase, run, read, daily, judged, events, session, ends, counted>>
      BY <1>6 DEF vars
    <2>3. TypeOK'
      BY <2>1, <2>2 DEF TypeOK
    <2>4. CountedInv'
      BY <2>1, <2>2, CountedKeeps
    <2> QED
      BY <2>1, <2>2, <2>3, <2>4, DailyKeeps, JudgedKeeps, EventsKeep DEF IInv
  <1> QED
    BY <1>1, <1>2, <1>3, <1>4, <1>5, <1>6 DEF Next

\* Whatever trades are closed meanwhile, and wherever runs fail or the process
\* ends, rows and events are those of the committed runs.
THEOREM Invariance == Spec => []IInv
  BY InitInv, NextInv, PTL DEF Spec

\* A daily row, and the rows of the strategies of its run, say what the linked
\* trades it counts add up to, and its drawdown lies between the day's fall and its
\* losses in whatever order the database gave the rows.
THEOREM DailyRowsAreTrue == Spec => []DailyRowsTrue
  <1>1. IInv => DailyRowsTrue
    <2> SUFFICES ASSUME IInv, NEW a \in Accounts, NEW d \in Days
                 PROVE  LET row == daily[a][d]
                            n   == counted[d].run
                            T   == counted[d].trades
                        IN  /\ row # None <=> (\E t \in T : t.account = a)
                            /\ row # None =>
                                 /\ row.of = Totals(T)
                                 /\ \A t \in T : t.linked /\ t.day = d
                                 /\ Falls(row) <= row.drawdown /\ row.drawdown <= -row.of.loss
                                 /\ n <= MaxRuns =>
                                      SumOfRows(RowsOf(n)) = row.of.profit + row.of.loss
      BY DEF DailyRowsTrue
    <2> DEFINE row == daily[a][d]
               n   == counted[d].run
               T   == counted[d].trades
    <2>1. TypeOK /\ CountedInv /\ DailyInv /\ JudgedInv
      BY DEF IInv
    <2>2. T \subseteq ClosedToday(d) /\ (n = 0 => T = {}) /\ n \in 0 .. MaxRuns + 1
      BY <2>1 DEF CountedInv, TypeOK
    <2>3. T \in SUBSET trades /\ \A t \in T : t.linked /\ t.day = d
      BY <2>2 DEF ClosedToday
    <2>4. IsFiniteSet(T) /\ \A t \in T : t.profit \in Int
      <3>1. IsFiniteSet(trades) /\ trades \subseteq TradeType
        BY <2>1 DEF TypeOK
      <3> HIDE DEF T
      <3> QED
        BY <2>3, <3>1, FS_Subset DEF TradeType
    <2>5. IF \E t \in T : t.account = a
          THEN \E rows \in SetToSeqs(T) : row = DailyRow(rows)
          ELSE row = None
      BY <2>1 DEF DailyInv
    <2>6. n \in 1 .. MaxRuns => RowsOf(n) = {StrategyRow(n, T, k) : k \in KeysOf(T)}
      BY <2>1 DEF JudgedInv
    <2> HIDE DEF row, n, T
    <2>7. ASSUME NEW t \in T, NEW rows \in SetToSeqs(T), row = DailyRow(rows)
          PROVE  /\ row # None
                 /\ row.of = Totals(T)
                 /\ Falls(row) <= row.drawdown /\ row.drawdown <= -row.of.loss
                 /\ n <= MaxRuns => SumOfRows(RowsOf(n)) = row.of.profit + row.of.loss
      <3>1. Range(rows) = T /\ Len(rows) = Cardinality(T) /\ Cardinality(T) \in Nat
        BY <2>4, RowsInOrder
      <3>2. Cardinality(T) # 0
        BY <2>4, FS_EmptySet
      <3>3. row.trades = Len(rows) /\ row.of = Totals(T) /\ row.drawdown = MaxDrawdown(rows)
        BY <2>7, <3>1 DEF DailyRow
      <3>4. row # None
        <4>1. None.trades = 0
          BY DEF None
        <4> QED
          BY <3>1, <3>2, <3>3, <4>1
      <3>5. row.of.profit = GrossProfit(T) /\ row.of.loss = GrossLoss(T)
        BY <3>3 DEF Totals
      <3>6. /\ GrossProfit(T) \in Int /\ GrossLoss(T) \in Int
            /\ Sum(T) = GrossProfit(T) + GrossLoss(T)
        <4>1. T \in SUBSET T
          OBVIOUS
        <4> QED
          BY <2>4, <4>1, WonAndLost
      <3>7. /\ MaxDrawdown(rows) \in Int /\ MaxDrawdown(rows) >= 0
            /\ MaxDrawdown(rows) >= -Sum(T) /\ MaxDrawdown(rows) <= -GrossLoss(T)
        BY <2>4, DrawdownBounds
      <3>8. Falls(row) <= row.drawdown /\ row.drawdown <= -row.of.loss
        BY <3>3, <3>5, <3>6, <3>7 DEF Falls
      <3>9. ASSUME n <= MaxRuns PROVE SumOfRows(RowsOf(n)) = row.of.profit + row.of.loss
        <4>1. n \in 1 .. MaxRuns
          BY <2>2, <3>9, FeedbackAssumption
        <4>2. SumOfRows({StrategyRow(n, T, k) : k \in KeysOf(T)}) = Sum(T)
          BY <2>4, KeysAddUp
        <4> QED
          BY <2>6, <3>5, <3>6, <4>1, <4>2
      <3> QED
        BY <3>3, <3>4, <3>8, <3>9
    <2>8. row # None <=> (\E t \in T : t.account = a)
      BY <2>5, <2>7
    <2>9. row # None =>
             /\ row.of = Totals(T)
             /\ Falls(row) <= row.drawdown /\ row.drawdown <= -row.of.loss
             /\ n <= MaxRuns => SumOfRows(RowsOf(n)) = row.of.profit + row.of.loss
      BY <2>5, <2>7
    <2> QED
      BY <2>3, <2>8, <2>9 DEF row, n, T
  <1> QED
    BY <1>1, Invariance, PTL

\* No event disables a strategy or asks for a review, as rows lack a drawdown; and
\* a row that calls for advice has it of every run that advised on a newer one.
THEOREM AdviceIsExplained == Spec => []AdviceExplained
  <1>1. IInv => AdviceExplained
    <2> SUFFICES ASSUME IInv PROVE AdviceExplained
      OBVIOUS
    <2>1. TypeOK /\ EventsInv
      BY DEF IInv
    <2>2. \A e \in events : /\ e.advice \in {"NEED_MORE_DATA", "REDUCE_RISK"}
                            /\ e.run >= e.of[1]
      BY <2>1 DEF EventsInv, TypeOK
    <2>3. ASSUME NEW r \in judged, NEW s \in judged, r.run < s.run, Advice(r) # "KEEP_ACTIVE",
                 NEW e \in events, e.of = <<s.run, s.key>>
          PROVE  \E f \in events : f.of = <<r.run, r.key>> /\ f.run = e.run
      <3>1. e.of[1] = s.run
        BY <2>3
      <3> QED
        BY <2>1, <2>3, <3>1 DEF EventsInv
    <2>4. ASSUME NEW r \in judged, NEW s \in judged, r.run < s.run,
                 Advice(r) # "KEEP_ACTIVE", Advice(s) # "KEEP_ACTIVE"
          PROVE  {e.run : e \in {f \in events : f.of = <<s.run, s.key>>}}
                   \subseteq {e.run : e \in {f \in events : f.of = <<r.run, r.key>>}}
      BY <2>3, <2>4
    <2> QED
      BY <2>2, <2>4 DEF AdviceExplained
  <1> QED
    BY <1>1, Invariance, PTL
=============================================================================
