--------------------------------- MODULE Loop ---------------------------------
(***************************************************************************)
(* A loop of the code: Round changes what the loop works on until Over is  *)
(* true of it.  A recursive function instead of a RECURSIVE operator, with *)
(* a bound on the number of rounds, so that its result can be reasoned     *)
(* about: it is the last of the states the loop runs through, each of      *)
(* which follows from the one before it, and a property of it is proved    *)
(* over the rounds (LoopInvariant).                                        *)
(***************************************************************************)
EXTENDS NaturalsInduction, WellFoundedInduction, TLAPS

CONSTANTS
  Over(_),   \* the loop ends here
  Round(_)   \* one pass through its body

\* What is left of x after at most n rounds.
Repeat(x, n) ==
  LET run[k \in 0..n] ==
        IF k = 0 THEN x
        ELSE LET y == run[k - 1] IN IF Over(y) THEN y ELSE Round(y)
  IN  run[n]

-----------------------------------------------------------------------------
\* A nonempty set of naturals has a least element.
LEMMA Minimum ==
  ASSUME NEW S \in SUBSET Nat, S # {}
  PROVE  \E x \in S : \A y \in S : x <= y
<1>1. IsWellFoundedOn(OpToRel(<, Nat), Nat)
  BY NatLessThanWellFounded
<1>2. PICK x \in S : \A y \in S : ~ (<<y, x>> \in OpToRel(<, Nat))
  BY <1>1, WFMin
<1>3. \A y \in S : ~(y < x)
  BY <1>2 DEF OpToRel
<1> QED  BY <1>3

\* A set of rounds that has the first one, and the next one of each it has,
\* has the last one.
LEMMA Climb ==
  ASSUME NEW n \in Nat, NEW T, 0 \in T, \A k \in 0..(n - 1) : k \in T => k + 1 \in T
  PROVE  n \in T
<1> DEFINE Missing == {k \in 0..n : k \notin T}
<1>1. SUFFICES ASSUME Missing # {} PROVE FALSE
  OBVIOUS
<1>2. PICK k \in Missing : \A j \in Missing : k <= j
  <2>1. Missing \in SUBSET Nat
    OBVIOUS
  <2> QED  BY <1>1, <2>1, Minimum
<1>3. k # 0 /\ k \in 0..n
  BY <1>2
<1>4. k - 1 \in 0..(n - 1) /\ k - 1 \notin Missing /\ k - 1 \in 0..n
  BY <1>2, <1>3
<1>5. (k - 1) + 1 \in T
  BY <1>4
<1> QED  BY <1>2, <1>3, <1>5

\* One round, or none when the loop is over.
Go(y) == IF Over(y) THEN y ELSE Round(y)

\* The recursion of Repeat.
Run(x, n, f) == f = [k \in 0..n |-> IF k = 0 THEN x ELSE Go(f[k - 1])]

\* The recursion of Repeat has a solution, by Climb over the number of rounds.
LEMMA RunExists ==
  ASSUME NEW x, NEW n \in Nat
  PROVE  \E f : Run(x, n, f)
<1> DEFINE T == {k \in Nat : \E f : Run(x, k, f)}
<1>1. 0 \in T
  <2> DEFINE f == [k \in 0..0 |-> x]
  <2>1. f = [k \in 0..0 |-> IF k = 0 THEN x ELSE Go(f[k - 1])]
    OBVIOUS
  <2>2. Run(x, 0, f)
    BY <2>1 DEF Run
  <2> QED  BY <2>2
<1>2. ASSUME NEW k \in 0..(n - 1), k \in T PROVE k + 1 \in T
  <2>1. PICK g : Run(x, k, g)
    BY <1>2
  <2> DEFINE f == [j \in 0..(k + 1) |-> IF j = k + 1 THEN Go(g[k]) ELSE g[j]]
  <2>2. ASSUME NEW j \in 0..(k + 1)
        PROVE  f[j] = IF j = 0 THEN x ELSE Go(f[j - 1])
    <3>1. CASE j = k + 1
      <4>1. j # 0 /\ k \in 0..(k + 1) /\ k # k + 1 /\ j - 1 = k
        BY <3>1
      <4>2. f[k] = g[k] /\ f[j] = Go(g[k])
        BY <3>1, <4>1
      <4> QED  BY <4>1, <4>2
    <3>2. CASE j # k + 1
      <4>1. j \in 0..k /\ f[j] = g[j]
        BY <3>2
      <4>2. g[j] = IF j = 0 THEN x ELSE Go(g[j - 1])
        BY <2>1, <4>1 DEF Run
      <4>3. j # 0 => j - 1 \in 0..(k + 1) /\ j - 1 # k + 1 /\ f[j - 1] = g[j - 1]
        BY <4>1
      <4> HIDE DEF f
      <4> QED  BY <4>1, <4>2, <4>3
    <3> QED  BY <3>1, <3>2
  <2>3. f = [j \in 0..(k + 1) |-> f[j]]
    OBVIOUS
  <2> HIDE DEF f
  <2>4. f = [j \in 0..(k + 1) |-> IF j = 0 THEN x ELSE Go(f[j - 1])]
    BY <2>2, <2>3
  <2>5. Run(x, k + 1, f)
    BY <2>4 DEF Run
  <2> QED  BY <2>5
<1> HIDE DEF T
<1>3. n \in T
  BY <1>1, <1>2, Climb
<1> QED  BY <1>3 DEF T

\* Repeat(x, n) is the last state of a run that starts at x.
LEMMA LoopRun ==
  ASSUME NEW x, NEW n \in Nat
  PROVE  \E f : /\ f[0] = x /\ f[n] = Repeat(x, n)
                /\ \A k \in 0..(n - 1) : Over(f[k]) => f[k + 1] = f[k]
                /\ \A k \in 0..(n - 1) : ~Over(f[k]) => f[k + 1] = Round(f[k])
<1> DEFINE f == CHOOSE g : Run(x, n, g)
<1>1. Run(x, n, f)
  BY RunExists
<1>2. Repeat(x, n) = f[n]
  BY DEF Repeat, Run, Go
<1>3. \A k \in 0..n : f[k] = IF k = 0 THEN x ELSE Go(f[k - 1])
  BY <1>1 DEF Run
<1>4. f[0] = x
  BY <1>3
<1>5. ASSUME NEW k \in 0..(n - 1) PROVE f[k + 1] = Go(f[k])
  <2>1. k + 1 \in 0..n /\ k + 1 # 0 /\ (k + 1) - 1 = k
    OBVIOUS
  <2> HIDE DEF f
  <2> QED  BY <1>3, <2>1
<1> HIDE DEF f
<1> QED  BY <1>2, <1>4, <1>5 DEF Go

\* An invariant of the rounds, as the set T of the states that have it: a set,
\* not an operator, so that it can be cited.  S holds the states passed through.
LEMMA LoopInvariant ==
  ASSUME NEW x, NEW n \in Nat
  PROVE  \E S : /\ x \in S
                /\ \A T \in SUBSET S :
                     x \in T /\ (\A y \in T : ~Over(y) /\ Round(y) \in S => Round(y) \in T)
                       => Repeat(x, n) \in T
<1>1. PICK f : /\ f[0] = x /\ f[n] = Repeat(x, n)
               /\ \A k \in 0..(n - 1) : Over(f[k]) => f[k + 1] = f[k]
               /\ \A k \in 0..(n - 1) : ~Over(f[k]) => f[k + 1] = Round(f[k])
  BY LoopRun
<1> DEFINE S == {f[k] : k \in 0..n}
<1>2. x \in S
  BY <1>1
<1>3. ASSUME NEW T \in SUBSET S, x \in T,
             \A y \in T : ~Over(y) /\ Round(y) \in S => Round(y) \in T
      PROVE  Repeat(x, n) \in T
  <2> DEFINE K == {k \in 0..n : f[k] \in T}
  <2>1. 0 \in K
    BY <1>1, <1>3
  <2>2. ASSUME NEW k \in 0..(n - 1), k \in K PROVE k + 1 \in K
    <3>1. k + 1 \in 0..n /\ f[k + 1] \in S /\ f[k] \in T
      BY <2>2
    <3>2. CASE Over(f[k])
      BY <1>1, <3>1, <3>2
    <3>3. CASE ~Over(f[k])
      <4>1. f[k + 1] = Round(f[k])
        BY <1>1, <3>3
      <4>2. f[k + 1] \in T
        BY <1>3, <3>1, <3>3, <4>1
      <4> QED  BY <3>1, <4>2
    <3> QED  BY <3>2, <3>3
  <2> HIDE DEF K
  <2>3. n \in K
    BY <2>1, <2>2, Climb
  <2> QED  BY <1>1, <2>3 DEF K
<1> QED  BY <1>2, <1>3
=============================================================================
