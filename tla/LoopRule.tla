------------------------------ MODULE LoopRule ------------------------------
(***************************************************************************)
(* The proof rule of a loop over a sequence: what holds before the first   *)
(* round, and is kept by each, holds at the end.  A module that has such a *)
(* loop, written as a recursive function of the round, gets the rule by    *)
(* instantiating this one with the loop's body and its invariant.          *)
(***************************************************************************)
EXTENDS Integers, Sequences, WellFoundedInduction, TLAPS

CONSTANTS
  Start,             \* what the loop's variables hold before it
  Body(_, _, _),     \* what a round makes of them and of the sequence's element, given
                     \* what the loop only reads
  Holds(_, _, _, _)  \* the invariant: of what is only read, the sequence, the rounds
                     \* done and the variables

\* f says what the variables hold after each of the first n rounds.
Rounds(c, s, n, f) ==
  f = [i \in 0 .. n |-> IF i = 0 THEN Start ELSE Body(c, f[i - 1], s[i])]

\* What they hold at the end
Loop(c, s) ==
  LET f[i \in 0 .. Len(s)] == IF i = 0 THEN Start ELSE Body(c, f[i - 1], s[i])
  IN f[Len(s)]

-----------------------------------------------------------------------------

\* A set of numbers that is not empty has a least one: induction, without an operator.
LEMMA LeastNumber ==
  ASSUME NEW S \in SUBSET Nat, S # {}
  PROVE  \E x \in S : \A y \in S : x <= y
<1>1. PICK x \in S : \A y \in S : ~(<<y, x>> \in OpToRel(<, Nat))
  BY NatLessThanWellFounded, WFMin
<1>2. \A y \in S : ~(y < x)
  BY <1>1 DEF OpToRel
<1> QED BY <1>2

\* One more round can always be made.
LEMMA RoundAfter ==
  ASSUME NEW c, NEW s, NEW n \in Nat \ {0}, NEW f, Rounds(c, s, n - 1, f)
  PROVE  \E g : Rounds(c, s, n, g)
<1> DEFINE g == [i \in 0 .. n |-> IF i = n THEN Body(c, f[n - 1], s[n]) ELSE f[i]]
<1>1. \A i \in 0 .. n - 1 : f[i] = IF i = 0 THEN Start ELSE Body(c, f[i - 1], s[i])
  BY DEF Rounds
<1>2. \A i \in 0 .. n - 1 : g[i] = f[i]
  OBVIOUS
<1>3. g[n] = Body(c, g[n - 1], s[n])
  OBVIOUS
<1>4. \A i \in 0 .. n : g[i] = IF i = 0 THEN Start ELSE Body(c, g[i - 1], s[i])
  BY <1>1, <1>2, <1>3
<1>5. g = [i \in 0 .. n |-> g[i]]
  OBVIOUS
<1> HIDE DEF g
<1>6. g = [i \in 0 .. n |-> IF i = 0 THEN Start ELSE Body(c, g[i - 1], s[i])]
  BY <1>4, <1>5
<1> QED BY <1>6 DEF Rounds

LEMMA RoundsExist ==
  ASSUME NEW c, NEW s, NEW n \in Nat
  PROVE  \E f : Rounds(c, s, n, f)
<1> DEFINE Bad == {k \in Nat : ~\E f : Rounds(c, s, k, f)}
<1>1. ASSUME Bad # {} PROVE FALSE
  <2>1. PICK k \in Bad : \A y \in Bad : k <= y
    BY <1>1, LeastNumber
  <2>2. k # 0
    <3>1. Rounds(c, s, 0, [i \in 0 .. 0 |-> Start])
      BY DEF Rounds
    <3> QED BY <3>1
  <2>3. PICK f : Rounds(c, s, k - 1, f)
    BY <2>1, <2>2
  <2> QED BY <2>1, <2>2, <2>3, RoundAfter
<1> QED BY <1>1

\* The recursive function of a loop is well defined.
LEMMA LoopIsItsRounds ==
  ASSUME NEW c, NEW s, Len(s) \in Nat
  PROVE  \E f : Rounds(c, s, Len(s), f) /\ Loop(c, s) = f[Len(s)]
<1> DEFINE f[i \in 0 .. Len(s)] == IF i = 0 THEN Start ELSE Body(c, f[i - 1], s[i])
<1>1. \E g : g = [i \in 0 .. Len(s) |-> IF i = 0 THEN Start ELSE Body(c, g[i - 1], s[i])]
  <2>1. PICK g : Rounds(c, s, Len(s), g)
    BY RoundsExist
  <2> QED BY <2>1 DEF Rounds
<1>2. f = [i \in 0 .. Len(s) |-> IF i = 0 THEN Start ELSE Body(c, f[i - 1], s[i])]
  BY <1>1, Zenon
<1> QED BY <1>2, Zenon DEF Loop, Rounds

\* The rule itself, for sequences of any length: the first round after which the
\* invariant did not hold would be one that broke it.
LEMMA LoopKeeps ==
  ASSUME NEW c, NEW s, Len(s) \in Nat, Holds(c, s, 0, Start),
         \A v : \A i \in 1 .. Len(s) : Holds(c, s, i - 1, v) => Holds(c, s, i, Body(c, v, s[i]))
  PROVE  Holds(c, s, Len(s), Loop(c, s))
<1>1. PICK f : Rounds(c, s, Len(s), f) /\ Loop(c, s) = f[Len(s)]
  BY LoopIsItsRounds
<1>2. f[0] = Start /\ \A i \in 1 .. Len(s) : f[i] = Body(c, f[i - 1], s[i])
  BY <1>1 DEF Rounds
<1> DEFINE Bad == {k \in 0 .. Len(s) : ~Holds(c, s, k, f[k])}
<1>3. ASSUME Bad # {} PROVE FALSE
  <2>1. PICK k \in Bad : \A y \in Bad : k <= y
    <3>1. Bad \in SUBSET Nat
      OBVIOUS
    <3> HIDE DEF Bad
    <3> QED BY <1>3, <3>1, LeastNumber
  <2>2. k \in 1 .. Len(s)
    BY <2>1, <1>2
  <2>3. Holds(c, s, k - 1, f[k - 1])
    BY <2>1, <2>2
  <2> QED BY <1>2, <2>1, <2>2, <2>3
<1> QED BY <1>1, <1>3
=============================================================================
