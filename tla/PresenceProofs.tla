---------------------------- MODULE PresenceProofs ----------------------------
(* For every size of the windows, every majority and bound, every detector   *)
(* and every order of packets, publications, calibrations and lost links:    *)
(* the hold of motion for a still person is bounded, the statistics that are *)
(* carried along are those of the window, and the state does not flicker.    *)
EXTENDS Presence, FiniteSetTheorems, SequenceTheorems, WellFoundedInduction, TLAPS

HoldCounts ==
  /\ hold \in Nat /\ hold < HoldMax
  /\ held \in Nat /\ held < HoldMax

\* The history agrees with the counter for as long as the hold has not run out.  The
\* counter alone does not carry the proof: it starts again from 0 when it runs out.
HInv == HoldCounts /\ (~expired => held = hold)

LEMMA HoldMaxIsPositive == HoldMax \in Nat /\ HoldMax > 0
BY ConstantsAssumption DEF ConstantsAssumption

LEMMA InitHInv == Init => HInv
BY HoldMaxIsPositive DEF Init, HInv, HoldCounts

LEMMA HoldUnchanged == ASSUME HInv, UNCHANGED <<hold, expired, held>> PROVE HInv'
BY DEF HInv, HoldCounts

\* The four outcomes of a publication.
LEMMA HoldOutcomes ==
  ASSUME PresenceHold
  PROVE  \/ hold' = 0 /\ expired' = FALSE /\ held' = 0
         \/ ~expired /\ hold + 1 < HoldMax /\ hold' = hold + 1 /\ held' = held + 1 /\ UNCHANGED expired
         \/ hold' = 0 /\ expired' = TRUE /\ UNCHANGED held
         \/ UNCHANGED <<hold, expired, held>>
<1> DEFINE moved == pendingState = "MOTION"
                      \/ (Full(detector) /\ detector.based /\ ~StillPerson(detector))
           holds == pendingState = "IDLE" /\ StillPerson(detector) /\ ~expired /\ hold + 1 < HoldMax
           ends == pendingState = "IDLE" /\ StillPerson(detector) /\ ~expired /\ hold + 1 >= HoldMax
<1>1. CASE moved
  BY <1>1, Zenon DEF PresenceHold
<1>2. CASE ~moved /\ holds
  BY <1>2, Zenon DEF PresenceHold
<1>3. CASE ~moved /\ ~holds /\ ends
  BY <1>3, Zenon DEF PresenceHold
<1>4. CASE ~moved /\ ~holds /\ ~ends
  BY <1>4, Zenon DEF PresenceHold
<1> QED
  BY <1>1, <1>2, <1>3, <1>4

LEMMA PresenceHoldKeeps == ASSUME HInv, PresenceHold PROVE HInv'
<1> USE HoldMaxIsPositive DEF HInv, HoldCounts
<1>1. CASE hold' = 0 /\ expired' = FALSE /\ held' = 0
  BY <1>1
<1>2. CASE /\ ~expired /\ hold + 1 < HoldMax
           /\ hold' = hold + 1 /\ held' = held + 1 /\ UNCHANGED expired
  BY <1>2
<1>3. CASE hold' = 0 /\ expired' = TRUE /\ UNCHANGED held
  BY <1>3
<1>4. CASE UNCHANGED <<hold, expired, held>>
  BY <1>4
<1> QED
  BY <1>1, <1>2, <1>3, <1>4, HoldOutcomes

LEMMA StepHInv == HInv /\ [Next]_vars => HInv'
<1> SUFFICES ASSUME HInv, [Next]_vars PROVE HInv'
  OBVIOUS
<1>1. CASE TakePublication
  BY <1>1, PresenceHoldKeeps, HoldUnchanged DEF TakePublication
<1>2. CASE AnyPacket \/ PublishAll \/ ChooseThreshold \/ ApplyCalibration \/ Disconnect
             \/ Connect \/ UNCHANGED vars
  <2>1. UNCHANGED <<hold, expired, held>>
    BY <1>2 DEF AnyPacket, PublishAll, ChooseThreshold, ApplyCalibration, Disconnect, Connect,
       shown, vars
  <2> QED
    BY <2>1, HoldUnchanged
<1> QED
  BY <1>1, <1>2 DEF Next, LoopStep

\* A person who only breathes is shown as motion for fewer publications than the limit,
\* and not again before something moves: whatever the two tasks do in between, nothing
\* but process_csi_publish_ touches the counter or forgets that it has run out
\* (espectre.cpp:375-421).
THEOREM HoldIsBoundedHolds == Spec => []HoldIsBounded
<1>1. Spec => []HInv
  BY InitHInv, StepHInv, PTL DEF Spec
<1>2. HInv => HoldIsBounded
  BY DEF HInv, HoldCounts, HoldIsBounded
<1> QED
  BY <1>1, <1>2, PTL

-----------------------------------------------------------------------------
(* Induction, for sets of numbers: a set that is not all numbers has a      *)
(* least one missing.                                                       *)

LEMMA LessWellFounded == IsWellFoundedOn({p \in Nat \X Nat : p[1] < p[2]}, Nat)
BY NatLessThanWellFounded DEF OpToRel

LEMMA LeastElement ==
  ASSUME NEW S, S \subseteq Nat, S # {}
  PROVE  \E m \in S : \A n \in S : m <= n
<1>1. PICK m \in S : \A n \in S : ~ (<<n, m>> \in {p \in Nat \X Nat : p[1] < p[2]})
  BY LessWellFounded, WFMin
<1>2. ASSUME NEW n \in S PROVE m <= n
  <2>1. m \in Nat /\ n \in Nat
    OBVIOUS
  <2>2. ~(n < m)
    BY <1>1, <2>1
  <2> QED BY <2>1, <2>2
<1> QED BY <1>2

LEMMA Induction ==
  ASSUME NEW G, 0 \in G, \A n \in Nat : n \in G => n + 1 \in G
  PROVE  \A n \in Nat : n \in G
<1> SUFFICES ASSUME Nat \ G # {} PROVE FALSE
  OBVIOUS
<1>1. PICK m \in Nat \ G : \A n \in Nat \ G : m <= n
  BY LeastElement
<1>2. m # 0 /\ m - 1 \in Nat /\ m - 1 < m
  BY <1>1
<1>3. m - 1 \in G
  BY <1>1, <1>2
<1> QED BY <1>1, <1>2, <1>3

-----------------------------------------------------------------------------
(* Sums over the window.                                                    *)

\* f sums up the first n values of s.
Sums(s, n, f) == f[0] = 0 /\ \A i \in 1..n : f[i] = s[i] + f[i - 1]

\* The recursion in SumOf has a solution.
LEMMA SumsExist ==
  ASSUME NEW s \in Seq(Int)
  PROVE  \E f \in [0..Len(s) -> Int] :
           f = [i \in 0..Len(s) |-> IF i = 0 THEN 0 ELSE s[i] + f[i - 1]]
<1> DEFINE Solves(n, f) == f = [i \in 0..n |-> IF i = 0 THEN 0 ELSE s[i] + f[i - 1]]
           Solved(n) == n <= Len(s) => \E f \in [0..n -> Int] : Solves(n, f)
           G == {n \in Nat : Solved(n)}
<1>1. Solved(0)
  <2> DEFINE f == [i \in 0..0 |-> 0]
  <2>1. f \in [0..0 -> Int] /\ Solves(0, f)
    OBVIOUS
  <2> QED BY <2>1
<1>2. ASSUME NEW n \in Nat, Solved(n), n + 1 <= Len(s) PROVE \E g \in [0..(n + 1) -> Int] : Solves(n + 1, g)
  <2> HIDE DEF Solves
  <2>1. PICK f \in [0..n -> Int] : Solves(n, f)
    BY <1>2
  <2> USE DEF Solves
  <2>2. \A i \in 0..n : f[i] = IF i = 0 THEN 0 ELSE s[i] + f[i - 1]
    BY <2>1
  <2>3. s[n + 1] \in Int /\ f[n] \in Int
    BY <1>2
  <2> DEFINE g == [i \in 0..(n + 1) |-> IF i = n + 1 THEN s[n + 1] + f[n] ELSE f[i]]
  <2>4. g \in [0..(n + 1) -> Int]
    BY <2>3
  <2>5. ASSUME NEW i \in 0..(n + 1) PROVE g[i] = (IF i = 0 THEN 0 ELSE s[i] + g[i - 1])
    <3>1. CASE i = n + 1
      BY <3>1
    <3>2. CASE i # n + 1
      <4>1. i \in 0..n /\ (i # 0 => i - 1 \in 0..n)
        BY <3>2
      <4> QED BY <2>2, <3>2, <4>1
    <3> QED BY <3>1, <3>2
  <2>6. Solves(n + 1, g)
    BY <2>5
  <2> QED BY <2>4, <2>6
<1>3. \A n \in Nat : Solved(n) => Solved(n + 1)
  BY <1>2
<1> HIDE DEF Solved
<1>4. \A n \in Nat : n \in G
  <2>1. 0 \in G /\ \A n \in Nat : n \in G => n + 1 \in G
    BY <1>1, <1>3
  <2> HIDE DEF G
  <2> QED BY <2>1, Induction
<1>5. Solved(Len(s))
  BY <1>4
<1> QED BY <1>5 DEF Solved

LEMMA SumsAgree ==
  ASSUME NEW s \in Seq(Int), NEW f, NEW g, Sums(s, Len(s), f), Sums(s, Len(s), g)
  PROVE  f[Len(s)] = g[Len(s)]
<1> DEFINE G == {n \in Nat : n <= Len(s) => f[n] = g[n]}
<1>1. 0 \in G
  BY DEF Sums
<1>2. ASSUME NEW n \in Nat, n \in G, n + 1 <= Len(s) PROVE f[n + 1] = g[n + 1]
  <2>1. f[n] = g[n] /\ n + 1 \in 1..Len(s) /\ (n + 1) - 1 = n
    BY <1>2
  <2> QED BY <2>1 DEF Sums
<1>3. \A n \in Nat : n \in G => n + 1 \in G
  BY <1>2
<1>4. \A n \in Nat : n \in G
  <2> HIDE DEF G
  <2> QED BY <1>1, <1>3, Induction
<1> QED BY <1>4

LEMMA SolutionSums ==
  ASSUME NEW s \in Seq(Int), NEW f, f = [i \in 0..Len(s) |-> IF i = 0 THEN 0 ELSE s[i] + f[i - 1]]
  PROVE  Sums(s, Len(s), f)
<1>1. \A i \in 0..Len(s) : f[i] = IF i = 0 THEN 0 ELSE s[i] + f[i - 1]
  OBVIOUS
<1>2. Len(s) \in Nat
  OBVIOUS
<1> QED BY <1>1, <1>2 DEF Sums

LEMMA SumUnfolds ==
  ASSUME NEW s \in Seq(Int)
  PROVE  \E f \in [0..Len(s) -> Int] : Sums(s, Len(s), f) /\ SumOf(s) = f[Len(s)]
<1> DEFINE Solves(f) == f = [i \in 0..Len(s) |-> IF i = 0 THEN 0 ELSE s[i] + f[i - 1]]
           sum == CHOOSE f : Solves(f)
<1>1. PICK f \in [0..Len(s) -> Int] : Solves(f)
  BY SumsExist
<1>2. Solves(sum)
  BY <1>1
<1>3. SumOf(s) = sum[Len(s)]
  BY DEF SumOf
<1> HIDE DEF sum
<1>4. Sums(s, Len(s), f) /\ Sums(s, Len(s), sum)
  BY <1>1, <1>2, SolutionSums
<1>5. sum[Len(s)] = f[Len(s)]
  BY <1>4, SumsAgree
<1> QED BY <1>3, <1>4, <1>5

\* Whatever sums up all of s has the sum of s at its end.
LEMMA SumUnique ==
  ASSUME NEW s \in Seq(Int), NEW f, Sums(s, Len(s), f)
  PROVE  SumOf(s) = f[Len(s)]
<1>1. PICK g \in [0..Len(s) -> Int] : Sums(s, Len(s), g) /\ SumOf(s) = g[Len(s)]
  BY SumUnfolds
<1> QED BY <1>1, SumsAgree

LEMMA SumOfNothing == SumOf(<<>>) = 0
<1>1. <<>> \in Seq(Int) /\ Len(<<>>) = 0
  OBVIOUS
<1>2. PICK f \in [0..0 -> Int] : Sums(<<>>, 0, f) /\ SumOf(<<>>) = f[0]
  BY <1>1, SumUnfolds
<1> QED BY <1>2 DEF Sums

LEMMA SumIsInteger == ASSUME NEW s \in Seq(Int) PROVE SumOf(s) \in Int
BY SumUnfolds

LEMMA SumOfAppended ==
  ASSUME NEW s \in Seq(Int), NEW t \in Int
  PROVE  SumOf(Append(s, t)) = SumOf(s) + t
<1> DEFINE n == Len(s)
           a == Append(s, t)
<1>1. PICK f \in [0..n -> Int] : Sums(s, n, f) /\ SumOf(s) = f[n]
  BY SumUnfolds
<1>2. a \in Seq(Int) /\ Len(a) = n + 1 /\ a[n + 1] = t /\ n \in Nat /\ \A i \in 1..n : a[i] = s[i]
  OBVIOUS
<1> DEFINE g == [i \in 0..(n + 1) |-> IF i = n + 1 THEN t + f[n] ELSE f[i]]
<1>3. Sums(a, n + 1, g)
  <2>1. g[0] = 0
    BY <1>1, <1>2 DEF Sums
  <2>2. ASSUME NEW i \in 1..(n + 1) PROVE g[i] = a[i] + g[i - 1]
    <3>1. CASE i = n + 1
      BY <1>2, <3>1
    <3>2. CASE i # n + 1
      BY <1>1, <1>2, <3>2 DEF Sums
    <3> QED BY <3>1, <3>2
  <2> QED BY <2>1, <2>2 DEF Sums
<1> HIDE DEF a
<1>4. SumOf(a) = g[n + 1]
  BY <1>2, <1>3, SumUnique
<1>5. g[n + 1] = t + f[n] /\ f[n] \in Int
  BY <1>2
<1>6. SumOf(a) = SumOf(s) + t
  BY <1>1, <1>4, <1>5
<1> QED BY <1>6 DEF a

LEMMA SumOfTail ==
  ASSUME NEW s \in Seq(Int), s # <<>>
  PROVE  SumOf(Tail(s)) = SumOf(s) - s[1]
<1> DEFINE n == Len(s)
           a == Tail(s)
<1>1. PICK f \in [0..n -> Int] : Sums(s, n, f) /\ SumOf(s) = f[n]
  BY SumUnfolds
<1>2. /\ a \in Seq(Int) /\ Len(a) = n - 1 /\ n \in Nat /\ n > 0
      /\ \A i \in 1..(n - 1) : a[i] = s[i + 1]
  OBVIOUS
<1> DEFINE g == [i \in 0..(n - 1) |-> f[i + 1] - s[1]]
<1>3. \A i \in 1..n : s[i] \in Int
  BY <1>2
<1> HIDE DEF a, n
<1>4. Sums(a, n - 1, g)
  <2>1. g[0] = 0
    <3>1. f[1] = s[1] + f[0] /\ f[0] = 0
      BY <1>1, <1>2 DEF Sums
    <3> QED BY <1>2, <1>3, <3>1
  <2>2. ASSUME NEW i \in 1..(n - 1) PROVE g[i] = a[i] + g[i - 1]
    <3>1. i + 1 \in 1..n /\ (i + 1) - 1 = i /\ i \in 0..n /\ i \in 0..(n - 1) /\ i - 1 \in 0..(n - 1)
      BY <1>2
    <3>2. f[i + 1] = s[i + 1] + f[i]
      BY <1>1, <3>1 DEF Sums
    <3>3. g[i] = f[i + 1] - s[1] /\ g[i - 1] = f[i] - s[1]
      BY <3>1
    <3>4. f[i] \in Int /\ s[i + 1] \in Int /\ s[1] \in Int /\ a[i] = s[i + 1]
      BY <1>2, <1>3, <3>1
    <3> QED BY <3>2, <3>3, <3>4
  <2> QED BY <2>1, <2>2 DEF Sums
<1>5. SumOf(a) = g[n - 1]
  BY <1>2, <1>4, SumUnique
<1>6. g[n - 1] = f[n] - s[1]
  BY <1>2
<1> QED BY <1>1, <1>5, <1>6 DEF a, n

Squares(s) == [i \in 1..Len(s) |-> s[i] * s[i]]

LEMMA SquaresAreIntegers ==
  ASSUME NEW s \in Seq(Int)
  PROVE  Squares(s) \in Seq(Int) /\ Len(Squares(s)) = Len(s) /\ SumOfSquares(s) = SumOf(Squares(s))
BY DEF Squares, SumOfSquares

LEMMA SquaresAppended ==
  ASSUME NEW s \in Seq(Int), NEW t \in Int
  PROVE  SumOfSquares(Append(s, t)) = SumOfSquares(s) + t * t
<1> DEFINE a == Append(s, t)
           b == Append(Squares(s), t * t)
<1>1. /\ a \in Seq(Int) /\ Len(a) = Len(s) + 1 /\ t * t \in Int
      /\ \A j \in 1..Len(s) : a[j] = s[j]
      /\ a[Len(s) + 1] = t
  OBVIOUS
<1> HIDE DEF a
<1>2. Squares(a) \in Seq(Int) /\ Len(Squares(a)) = Len(s) + 1
  BY <1>1, SquaresAreIntegers
<1>3. /\ b \in Seq(Int) /\ Len(b) = Len(s) + 1
      /\ \A j \in 1..Len(s) : b[j] = Squares(s)[j]
      /\ b[Len(s) + 1] = t * t
  BY <1>1, SquaresAreIntegers
<1> HIDE DEF b
<1>4. ASSUME NEW j \in 1..(Len(s) + 1) PROVE Squares(a)[j] = b[j]
  <2>1. Squares(a)[j] = a[j] * a[j]
    BY <1>1 DEF Squares
  <2>2. CASE j = Len(s) + 1
    BY <1>1, <1>3, <2>1, <2>2
  <2>3. CASE j # Len(s) + 1
    <3>1. j \in 1..Len(s)
      BY <2>3
    <3>2. Squares(s)[j] = s[j] * s[j]
      BY <3>1 DEF Squares
    <3> QED BY <1>1, <1>3, <2>1, <3>1, <3>2
  <2> QED BY <2>2, <2>3
<1>5. Squares(a) = b
  <2>1. \A j \in 1..Len(Squares(a)) : Squares(a)[j] = b[j]
    BY <1>2, <1>4
  <2> QED BY <1>2, <1>3, <2>1, SeqEqual
<1>6. SumOf(b) = SumOf(Squares(s)) + t * t
  BY <1>1, SquaresAreIntegers, SumOfAppended DEF b
<1>7. SumOfSquares(a) = SumOfSquares(s) + t * t
  BY <1>1, <1>5, <1>6, SquaresAreIntegers
<1> QED BY <1>7 DEF a

LEMMA SquaresOfTail ==
  ASSUME NEW s \in Seq(Int), s # <<>>
  PROVE  SumOfSquares(Tail(s)) = SumOfSquares(s) - s[1] * s[1]
<1> DEFINE a == Tail(s)
           b == Tail(Squares(s))
<1>1. /\ a \in Seq(Int) /\ Len(a) = Len(s) - 1 /\ Len(s) \in Nat /\ Len(s) > 0
      /\ \A j \in 1..(Len(s) - 1) : a[j] = s[j + 1]
  OBVIOUS
<1> HIDE DEF a
<1>2. Squares(a) \in Seq(Int) /\ Len(Squares(a)) = Len(s) - 1
  BY <1>1, SquaresAreIntegers
<1>3. /\ Squares(s) \in Seq(Int) /\ Squares(s) # <<>> /\ Squares(s)[1] = s[1] * s[1]
      /\ Len(Squares(s)) = Len(s)
  BY <1>1, SquaresAreIntegers DEF Squares
<1>4. /\ b \in Seq(Int) /\ Len(b) = Len(s) - 1
      /\ \A j \in 1..(Len(s) - 1) : b[j] = Squares(s)[j + 1]
  BY <1>1, <1>3
<1> HIDE DEF b
<1>5. ASSUME NEW j \in 1..(Len(s) - 1) PROVE Squares(a)[j] = b[j]
  <2>1. Squares(a)[j] = a[j] * a[j]
    BY <1>1 DEF Squares
  <2>2. j + 1 \in 1..Len(s)
    BY <1>1
  <2>3. Squares(s)[j + 1] = s[j + 1] * s[j + 1]
    BY <2>2 DEF Squares
  <2> QED BY <1>1, <1>4, <2>1, <2>3
<1>6. Squares(a) = b
  BY <1>2, <1>4, <1>5, SeqEqual
<1>7. SumOf(b) = SumOf(Squares(s)) - s[1] * s[1]
  BY <1>3, SumOfTail DEF b
<1>8. SumOfSquares(a) = SumOfSquares(s) - s[1] * s[1]
  BY <1>1, <1>6, <1>7, SquaresAreIntegers
<1> QED BY <1>8 DEF a

\* One more value keeps the mean of the squares above the square of the mean.
LEMMA OneMoreSquare ==
  ASSUME NEW n \in Nat, NEW a \in Int, NEW f \in Int, NEW h \in Nat, f * f <= n * h
  PROVE  (f + a) * (f + a) <= (n + 1) * (h + a * a) /\ h + a * a \in Nat
<1>1. h + a * a \in Nat
  OBVIOUS
<1>2. CASE n = 0
  <2>1. f = 0
    BY <1>2
  <2> QED BY <1>1, <1>2, <2>1
<1>3. CASE n > 0
  <2> DEFINE d == (n + 1) * (h + a * a) - (f + a) * (f + a)
  <2>1. n * d = (n + 1) * (n * h - f * f) + (f - n * a) * (f - n * a)
    OBVIOUS
  <2>2. (n + 1) * (n * h - f * f) >= 0 /\ (f - n * a) * (f - n * a) >= 0
    OBVIOUS
  <2>3. n * d >= 0 /\ d \in Int
    BY <2>1, <2>2
  <2> HIDE DEF d
  <2>4. d >= 0
    BY <1>3, <2>3
  <2> QED BY <1>1, <2>4 DEF d
<1> QED BY <1>2, <1>3

\* The mean of the squares is not below the square of the mean.
LEMMA SquaresDominate ==
  ASSUME NEW s \in Seq(Int)
  PROVE  SumOf(s) * SumOf(s) <= Len(s) * SumOfSquares(s)
<1>1. PICK f \in [0..Len(s) -> Int] : Sums(s, Len(s), f) /\ SumOf(s) = f[Len(s)]
  BY SumUnfolds
<1>2. PICK h \in [0..Len(s) -> Int] :
        Sums(Squares(s), Len(s), h) /\ SumOfSquares(s) = h[Len(s)]
  BY SumUnfolds, SquaresAreIntegers
<1> DEFINE G == {n \in Nat : n <= Len(s) => f[n] * f[n] <= n * h[n] /\ h[n] \in Nat}
<1>3. 0 \in G
  BY <1>1, <1>2 DEF Sums
<1>4. ASSUME NEW n \in Nat, n \in G, n + 1 <= Len(s)
      PROVE  f[n + 1] * f[n + 1] <= (n + 1) * h[n + 1] /\ h[n + 1] \in Nat
  <2>1. n + 1 \in 1..Len(s) /\ (n + 1) - 1 = n /\ n \in 0..Len(s)
    BY <1>4
  <2>2. f[n + 1] = s[n + 1] + f[n] /\ h[n + 1] = Squares(s)[n + 1] + h[n]
    BY <1>1, <1>2, <2>1 DEF Sums
  <2>3. s[n + 1] \in Int /\ f[n] \in Int
    BY <2>1
  <2>4. f[n] * f[n] <= n * h[n] /\ h[n] \in Nat
    BY <1>4, <2>1
  <2>5. /\ (f[n] + s[n + 1]) * (f[n] + s[n + 1]) <= (n + 1) * (h[n] + s[n + 1] * s[n + 1])
        /\ h[n] + s[n + 1] * s[n + 1] \in Nat
    BY <2>3, <2>4, OneMoreSquare
  <2>6. Squares(s)[n + 1] = s[n + 1] * s[n + 1]
    BY <2>1 DEF Squares
  <2>7. f[n + 1] = f[n] + s[n + 1]
    BY <2>2, <2>3
  <2>8. h[n + 1] = h[n] + s[n + 1] * s[n + 1]
    <3>1. s[n + 1] * s[n + 1] \in Int
      BY <2>3
    <3> HIDE DEF G
    <3> QED BY <2>2, <2>4, <2>6, <3>1
  <2> QED BY <2>5, <2>7, <2>8
<1>5. \A n \in Nat : n \in G => n + 1 \in G
  BY <1>4
<1>6. \A n \in Nat : n \in G
  <2> HIDE DEF G
  <2> QED BY <1>3, <1>5, Induction
<1>7. f[Len(s)] * f[Len(s)] <= Len(s) * h[Len(s)]
  BY <1>6
<1> QED BY <1>1, <1>2, <1>7

-----------------------------------------------------------------------------
(* The running mean and squares.                                            *)

Fields == {"window", "mean", "m2", "votes", "state", "warm", "based", "still"}

\* What is carried along, without division: the mean of the window and n times its
\* variance.  The mean of nothing is 0, where Welford's method starts.
WindowOK(d) ==
  /\ DOMAIN d = Fields
  /\ d.window \in Seq(Int) /\ d.mean \in Int /\ d.m2 \in Int
  /\ Len(d.window) <= Window
  /\ Len(d.window) * d.mean = Scale * SumOf(d.window)
  /\ d.m2 = Scale * Scale * SumOfSquares(d.window) - Len(d.window) * d.mean * d.mean
  /\ d.window = <<>> => d.mean = 0

LEMMA Divides ==
  ASSUME NEW n \in Nat, n > 0, NEW s \in Nat, s % n = 0
  PROVE  \E q \in Int : s = n * q
<1>1. s \div n \in Int
  OBVIOUS
<1>2. s = n * (s \div n)
  OBVIOUS
<1> QED BY <1>1, <1>2

LEMMA ScaleDivides ==
  /\ Window \in Nat /\ Window > 0 /\ Scale \in Nat
  /\ \A n \in 1..Window : \E q \in Int : Scale = n * q
<1>1. Window \in Nat /\ Window > 0 /\ Scale \in Nat
  BY ConstantsAssumption DEF ConstantsAssumption
<1>2. \A n \in 1..Window : Scale % n = 0
  BY ConstantsAssumption, Zenon DEF ConstantsAssumption
<1>3. ASSUME NEW n \in 1..Window PROVE \E q \in Int : Scale = n * q
  <2>1. Scale % n = 0 /\ n \in Nat /\ n > 0
    BY <1>1, <1>2
  <2> QED BY <1>1, <2>1, Divides
<1> QED BY <1>1, <1>3

LEMMA ExactDivision == ASSUME NEW n \in Nat, n > 0, NEW k \in Int PROVE (n * k) \div n = k
OBVIOUS

\* A value is added: the new mean g is that of n + 1 values.
LEMMA WelfordGrows ==
  ASSUME NEW n \in Nat, n + 1 <= Window, NEW mean \in Int, NEW sum \in Int, NEW t \in Int,
         n * mean = Scale * sum
  PROVE  LET x == Scale * t
             g == mean + (x - mean) \div (n + 1)
         IN  /\ g \in Int /\ (n + 1) * g = Scale * (sum + t)
             /\ (x - mean) * (x - g) - n * mean * mean = x * x - (n + 1) * g * g
<1> DEFINE x == Scale * t
           g == mean + (x - mean) \div (n + 1)
<1>1. PICK q \in Int : Scale = (n + 1) * q
  <2>1. n + 1 \in 1..Window
    BY ScaleDivides
  <2> QED BY <2>1, ScaleDivides
<1>2. x - mean = (n + 1) * (q * (sum + t) - mean)
  <2>1. (n + 1) * (q * (sum + t)) = Scale * (sum + t)
    BY <1>1
  <2>2. Scale * (sum + t) = Scale * sum + Scale * t
    BY ScaleDivides
  <2>3. x - mean = Scale * (sum + t) - (n + 1) * mean
    BY <2>2, ScaleDivides
  <2> QED BY <2>1, <2>3, ScaleDivides
<1>3. (x - mean) \div (n + 1) = q * (sum + t) - mean
  BY <1>2, ExactDivision
<1>4. g = q * (sum + t)
  BY <1>3
<1>5. g \in Int /\ x \in Int
  BY <1>4, ScaleDivides
<1>6. (n + 1) * g = Scale * (sum + t)
  BY <1>1, <1>4
<1>7. (n + 1) * g = n * mean + x
  BY <1>6, ScaleDivides
<1> HIDE DEF x, g
<1>8. x = g + n * (g - mean)
  BY <1>5, <1>7
<1>9. (x - mean) * (x - g) - n * mean * mean = x * x - (n + 1) * g * g
  BY <1>5, <1>8
<1> QED BY <1>5, <1>6, <1>9 DEF x, g

\* The oldest value makes room for a new one: the mean moves from mean to g.
LEMMA WindowSlides ==
  ASSUME NEW mean \in Int, NEW sum \in Int, NEW t \in Int, NEW u \in Int,
         Window * mean = Scale * sum
  PROVE  LET x == Scale * t
             old == Scale * u
             g == mean + (x - old) \div Window
         IN  /\ g \in Int /\ Window * g = Scale * (sum - u + t)
             /\ (x - old) * (x - g + old - mean) - Window * mean * mean
                  = x * x - old * old - Window * g * g
<1> DEFINE x == Scale * t
           old == Scale * u
           g == mean + (x - old) \div Window
<1>1. PICK q \in Int : Scale = Window * q
  BY ScaleDivides
<1>2. x - old = Window * (q * (t - u))
  BY <1>1, ScaleDivides
<1>3. (x - old) \div Window = q * (t - u)
  BY <1>2, ExactDivision, ScaleDivides
<1>4. g = mean + q * (t - u)
  BY <1>3
<1>5. g \in Int /\ x \in Int /\ old \in Int
  BY <1>4, ScaleDivides
<1>6. Window * g = Window * mean + (x - old)
  BY <1>2, <1>4, ScaleDivides
<1>7. Window * g = Scale * (sum - u + t)
  BY <1>6, ScaleDivides
<1> HIDE DEF x, g, old
<1>8. (x - old) * (x - g + old - mean) = (x * x - old * old) - (x - old) * (g + mean)
  BY <1>5
<1>9. x - old = Window * (g - mean)
  BY <1>5, <1>6, ScaleDivides
<1>10. (x - old) * (g + mean) = Window * g * g - Window * mean * mean
  BY <1>5, <1>9, ScaleDivides
<1>11. (x - old) * (x - g + old - mean) - Window * mean * mean
         = x * x - old * old - Window * g * g
  BY <1>5, <1>8, <1>10, ScaleDivides
<1> QED BY <1>5, <1>7, <1>11 DEF x, g, old

LEMMA WindowScale == Window \in Nat /\ Window > 0 /\ Scale \in Nat
BY ScaleDivides

LEMMA Longer ==
  ASSUME NEW v \in Seq(Int), NEW t \in Int
  PROVE  Append(v, t) \in Seq(Int) /\ Len(Append(v, t)) = Len(v) + 1 /\ Append(v, t) # <<>>
BY AppendProperties

LEMMA Updated ==
  ASSUME NEW d, DOMAIN d = Fields, NEW w, NEW m, NEW z
  PROVE  LET e == [d EXCEPT !.window = w, !.mean = m, !.m2 = z]
         IN  DOMAIN e = Fields /\ e.window = w /\ e.mean = m /\ e.m2 = z
BY DEF Fields

\* A value more: from the squares of the window to those of the longer one.
LEMMA SquaresCarried ==
  ASSUME NEW p \in Int, NEW q \in Int, NEW r \in Int, NEW ss \in Int,
         NEW a \in Int, NEW b \in Int, p - q = ss * b - r
  PROVE  ss * a - q + p = ss * (a + b) - r /\ ss * a - q + p \in Int
<1>1. ss * (a + b) = ss * a + ss * b /\ ss * a \in Int /\ ss * b \in Int
  OBVIOUS
<1> QED BY <1>1

LEMMA Fill ==
  ASSUME NEW d, WindowOK(d), NEW t \in Int, ~Full(d)
  PROVE  WindowOK(Added(d, t))
<1> DEFINE n == Len(d.window)
           mean == d.mean
           sum == SumOf(d.window)
           squares == SumOfSquares(d.window)
           x == Scale * t
           g == mean + (x - mean) \div (n + 1)
           z == d.m2 + (x - mean) * (x - g)
           w == Append(d.window, t)
           e == Added(d, t)
<1>1. e = [d EXCEPT !.window = w, !.mean = g, !.m2 = z]
  BY DEF Added
<1>2. /\ d.window \in Seq(Int) /\ mean \in Int /\ n \in Nat /\ n + 1 <= Window
      /\ n * mean = Scale * sum /\ DOMAIN d = Fields
      /\ d.m2 = Scale * Scale * squares - n * mean * mean
  <2>1. Len(d.window) \in Nat /\ d.window \in Seq(Int) /\ Len(d.window) < Window
    <3>1. d.window \in Seq(Int)
      BY DEF WindowOK
    <3> QED BY <3>1, WindowScale DEF Full
  <2>2. n + 1 <= Window
    BY <2>1, WindowScale
  <2> QED BY <2>1, <2>2 DEF WindowOK
<1>3. DOMAIN e = Fields /\ e.window = w /\ e.mean = g /\ e.m2 = z
  <2> HIDE DEF e, g, z, w
  <2> QED BY <1>1, <1>2, Updated
<1>4. w \in Seq(Int) /\ Len(w) = n + 1 /\ w # <<>>
  <2>1. d.window \in Seq(Int)
    BY <1>2
  <2> QED BY <2>1, Longer
<1>5. SumOf(w) = sum + t /\ sum \in Int
  BY <1>2, SumOfAppended, SumIsInteger
<1>6. SumOfSquares(w) = squares + t * t /\ squares \in Int
  BY <1>2, SquaresAppended, SquaresAreIntegers, SumIsInteger
<1>7. /\ g \in Int /\ (n + 1) * g = Scale * (sum + t)
      /\ (x - mean) * (x - g) - n * mean * mean = x * x - (n + 1) * g * g
  <2> HIDE DEF n, mean, sum
  <2> QED BY <1>2, <1>5, WelfordGrows
<1> HIDE DEF n, mean, sum, squares, g, w, e
<1>8. x \in Int /\ x * x = Scale * Scale * (t * t)
  BY WindowScale
<1> HIDE DEF x
<1>9. z = Scale * Scale * SumOfSquares(w) - (n + 1) * g * g /\ z \in Int
  <2> DEFINE p == (x - mean) * (x - g)
             q == n * mean * mean
             r == (n + 1) * g * g
             ss == Scale * Scale
             b == t * t
  <2>1. p \in Int /\ q \in Int /\ r \in Int /\ ss \in Int /\ b \in Int
    BY <1>2, <1>7, <1>8, WindowScale
  <2>2. p - q = ss * b - r
    BY <1>7, <1>8
  <2>3. z = ss * squares - q + p
    BY <1>2
  <2>4. SumOfSquares(w) = squares + b
    BY <1>6
  <2> HIDE DEF p, q, r, ss, b, z
  <2>5. ss * squares - q + p = ss * (squares + b) - r /\ ss * squares - q + p \in Int
    BY <1>6, <2>1, <2>2, SquaresCarried
  <2>6. z = ss * SumOfSquares(w) - r /\ z \in Int
    BY <2>3, <2>4, <2>5
  <2> QED BY <2>6 DEF r, ss
<1> HIDE DEF z
<1>10. WindowOK(e)
  BY <1>2, <1>3, <1>4, <1>5, <1>7, <1>9 DEF WindowOK
<1> QED BY <1>10 DEF e

\* The correction against rounding has nothing to do: a variance is not negative.
LEMMA NotNegative ==
  ASSUME NEW w \in Seq(Int), Len(w) = Window, NEW g \in Int, Window * g = Scale * SumOf(w)
  PROVE  Scale * Scale * SumOfSquares(w) - Window * g * g >= 0
<1> DEFINE a == SumOf(w)
           b == SumOfSquares(w)
           z == Scale * Scale * b - Window * g * g
<1>1. a * a <= Window * b /\ a \in Int /\ b \in Int /\ Window * g = Scale * a
  BY SquaresDominate, SumIsInteger, SquaresAreIntegers
<1> HIDE DEF a, b
<1>2. Window * (Window * g * g) = (Scale * Scale) * (a * a)
  <2>1. (Window * g) * (Window * g) = (Scale * a) * (Scale * a)
    BY <1>1
  <2>2. (Window * g) * (Window * g) = Window * (Window * g * g)
    BY WindowScale
  <2>3. (Scale * a) * (Scale * a) = (Scale * Scale) * (a * a)
    BY <1>1, WindowScale
  <2> QED BY <2>1, <2>2, <2>3
<1>3. Window * z = (Scale * Scale) * (Window * b - a * a) /\ z \in Int
  <2>1. Window * (Scale * Scale * b) = (Scale * Scale) * (Window * b)
    BY <1>1, WindowScale
  <2>2. (Scale * Scale) * (Window * b - a * a) = (Scale * Scale) * (Window * b) - (Scale * Scale) * (a * a)
    BY <1>1, WindowScale
  <2>3. Window * z = Window * (Scale * Scale * b) - Window * (Window * g * g)
    BY <1>1, WindowScale
  <2>4. z \in Int
    BY <1>1, WindowScale
  <2> QED BY <1>2, <2>1, <2>2, <2>3, <2>4
<1> HIDE DEF z
<1>4. Window * b - a * a >= 0 /\ Scale * Scale >= 0 /\ Window * b - a * a \in Int
  BY <1>1, WindowScale
<1>5. Window * z >= 0
  BY <1>3, <1>4, WindowScale
<1>6. z >= 0
  BY <1>3, <1>5, WindowScale
<1> QED BY <1>6 DEF z, b

LEMMA Slide ==
  ASSUME NEW d, WindowOK(d), NEW t \in Int, Full(d)
  PROVE  WindowOK(Added(d, t))
<1> DEFINE mean == d.mean
           sum == SumOf(d.window)
           squares == SumOfSquares(d.window)
           u == d.window[1]
           x == Scale * t
           old == Scale * u
           g == mean + (x - old) \div Window
           z == d.m2 + (x - old) * (x - g + old - mean)
           y == IF z < 0 THEN 0 ELSE z
           w == Append(Tail(d.window), t)
           e == Added(d, t)
<1>1. e = [d EXCEPT !.window = w, !.mean = g, !.m2 = y]
  BY DEF Added
<1>2. /\ d.window \in Seq(Int) /\ mean \in Int /\ Len(d.window) = Window
      /\ Window * mean = Scale * sum /\ DOMAIN d = Fields
      /\ d.m2 = Scale * Scale * squares - Window * mean * mean
  <2>1. Len(d.window) = Window /\ d.window \in Seq(Int)
    <3>1. Len(d.window) \in Nat /\ d.window \in Seq(Int)
      BY DEF WindowOK
    <3> QED BY <3>1, WindowScale DEF WindowOK, Full
  <2> QED BY <2>1 DEF WindowOK
<1>3. DOMAIN e = Fields /\ e.window = w /\ e.mean = g /\ e.m2 = y
  <2> HIDE DEF e, g, y, w
  <2> QED BY <1>1, <1>2, Updated
<1>4. /\ d.window # <<>> /\ u \in Int /\ Tail(d.window) \in Seq(Int)
      /\ w \in Seq(Int) /\ Len(w) = Window /\ w # <<>>
  <2>1. d.window # <<>>
    BY <1>2, WindowScale
  <2>2. u \in Int /\ Tail(d.window) \in Seq(Int) /\ Len(Tail(d.window)) = Window - 1
    BY <1>2, <2>1, WindowScale
  <2>3. w \in Seq(Int) /\ Len(w) = Window - 1 + 1 /\ w # <<>>
    <3>1. Len(w) = Len(Tail(d.window)) + 1 /\ w \in Seq(Int) /\ w # <<>>
      BY <2>2, Longer
    <3> HIDE DEF w
    <3> QED BY <2>2, <3>1
  <2> QED BY <2>1, <2>2, <2>3, WindowScale
<1>5. SumOf(w) = sum - u + t /\ sum \in Int
  <2>1. SumOf(Tail(d.window)) = sum - u /\ sum \in Int
    BY <1>2, <1>4, SumOfTail, SumIsInteger
  <2>2. SumOf(w) = SumOf(Tail(d.window)) + t
    BY <1>4, SumOfAppended
  <2> HIDE DEF sum, u
  <2> QED BY <2>1, <2>2
<1>6. SumOfSquares(w) = squares - u * u + t * t /\ squares \in Int
  <2>1. SumOfSquares(Tail(d.window)) = squares - u * u
    BY <1>2, <1>4, SquaresOfTail
  <2>2. SumOfSquares(w) = SumOfSquares(Tail(d.window)) + t * t
    BY <1>4, SquaresAppended
  <2>3. squares \in Int
    BY <1>2, SquaresAreIntegers, SumIsInteger
  <2> HIDE DEF squares, u, w
  <2> QED BY <2>1, <2>2, <2>3
<1>7. /\ g \in Int /\ Window * g = Scale * (sum - u + t)
      /\ (x - old) * (x - g + old - mean) - Window * mean * mean
           = x * x - old * old - Window * g * g
  <2> HIDE DEF mean, sum, u
  <2> QED BY <1>2, <1>4, <1>5, WindowSlides
<1> HIDE DEF mean, sum, squares, u, g, w, e
<1>8. /\ x \in Int /\ old \in Int
      /\ x * x = Scale * Scale * (t * t) /\ old * old = Scale * Scale * (u * u)
  BY <1>4, WindowScale
<1> HIDE DEF x, old
<1>9. z = Scale * Scale * SumOfSquares(w) - Window * g * g /\ z \in Int
  <2> DEFINE p == (x - old) * (x - g + old - mean)
             q == Window * mean * mean
             r == Window * g * g
             ss == Scale * Scale
             b == t * t - u * u
  <2>1. p \in Int /\ q \in Int /\ r \in Int /\ ss \in Int /\ b \in Int
    BY <1>2, <1>4, <1>7, <1>8, WindowScale
  <2>2. p - q = ss * b - r
    <3>1. ss * b = ss * (t * t) - ss * (u * u)
      BY <1>4, WindowScale
    <3> QED BY <1>7, <1>8, <3>1
  <2>3. z = ss * squares - q + p
    BY <1>2
  <2>4. SumOfSquares(w) = squares + b
    BY <1>4, <1>6
  <2> HIDE DEF p, q, r, ss, b, z
  <2>5. ss * squares - q + p = ss * (squares + b) - r /\ ss * squares - q + p \in Int
    BY <1>6, <2>1, <2>2, SquaresCarried
  <2>6. z = ss * SumOfSquares(w) - r /\ z \in Int
    BY <2>3, <2>4, <2>5
  <2> QED BY <2>6 DEF r, ss
<1> HIDE DEF z
<1>10. y = z
  BY <1>4, <1>5, <1>7, <1>9, NotNegative
<1> HIDE DEF y
<1>11. WindowOK(e)
  BY <1>2, <1>3, <1>4, <1>5, <1>7, <1>9, <1>10, WindowScale DEF WindowOK
<1> QED BY <1>11 DEF e

LEMMA SameWindow ==
  ASSUME NEW d, WindowOK(d), NEW e, DOMAIN e = DOMAIN d,
         e.window = d.window, e.mean = d.mean, e.m2 = d.m2
  PROVE  WindowOK(e)
BY DEF WindowOK

LEMMA BlankOK == WindowOK(Blank)
<1>1. /\ DOMAIN Blank = Fields /\ Blank.window = <<>> /\ Blank.mean = 0 /\ Blank.m2 = 0
  BY DEF Blank, Fields
<1>2. <<>> \in Seq(Int) /\ Len(<<>>) = 0
  OBVIOUS
<1>3. SumOf(<<>>) = 0 /\ SumOfSquares(<<>>) = 0
  <2>1. Squares(<<>>) = <<>>
    BY <1>2, SquaresAreIntegers, EmptySeq
  <2> QED BY <1>2, <2>1, SquaresAreIntegers, SumOfNothing
<1>4. 0 <= Window /\ Scale * 0 = 0 /\ Scale * Scale * 0 - 0 * 0 * 0 = 0 /\ 0 * 0 = 0
  BY WindowScale
<1> QED BY <1>1, <1>2, <1>3, <1>4 DEF WindowOK

LEMMA ClearedOK == ASSUME NEW d PROVE WindowOK(Cleared(d))
<1>1. /\ DOMAIN Cleared(d) = DOMAIN Blank /\ Cleared(d).window = Blank.window
      /\ Cleared(d).mean = Blank.mean /\ Cleared(d).m2 = Blank.m2
  BY DEF Cleared, Blank
<1> QED BY <1>1, BlankOK, SameWindow

LEMMA AddedOK == ASSUME NEW d, WindowOK(d), NEW t \in Nat PROVE WindowOK(Added(d, t))
BY Fill, Slide

LEMMA StillOK == ASSUME NEW d, WindowOK(d), NEW b PROVE WindowOK([d EXCEPT !.still = b])
<1> DEFINE e == [d EXCEPT !.still = b]
<1>1. DOMAIN d = Fields
  BY DEF WindowOK
<1>2. DOMAIN e = DOMAIN d /\ e.window = d.window /\ e.mean = d.mean /\ e.m2 = d.m2
  BY <1>1 DEF Fields
<1> HIDE DEF e
<1>3. WindowOK(e)
  BY <1>2, SameWindow
<1> QED BY <1>3 DEF e

LEMMA VotedOK == ASSUME NEW d, WindowOK(d), NEW raw PROVE WindowOK(Voted(d, raw))
<1> DEFINE all == Append(d.votes, raw)
           votes == IF Len(all) > SmoothWindow THEN Tail(all) ELSE all
           for == Cardinality({i \in 1..Len(votes) : votes[i]})
           against == Len(votes) - for
           st == CASE d.state = "IDLE" /\ for >= SmoothEnter -> "MOTION"
                   [] d.state = "MOTION" /\ against >= SmoothExit -> "IDLE"
                   [] OTHER -> d.state
           e == Voted(d, raw)
<1>1. e = [d EXCEPT !.votes = votes, !.state = st]
  BY DEF Voted
<1>2. DOMAIN d = Fields
  BY DEF WindowOK
<1> HIDE DEF e, st, votes
<1>3. DOMAIN e = DOMAIN d /\ e.window = d.window /\ e.mean = d.mean /\ e.m2 = d.m2
  BY <1>1, <1>2 DEF Fields
<1>4. WindowOK(e)
  BY <1>3, SameWindow
<1> QED BY <1>4 DEF e

LEMMA BasedOK == ASSUME NEW d, WindowOK(d) PROVE WindowOK(Based(d))
<1> DEFINE wm == IF d.warm < WarmUp THEN d.warm + 1 ELSE d.warm
           e == [d EXCEPT !.based = TRUE, !.warm = wm]
<1>1. Based(d) = d \/ Based(d) = e
  BY DEF Based
<1>2. DOMAIN d = Fields
  BY DEF WindowOK
<1> HIDE DEF wm
<1>3. DOMAIN e = DOMAIN d /\ e.window = d.window /\ e.mean = d.mean /\ e.m2 = d.m2
  BY <1>2 DEF Fields
<1> HIDE DEF e
<1>4. WindowOK(e)
  BY <1>3, SameWindow
<1> QED BY <1>1, <1>4

LEMMA EvaluatedOK == ASSUME NEW d, WindowOK(d), NEW p PROVE WindowOK(Evaluated(d, p))
<1>1. \A raw : WindowOK(Based(Voted(d, raw)))
  BY VotedOK, BasedOK
<1> QED BY <1>1, Zenon DEF Evaluated

WInv == scenario \in Scenarios /\ WindowOK(detector)

LEMMA TurbulencesAreNumbers == \A s \in Scenarios : s.turbulences \subseteq Nat
BY ConstantsAssumption DEF ConstantsAssumption

LEMMA PacketKeepsWindow ==
  ASSUME WInv, NEW t \in Nat, NEW still, NEW c, Packet(t, still, c)
  PROVE  WindowOK(detector')
<1> DEFINE first == IF clearAsked THEN Cleared(detector) ELSE detector
           added == [Added(first, t) EXCEPT !.still = still]
           voted == Evaluated(added, t)
<1>1. WindowOK(first)
  BY ClearedOK DEF WInv
<1>2. WindowOK(Added(first, t))
  <2> HIDE DEF first
  <2> QED BY <1>1, AddedOK
<1>3. WindowOK(added)
  BY <1>2, StillOK, Zenon
<1>4. WindowOK(voted)
  BY <1>3, EvaluatedOK, Zenon
<1>5. detector' = voted \/ detector' = Cleared(voted)
  BY Zenon DEF Packet
<1> QED BY <1>4, <1>5, ClearedOK, Zenon

LEMMA StepWInv == WInv /\ [Next]_vars => WInv'
<1> SUFFICES ASSUME WInv, [Next]_vars PROVE WInv'
  OBVIOUS
<1>1. CASE AnyPacket
  <2>1. PICK t \in scenario.turbulences, still \in scenario.still, c \in scenario.channels :
          Packet(t, still, c)
    BY <1>1, Zenon DEF AnyPacket
  <2>2. t \in Nat
    BY TurbulencesAreNumbers DEF WInv
  <2>3. WindowOK(detector')
    BY <2>1, <2>2, PacketKeepsWindow, Zenon
  <2>4. scenario' = scenario
    BY <1>1, Zenon DEF AnyPacket
  <2> QED BY <2>3, <2>4 DEF WInv
<1>2. CASE LoopStep \/ UNCHANGED vars
  <2>1. UNCHANGED <<scenario, detector>>
    BY <1>2 DEF LoopStep, TakePublication, PublishAll, ChooseThreshold, ApplyCalibration,
       Disconnect, Connect, csi, vars
  <2>2. WindowOK(detector)' = WindowOK(detector)
    BY <2>1 DEF WindowOK
  <2> QED BY <2>1, <2>2 DEF WInv
<1> QED BY <1>1, <1>2 DEF Next

LEMMA WindowMatches == ASSUME WindowOK(detector) PROVE RunningMatchesWindow
<1> DEFINE n == Len(detector.window)
           mean == detector.mean
           squares == SumOfSquares(detector.window)
           sum == SumOf(detector.window)
<1>1. /\ n \in Nat /\ mean \in Int /\ squares \in Int
  <2>1. detector.window \in Seq(Int) /\ mean \in Int
    BY DEF WindowOK
  <2> QED BY <2>1, SquaresAreIntegers, SumIsInteger
<1>2. /\ n * mean = Scale * sum /\ detector.m2 = Scale * Scale * squares - n * mean * mean
  BY DEF WindowOK
<1> HIDE DEF n, mean, squares, sum
<1>3. n * (Scale * Scale * squares - n * mean * mean)
        = n * Scale * Scale * squares - (n * mean) * (n * mean)
  BY <1>1, WindowScale
<1>4. n * detector.m2 = n * Scale * Scale * squares - (Scale * sum) * (Scale * sum)
  BY <1>2, <1>3
<1> QED BY <1>2, <1>4 DEF RunningMatchesWindow, n, mean, squares, sum

\* The mean and the sum of squared deviations that the detector carries along are those
\* of its window for every size of the window and all values: through filling (Welford's
\* method divides without remainder), sliding, clearing and a change of channel
\* (base_detector.cpp:413-431), and the correction of a negative sum never sets in.
THEOREM RunningMatchesWindowHolds == Spec => []RunningMatchesWindow
<1>1. Init => WInv
  BY BlankOK DEF Init, WInv
<1>2. Spec => []WInv
  BY <1>1, StepWInv, PTL DEF Spec
<1>3. WInv => RunningMatchesWindow
  BY WindowMatches DEF WInv
<1> QED BY <1>2, <1>3, PTL

-----------------------------------------------------------------------------
(* The votes.                                                               *)

For(votes) == Cardinality({i \in 1..Len(votes) : votes[i]})
Against(votes) == Len(votes) - For(votes)

LEMMA CountUpTo == ASSUME NEW n \in Nat PROVE IsFiniteSet(1..n) /\ Cardinality(1..n) = n
<1>1. 1 \in Int /\ n \in Int
  OBVIOUS
<1>2. IsFiniteSet(1..n) /\ Cardinality(1..n) = IF 1 > n THEN 0 ELSE n - 1 + 1
  BY <1>1, FS_Interval, Zenon
<1> QED BY <1>2

LEMMA OneMore ==
  ASSUME NEW S, NEW x, IsFiniteSet(S)
  PROVE  IsFiniteSet(S \cup {x}) /\ Cardinality(S \cup {x}) <= Cardinality(S) + 1
<1>1. /\ IsFiniteSet(S \cup {x})
      /\ Cardinality(S \cup {x}) = IF x \in S THEN Cardinality(S) ELSE Cardinality(S) + 1
  BY FS_AddElement, Zenon
<1>2. Cardinality(S) \in Nat
  BY FS_CardinalityType, Zenon
<1> QED BY <1>1, <1>2

LEMMA OneLess ==
  ASSUME NEW S, NEW x, IsFiniteSet(S)
  PROVE  /\ IsFiniteSet(S \ {x}) /\ Cardinality(S \ {x}) <= Cardinality(S)
         /\ Cardinality(S) - 1 <= Cardinality(S \ {x})
<1>1. /\ IsFiniteSet(S \ {x})
      /\ Cardinality(S \ {x}) = IF x \in S THEN Cardinality(S) - 1 ELSE Cardinality(S)
  BY FS_RemoveElement, Zenon
<1>2. Cardinality(S) \in Nat
  BY FS_CardinalityType, Zenon
<1> QED BY <1>1, <1>2

LEMMA ForIsNumber ==
  ASSUME NEW v \in Seq(BOOLEAN)
  PROVE  /\ IsFiniteSet({i \in 1..Len(v) : v[i]})
         /\ For(v) \in Nat /\ For(v) <= Len(v)
<1>1. Len(v) \in Nat /\ {i \in 1..Len(v) : v[i]} \in SUBSET (1..Len(v))
  OBVIOUS
<1>2. IsFiniteSet(1..Len(v)) /\ Cardinality(1..Len(v)) = Len(v)
  BY <1>1, CountUpTo
<1>3. /\ IsFiniteSet({i \in 1..Len(v) : v[i]})
      /\ Cardinality({i \in 1..Len(v) : v[i]}) <= Len(v)
  BY <1>1, <1>2, FS_Subset
<1>4. Cardinality({i \in 1..Len(v) : v[i]}) \in Nat
  BY <1>3, FS_CardinalityType
<1> QED BY <1>3, <1>4 DEF For

\* One more vote is for or against.
LEMMA OneMoreVote ==
  ASSUME NEW v \in Seq(BOOLEAN), NEW raw \in BOOLEAN
  PROVE  /\ Append(v, raw) \in Seq(BOOLEAN) /\ Len(Append(v, raw)) = Len(v) + 1
         /\ For(v) <= For(Append(v, raw)) /\ For(Append(v, raw)) <= For(v) + 1
<1> DEFINE a == Append(v, raw)
           S == {i \in 1..Len(v) : v[i]}
           T == {i \in 1..Len(a) : a[i]}
<1>1. /\ a \in Seq(BOOLEAN) /\ Len(a) = Len(v) + 1
      /\ \A i \in 1..Len(v) : a[i] = v[i]
  BY AppendProperties
<1> HIDE DEF a
<1>2. Len(v) \in Nat
  OBVIOUS
<1>3. S \in SUBSET T /\ T \in SUBSET (S \cup {Len(v) + 1})
  BY <1>1, <1>2
<1>4. IsFiniteSet(S) /\ IsFiniteSet(T) /\ Cardinality(S) \in Nat
  BY <1>1, ForIsNumber, FS_CardinalityType
<1> HIDE DEF S, T
<1>5. /\ IsFiniteSet(S \cup {Len(v) + 1})
      /\ Cardinality(S \cup {Len(v) + 1}) <= Cardinality(S) + 1
  BY <1>4, OneMore
<1>6. Cardinality(S) <= Cardinality(T)
  BY <1>3, <1>4, FS_Subset
<1>7. Cardinality(T) <= Cardinality(S \cup {Len(v) + 1})
  BY <1>3, <1>5, FS_Subset
<1>8. Cardinality(T) \in Nat /\ Cardinality(S \cup {Len(v) + 1}) \in Nat
  BY <1>4, <1>5, FS_CardinalityType
<1>9. Cardinality(T) <= Cardinality(S) + 1
  BY <1>4, <1>5, <1>7, <1>8
<1> QED BY <1>1, <1>6, <1>9 DEF For, S, T, a

\* The oldest vote that is forgotten was for or against.
LEMMA VoteForgotten ==
  ASSUME NEW v \in Seq(BOOLEAN), v # <<>>
  PROVE  /\ Tail(v) \in Seq(BOOLEAN) /\ Len(Tail(v)) = Len(v) - 1
         /\ For(v) - 1 <= For(Tail(v)) /\ For(Tail(v)) <= For(v)
<1> DEFINE a == Tail(v)
           S == {i \in 1..Len(v) : v[i]}
           T == {i \in 1..Len(a) : a[i]}
           shift == [i \in S \ {1} |-> i - 1]
<1>1. /\ a \in Seq(BOOLEAN) /\ Len(a) = Len(v) - 1 /\ Len(v) \in Nat
      /\ \A i \in 1..(Len(v) - 1) : a[i] = v[i + 1]
  OBVIOUS
<1> HIDE DEF a
<1>2. IsFiniteSet(S) /\ Cardinality(S) \in Nat
  BY ForIsNumber, FS_CardinalityType
<1>3. shift \in Bijection(S \ {1}, T)
  <2>1. \A i \in S \ {1} : i \in Int /\ i - 1 \in T
    BY <1>1
  <2>2. \A i \in T : i + 1 \in S \ {1} /\ (i + 1) - 1 = i
    BY <1>1
  <2>3. shift \in [S \ {1} -> T] /\ \A i \in S \ {1} : shift[i] = i - 1
    BY <2>1
  <2> HIDE DEF shift, T
  <2>4. \A i, j \in S \ {1} : shift[i] = shift[j] => i = j
    BY <2>1, <2>3
  <2>5. \A j \in T : \E i \in S \ {1} : shift[i] = j
    BY <2>2, <2>3
  <2> QED BY <2>3, <2>4, <2>5 DEF Bijection, Injection, Surjection, IsInjective
<1>4. /\ IsFiniteSet(S \ {1}) /\ Cardinality(S \ {1}) <= Cardinality(S)
      /\ Cardinality(S) - 1 <= Cardinality(S \ {1})
  <2> HIDE DEF S
  <2> QED BY <1>2, OneLess
<1>5. Cardinality(T) = Cardinality(S \ {1})
  <2>1. ExistsBijection(S \ {1}, T)
    BY <1>3 DEF ExistsBijection
  <2> QED BY <1>4, <2>1, FS_Bijection
<1> QED BY <1>1, <1>4, <1>5 DEF For, a

LEMMA Majorities ==
  /\ SmoothWindow \in Nat /\ SmoothEnter \in Nat /\ SmoothExit \in Nat
  /\ SmoothEnter <= SmoothWindow /\ SmoothExit <= SmoothWindow
BY ConstantsAssumption DEF ConstantsAssumption

\* k votes after the state began, at most k more than fit beside its majority speak
\* against it.
Bounded(d, k) ==
  /\ d.votes \in Seq(BOOLEAN) /\ Len(d.votes) <= SmoothWindow
  /\ d.state \in {"IDLE", "MOTION"}
  /\ k \in Nat
  /\ k < Overlap /\ d.state = "MOTION" => Against(d.votes) <= SmoothWindow - SmoothEnter + k
  /\ k < Overlap /\ d.state = "IDLE" => For(d.votes) <= SmoothWindow - SmoothExit + k

LEMMA SameVotes ==
  ASSUME NEW d, NEW k, Bounded(d, k), NEW e, e.votes = d.votes, e.state = d.state
  PROVE  Bounded(e, k)
BY DEF Bounded

LEMMA ClearedVotes ==
  ASSUME NEW d
  PROVE  Bounded(Cleared(d), 0) /\ Cleared(d).votes = <<>> /\ Cleared(d).state = "IDLE"
<1>1. Cleared(d).votes = <<>> /\ Cleared(d).state = "IDLE"
  BY DEF Cleared, Blank
<1>2. <<>> \in Seq(BOOLEAN) /\ Len(<<>>) = 0
  OBVIOUS
<1>3. For(<<>>) = 0
  <2>1. For(<<>>) \in Nat /\ For(<<>>) <= 0
    BY <1>2, ForIsNumber, Zenon
  <2> QED BY <2>1
<1> QED BY <1>1, <1>2, <1>3, Majorities DEF Bounded

\* A vote more, and the oldest forgotten.
LEMMA VotesSlide ==
  ASSUME NEW v \in Seq(BOOLEAN), Len(v) <= SmoothWindow, NEW raw \in BOOLEAN
  PROVE  LET all == Append(v, raw)
             w == IF Len(all) > SmoothWindow THEN Tail(all) ELSE all
         IN  /\ w \in Seq(BOOLEAN) /\ Len(w) <= SmoothWindow
             /\ For(w) <= For(v) + 1 /\ Against(w) <= Against(v) + 1
<1> DEFINE all == Append(v, raw)
           w == IF Len(all) > SmoothWindow THEN Tail(all) ELSE all
           f == For(v)
           fa == For(all)
           fw == For(w)
           l == Len(v)
           la == Len(all)
           lw == Len(w)
<1>1. all \in Seq(BOOLEAN) /\ la = l + 1 /\ f <= fa /\ fa <= f + 1
  BY OneMoreVote
<1>2. f \in Nat /\ fa \in Nat /\ l \in Nat /\ l <= SmoothWindow
  <2>1. f \in Nat /\ fa \in Nat
    BY <1>1, ForIsNumber
  <2>2. l \in Nat
    OBVIOUS
  <2> QED BY <2>1, <2>2
<1> HIDE DEF all
<1>3. CASE la > SmoothWindow
  <2>1. all # <<>>
    BY <1>3, Majorities
  <2>2. w = Tail(all)
    BY <1>3
  <2>3. w \in Seq(BOOLEAN) /\ lw = la - 1 /\ fa - 1 <= fw /\ fw <= fa
    BY <1>1, <2>1, <2>2, VoteForgotten
  <2>4. fw \in Nat
    BY <2>3, ForIsNumber
  <2>5. Against(w) = lw - fw /\ Against(v) = l - f
    BY DEF Against
  <2> HIDE DEF w, f, fa, fw, l, la, lw
  <2>6. la = l + 1 /\ f <= fa /\ fa <= f + 1 /\ lw = la - 1 /\ fa - 1 <= fw /\ fw <= fa
    BY <1>1, <2>3
  <2>7. lw <= SmoothWindow /\ fw <= f + 1 /\ lw - fw <= l - f + 1
    BY <1>2, <2>4, <2>6
  <2> QED BY <2>3, <2>5, <2>7 DEF w, f, fw, l, lw, all
<1>4. CASE ~(la > SmoothWindow)
  <2>1. w = all
    BY <1>4
  <2>2. Against(all) = la - fa /\ Against(v) = l - f
    BY DEF Against
  <2> HIDE DEF w, f, fa, l, la
  <2>3. la = l + 1 /\ f <= fa /\ fa <= f + 1
    BY <1>1
  <2>4. la <= SmoothWindow /\ la - fa <= l - f + 1
    BY <1>2, <1>4, <2>3, Majorities
  <2>5. For(w) <= For(v) + 1
    BY <2>1, <2>3 DEF f, fa
  <2>6. Against(w) <= Against(v) + 1
    BY <2>1, <2>2, <2>4
  <2>7. w \in Seq(BOOLEAN) /\ Len(w) <= SmoothWindow
    BY <1>1, <2>1, <2>4 DEF la
  <2> QED BY <2>5, <2>6, <2>7 DEF w, all
<1> QED BY <1>3, <1>4

LEMMA OverlapIs == Overlap \in Int /\ Overlap = SmoothEnter + SmoothExit - SmoothWindow
BY Majorities DEF Overlap

\* A vote keeps the bound, and turns the state only when the two majorities have too
\* little in common to forbid it.
LEMMA VoteCounts ==
  ASSUME NEW d, DOMAIN d = Fields, NEW k, Bounded(d, k), NEW raw \in BOOLEAN
  PROVE  LET e == Voted(d, raw)
         IN  /\ e.state = d.state =>
                  Bounded(e, IF k < Overlap THEN k + 1 ELSE k)
             /\ e.state # d.state => k >= Overlap - 1 /\ Bounded(e, 0)
<1> DEFINE all == Append(d.votes, raw)
           votes == IF Len(all) > SmoothWindow THEN Tail(all) ELSE all
           for == Cardinality({i \in 1..Len(votes) : votes[i]})
           against == Len(votes) - for
           st == CASE d.state = "IDLE" /\ for >= SmoothEnter -> "MOTION"
                   [] d.state = "MOTION" /\ against >= SmoothExit -> "IDLE"
                   [] OTHER -> d.state
           e == Voted(d, raw)
           a == Against(votes)
           f == For(votes)
           l == Len(votes)
           a0 == Against(d.votes)
           f0 == For(d.votes)
           l0 == Len(d.votes)
           j == IF k < Overlap THEN k + 1 ELSE k
<1>1. e = [d EXCEPT !.votes = votes, !.state = st]
  BY DEF Voted
<1>2. e.votes = votes /\ e.state = st
  <2> HIDE DEF e, votes, st
  <2> QED BY <1>1 DEF Fields
<1>3. for = f /\ against = a
  BY DEF For, Against
<1>4. d.votes \in Seq(BOOLEAN) /\ l0 <= SmoothWindow /\ k \in Nat
  BY DEF Bounded
<1>5. votes \in Seq(BOOLEAN) /\ l <= SmoothWindow /\ f <= f0 + 1 /\ a <= a0 + 1
  BY <1>4, VotesSlide, Zenon
<1>6. f \in Nat /\ f0 \in Nat /\ l \in Nat /\ l0 \in Nat /\ f <= l
  <2>1. f \in Nat /\ f <= l /\ f0 \in Nat
    BY <1>4, <1>5, ForIsNumber, Zenon
  <2>2. \A v \in Seq(BOOLEAN) : Len(v) \in Nat
    OBVIOUS
  <2> QED BY <1>4, <1>5, <2>1, <2>2, Zenon
<1>7. a = l - f /\ a0 = l0 - f0
  BY DEF Against
<1>8. /\ k < Overlap /\ d.state = "MOTION" => a0 <= SmoothWindow - SmoothEnter + k
      /\ k < Overlap /\ d.state = "IDLE" => f0 <= SmoothWindow - SmoothExit + k
  BY DEF Bounded
<1> HIDE DEF for, against, a, f, l, a0, f0, l0, votes
<1>9. /\ l <= SmoothWindow /\ f <= f0 + 1 /\ a <= a0 + 1
      /\ a \in Int /\ a0 \in Int /\ k \in Nat /\ j \in Nat /\ j <= k + 1
      /\ (j < Overlap => j = k + 1 /\ k < Overlap)
  <2>1. a \in Int /\ a0 \in Int
    BY <1>6, <1>7
  <2>2. j \in Nat /\ j <= k + 1 /\ (j < Overlap => j = k + 1 /\ k < Overlap)
    BY <1>4, OverlapIs
  <2> QED BY <1>4, <1>5, <2>1, <2>2
<1>10. CASE d.state = "IDLE"
  <2>1. k < Overlap => f0 <= SmoothWindow - SmoothExit + k
    BY <1>8, <1>10
  <2>2. CASE f >= SmoothEnter
    <3>1. e.state = "MOTION"
      BY <1>2, <1>3, <1>10, <2>2
    <3>2. k >= Overlap - 1
      BY <1>6, <1>9, <2>1, <2>2, Majorities, OverlapIs
    <3>3. a <= SmoothWindow - SmoothEnter
      BY <1>6, <1>7, <1>9, <2>2, Majorities
    <3> HIDE DEF e
    <3>4. Bounded(e, 0)
      BY <1>2, <1>5, <3>1, <3>3, Majorities DEF Bounded, a, l
    <3> QED BY <1>10, <3>1, <3>2, <3>4 DEF e
  <2>3. CASE ~(f >= SmoothEnter)
    <3>1. e.state = "IDLE"
      BY <1>2, <1>3, <1>10, <2>3
    <3>2. j < Overlap => f <= SmoothWindow - SmoothExit + j
      <4> HIDE DEF j
      <4> QED BY <1>6, <1>9, <2>1, Majorities, OverlapIs
    <3> HIDE DEF e, j
    <3>3. Bounded(e, j)
      BY <1>2, <1>5, <1>9, <3>1, <3>2 DEF Bounded, f, l
    <3> QED BY <1>10, <3>1, <3>3 DEF e, j
  <2> QED BY <2>2, <2>3
<1>11. CASE d.state = "MOTION"
  <2>1. k < Overlap => a0 <= SmoothWindow - SmoothEnter + k
    BY <1>8, <1>11
  <2>2. CASE a >= SmoothExit
    <3>1. e.state = "IDLE"
      BY <1>2, <1>3, <1>11, <2>2
    <3>2. k >= Overlap - 1
      BY <1>6, <1>9, <2>1, <2>2, Majorities, OverlapIs
    <3>3. f <= SmoothWindow - SmoothExit
      BY <1>6, <1>7, <1>9, <2>2, Majorities
    <3> HIDE DEF e
    <3>4. Bounded(e, 0)
      BY <1>2, <1>5, <3>1, <3>3, Majorities DEF Bounded, f, l
    <3> QED BY <1>11, <3>1, <3>2, <3>4 DEF e
  <2>3. CASE ~(a >= SmoothExit)
    <3>1. e.state = "MOTION"
      BY <1>2, <1>3, <1>11, <2>3
    <3>2. j < Overlap => a <= SmoothWindow - SmoothEnter + j
      <4> HIDE DEF j
      <4> QED BY <1>6, <1>9, <2>1, Majorities, OverlapIs
    <3> HIDE DEF e, j
    <3>3. Bounded(e, j)
      BY <1>2, <1>5, <1>9, <3>1, <3>2 DEF Bounded, a, l
    <3> QED BY <1>11, <3>1, <3>3 DEF e, j
  <2> QED BY <2>2, <2>3
<1> QED BY <1>10, <1>11 DEF Bounded

LEMMA BasedVotes ==
  ASSUME NEW d, WindowOK(d) PROVE Based(d).votes = d.votes /\ Based(d).state = d.state
<1> DEFINE wm == IF d.warm < WarmUp THEN d.warm + 1 ELSE d.warm
           e == [d EXCEPT !.based = TRUE, !.warm = wm]
<1>1. Based(d) = d \/ Based(d) = e
  BY DEF Based
<1>2. DOMAIN d = Fields
  BY DEF WindowOK
<1> HIDE DEF wm
<1>3. e.votes = d.votes /\ e.state = d.state
  BY <1>2 DEF Fields
<1> HIDE DEF e
<1> QED BY <1>1, <1>3

LEMMA AddedVotes ==
  ASSUME NEW d, WindowOK(d), NEW t, NEW b
  PROVE  LET e == [Added(d, t) EXCEPT !.still = b]
         IN  e.votes = d.votes /\ e.state = d.state
<1>1. DOMAIN d = Fields
  BY DEF WindowOK
<1>2. ASSUME NEW w, NEW m, NEW z
      PROVE  LET e == [[d EXCEPT !.window = w, !.mean = m, !.m2 = z] EXCEPT !.still = b]
             IN  e.votes = d.votes /\ e.state = d.state
  BY <1>1 DEF Fields
<1> DEFINE x == Scale * t
           n == Len(d.window) + 1
           old == Scale * d.window[1]
           grown == d.mean + (x - d.mean) \div n
           slid == d.mean + (x - old) \div Window
           m2 == d.m2 + (x - old) * (x - slid + old - d.mean)
<1>3. CASE Full(d)
  <2> DEFINE w == Append(Tail(d.window), t)
             z == IF m2 < 0 THEN 0 ELSE m2
  <2>1. Added(d, t) = [d EXCEPT !.window = w, !.mean = slid, !.m2 = z]
    BY <1>3 DEF Added
  <2> HIDE DEF w, slid, z
  <2> QED BY <1>2, <2>1
<1>4. CASE ~Full(d)
  <2> DEFINE w == Append(d.window, t)
             z == d.m2 + (x - d.mean) * (x - grown)
  <2>1. Added(d, t) = [d EXCEPT !.window = w, !.mean = grown, !.m2 = z]
    BY <1>4 DEF Added
  <2> HIDE DEF w, grown, z
  <2> QED BY <1>2, <2>1
<1> QED BY <1>3, <1>4

LEMMA RawIsBoolean == ASSUME NEW d, NEW level PROVE Raw(d, level) \in BOOLEAN
<1>1. \A a, b : (a > b) \in BOOLEAN /\ (a >= b) \in BOOLEAN
  OBVIOUS
<1> QED BY <1>1 DEF Raw

LEMMA EvaluationCounts ==
  ASSUME NEW d, WindowOK(d), NEW k, Bounded(d, k), NEW p
  PROVE  LET e == Evaluated(d, p)
         IN  /\ e.state = d.state =>
                  Bounded(e, IF Votes(d) /\ k < Overlap THEN k + 1 ELSE k)
             /\ e.state # d.state => k >= Overlap - 1 /\ Bounded(e, 0)
<1> DEFINE e == Evaluated(d, p)
<1>1. CASE ~Votes(d)
  BY <1>1 DEF Evaluated
<1>2. CASE Votes(d)
  <2> DEFINE raw == Raw(d, IF scenario.kind = "mvs" THEN MovingVariance(d) ELSE p)
             v == Voted(d, raw)
  <2>1. e = Based(v)
    BY <1>2, Zenon DEF Evaluated
  <2>2. raw \in BOOLEAN
    BY RawIsBoolean, Zenon
  <2>3. DOMAIN d = Fields
    BY DEF WindowOK
  <2> HIDE DEF raw
  <2>4. /\ v.state = d.state => Bounded(v, IF k < Overlap THEN k + 1 ELSE k)
        /\ v.state # d.state => k >= Overlap - 1 /\ Bounded(v, 0)
    BY <2>2, <2>3, VoteCounts
  <2>5. WindowOK(v)
    BY VotedOK
  <2> HIDE DEF v
  <2>6. e.votes = v.votes /\ e.state = v.state
    BY <2>1, <2>5, BasedVotes
  <2> HIDE DEF e
  <2>7. \A j : Bounded(v, j) => Bounded(e, j)
    BY <2>6, SameVotes
  <2>8. (IF Votes(d) /\ k < Overlap THEN k + 1 ELSE k) = (IF k < Overlap THEN k + 1 ELSE k)
    BY <1>2
  <2> QED BY <2>4, <2>6, <2>7, <2>8 DEF e
<1> QED BY <1>1, <1>2

VInv == WInv /\ Bounded(detector, since)

\* What a packet does to the votes.
LEMMA PacketCounts ==
  ASSUME VInv, NEW t \in Nat, NEW still, NEW c, Packet(t, still, c)
  PROVE  /\ Bounded(detector', since')
         /\ \/ detector'.state = detector.state
            \/ detector'.votes = <<>> \/ (clearAsked /\ detector'.state = "IDLE")
            \/ (IF clearAsked THEN 0 ELSE since) >= Overlap - 1
<1> DEFINE publish == processed + 1 >= PublishRate
           moved == publish /\ channel # 0 /\ c # channel
           first == IF clearAsked THEN Cleared(detector) ELSE detector
           k == IF clearAsked THEN 0 ELSE since
           added == [Added(first, t) EXCEPT !.still = still]
           voted == Evaluated(added, t)
           j == IF Votes(added) /\ k < Overlap THEN k + 1 ELSE k
           last == IF moved THEN Cleared(voted) ELSE voted
<1>1. /\ detector' = last
      /\ since' = IF moved \/ voted.state # first.state THEN 0 ELSE j
  BY Zenon DEF Packet
<1>2. WindowOK(first) /\ Bounded(first, k)
  BY ClearedOK, ClearedVotes DEF VInv, WInv
<1>3. first.state = IF clearAsked THEN "IDLE" ELSE detector.state
  BY ClearedVotes
<1> HIDE DEF first, k
<1>4. WindowOK(Added(first, t))
  BY <1>2, AddedOK
<1>5. WindowOK(added)
  BY <1>4, StillOK, Zenon
<1>6. added.votes = first.votes /\ added.state = first.state
  BY <1>2, AddedVotes, Zenon
<1> HIDE DEF added
<1>7. Bounded(added, k)
  BY <1>2, <1>6, SameVotes
<1>8. /\ voted.state = added.state => Bounded(voted, j)
      /\ voted.state # added.state => k >= Overlap - 1 /\ Bounded(voted, 0)
  BY <1>5, <1>7, EvaluationCounts, Zenon
<1> HIDE DEF voted, j, moved
<1>9. CASE moved
  BY <1>1, <1>9, ClearedVotes
<1>10. CASE ~moved /\ voted.state # first.state
  BY <1>1, <1>6, <1>8, <1>10 DEF k
<1>11. CASE ~moved /\ voted.state = first.state
  <2>1. detector' = voted /\ since' = j
    BY <1>1, <1>11
  <2>2. Bounded(detector', since')
    BY <1>6, <1>8, <1>11, <2>1
  <2>3. detector'.state = IF clearAsked THEN "IDLE" ELSE detector.state
    BY <1>3, <1>11, <2>1
  <2> QED BY <2>2, <2>3
<1> QED BY <1>9, <1>10, <1>11

LEMMA StepVInv ==
  VInv /\ [Next]_vars =>
    /\ VInv'
    /\ \/ detector'.state = detector.state
       \/ detector'.votes = <<>> \/ (clearAsked /\ detector'.state = "IDLE")
       \/ (IF clearAsked THEN 0 ELSE since) >= Overlap - 1
<1> SUFFICES ASSUME VInv, [Next]_vars
             PROVE  /\ VInv'
                    /\ \/ detector'.state = detector.state
                       \/ detector'.votes = <<>> \/ (clearAsked /\ detector'.state = "IDLE")
                       \/ (IF clearAsked THEN 0 ELSE since) >= Overlap - 1
  OBVIOUS
<1>1. WInv'
  BY StepWInv DEF VInv
<1>2. CASE AnyPacket
  <2>1. PICK t \in scenario.turbulences, still \in scenario.still, c \in scenario.channels :
          Packet(t, still, c)
    BY <1>2, Zenon DEF AnyPacket
  <2>2. t \in Nat
    BY TurbulencesAreNumbers DEF VInv, WInv
  <2>3. /\ Bounded(detector', since')
        /\ \/ detector'.state = detector.state
           \/ detector'.votes = <<>> \/ (clearAsked /\ detector'.state = "IDLE")
           \/ (IF clearAsked THEN 0 ELSE since) >= Overlap - 1
    BY <2>1, <2>2, PacketCounts, Zenon
  <2> QED BY <1>1, <2>3 DEF VInv
<1>3. CASE LoopStep \/ UNCHANGED vars
  <2>1. UNCHANGED <<detector, since>>
    BY <1>3 DEF LoopStep, TakePublication, PublishAll, ChooseThreshold, ApplyCalibration,
       Disconnect, Connect, csi, vars
  <2>2. Bounded(detector, since)' = Bounded(detector, since)
    BY <2>1 DEF Bounded
  <2> QED BY <1>1, <2>1, <2>2 DEF VInv
<1> QED BY <1>2, <1>3 DEF Next

LEMMA InitVInv == Init => VInv
<1> SUFFICES ASSUME Init PROVE VInv
  OBVIOUS
<1>1. scenario \in Scenarios /\ detector = Blank /\ since = 0
  BY DEF Init
<1>2. Bounded(Blank, 0)
  <2>1. Blank.votes = Cleared(Blank).votes /\ Blank.state = Cleared(Blank).state
    BY ClearedVotes DEF Blank
  <2> QED BY <2>1, ClearedVotes, SameVotes
<1> QED BY <1>1, <1>2, BlankOK DEF VInv, WInv

\* The detector does not flicker, for every window of votes and every two majorities: a
\* vote turns its state only after as many votes as the majorities have in common
\* (base_detector.cpp:441-466), whatever the levels, the threshold, the clearings and the
\* changes of channel.
THEOREM TransitionsApartHolds == Spec => TransitionsApart
<1>1. Spec => []VInv
  BY InitVInv, StepVInv, PTL DEF Spec
<1>2. VInv /\ [Next]_vars =>
        [ \/ detector'.state = detector.state
          \/ detector'.votes = <<>> \/ (clearAsked /\ detector'.state = "IDLE")
          \/ (IF clearAsked THEN 0 ELSE since) >= Overlap - 1 ]_vars
  BY StepVInv
<1> QED BY <1>1, <1>2, PTL DEF Spec, TransitionsApart

=============================================================================
