----------------------------- MODULE LudoProofs -----------------------------
(***************************************************************************)
(* Proofs about Ludo, on any board: however many spots, colours, pawns and *)
(* sides of the die there are, and whoever is played by the computer.      *)
(***************************************************************************)
EXTENDS Ludo, SetInduction, FiniteSetTheorems

(* Where a pawn of a colour may stand, and where it may go.                 *)
Reach(c) == Circle \cup Home(c)
Spots(c) == Circle \cup Start(c) \cup Home(c)

Placing(board) == \A p \in Pawns : board[p] \in Spots(ColorOf(p))

LEMMA PawnsAre ==
  ASSUME NEW p \in Pawns
  PROVE  /\ ColorOf(p) \in InGame /\ p \in PawnsOf(ColorOf(p))
         /\ \E k \in 1 .. Len(Starts[ColorOf(p)]) : p = <<ColorOf(p), k>>
<1>1. PICK c \in InGame : p \in PawnsOf(c)
  BY DEF Pawns
<1>2. PICK k \in 1 .. Len(Starts[c]) : p = <<c, k>>
  BY <1>1 DEF PawnsOf
<1>3. ColorOf(p) = c
  BY <1>2 DEF ColorOf
<1> QED
  BY <1>1, <1>2, <1>3

LEMMA OwnPawns ==
  ASSUME NEW c \in InGame, NEW p \in PawnsOf(c)
  PROVE  p \in Pawns /\ ColorOf(p) = c
  BY DEF PawnsOf, Pawns, ColorOf

(* Starts lie before the circle, home paths beyond it. *)
LEMMA SpotsApart ==
  ASSUME NEW c \in InGame
  PROVE  /\ \A s \in Start(c) : s \in Int /\ s < 0
         /\ \A s \in Circle : s \in Nat /\ s < BoardSize
         /\ \A s \in Home(c) : s \in Nat /\ s >= BoardSize
         /\ \A s \in Reach(c) : s \in Nat /\ s \notin Start(c)
<1>1. \A s \in Start(c) : s \in Int /\ s < 0
  BY BoardAssumption DEF Start
<1>2. \A s \in Circle : s \in Nat /\ s < BoardSize
  BY BoardAssumption DEF Circle
<1>3. \A s \in Home(c) : s \in Nat /\ s >= BoardSize
  BY BoardAssumption DEF Home
<1> QED
  BY <1>1, <1>2, <1>3 DEF Reach
-----------------------------------------------------------------------------
(* The loop over the colours ends with one that plays. *)

LEMMA WholeRound ==
  ASSUME NEW n \in Nat \ {0}, NEW a \in 1 .. n
  PROVE  (a + n - 1) % n = a - 1
  OBVIOUS

(* The colour ahead by d on the cycle of colours. *)
Ahead(at, d) == Order[((at + d - 1) % Len(Order)) + 1]

LEMMA NextIs ==
  ASSUME NEW c \in InGame
  PROVE  \E at, d \in 1 .. Len(Order) :
           /\ Order[at] = c /\ NextInGame(c) = Ahead(at, d) /\ Ahead(at, d) \in InGame
           /\ \A e \in 1 .. d - 1 : Ahead(at, e) \notin InGame
<1> DEFINE n == Len(Order)
           at == CHOOSE k \in 1 .. n : Order[k] = c
           ahead(d) == Order[((at + d - 1) % n) + 1]
           Good(d) == ahead(d) \in InGame /\ \A e \in 1 .. d - 1 : ahead(e) \notin InGame
           D == {d \in 1 .. n : ahead(d) \in InGame}
           dist == CHOOSE e \in 1 .. n : Good(e)
<1>1. at \in 1 .. n /\ Order[at] = c
  BY BoardAssumption
<1>2. n \in Nat \ {0}
  BY BoardAssumption
<1>3. NextInGame(c) = ahead(dist)
  BY DEF NextInGame, n, at
<1>4. \A d : ahead(d) = Ahead(at, d)
  BY DEF Ahead
<1> HIDE DEF at, n
<1>5. n \in D
  <2>1. (at + n - 1) % n = at - 1
    BY <1>1, <1>2, WholeRound
  <2>2. (at - 1) + 1 = at
    BY <1>1
  <2> QED
    BY <1>1, <1>2, <2>1, <2>2
<1>6. PICK d \in D : \A e \in D : d <= e
  <2> HIDE DEF D
  <2>1. D \subseteq Nat
    BY <1>2 DEF D
  <2> QED
    BY <1>5, <2>1, LeastNat
<1>7. d \in 1 .. n /\ Good(d)
  BY <1>2, <1>6
<1> HIDE DEF ahead
<1>8. dist \in 1 .. n /\ Good(dist)
  BY <1>7
<1> HIDE DEF dist
<1> QED
  BY <1>1, <1>3, <1>4, <1>8 DEF n

LEMMA NextInGameType ==
  ASSUME NEW c \in InGame
  PROVE  NextInGame(c) \in InGame
  BY NextIs

(* Everybody else is less than a round ahead. *)
LEMMA StepsBetween ==
  ASSUME NEW n \in Nat \ {0}, NEW a \in 1 .. n, NEW b \in 1 .. n, a # b
  PROVE  \E e \in 1 .. n - 1 : (a + e - 1) % n = b - 1
<1>1. CASE a < b
  <2>1. (a + (b - a) - 1) % n = b - 1 /\ b - a \in 1 .. n - 1
    BY <1>1
  <2> QED
    BY <2>1
<1>2. CASE b < a
  <2>1. (a + (n + b - a) - 1) % n = b - 1 /\ n + b - a \in 1 .. n - 1
    <3>1. a + (n + b - a) - 1 = n + (b - 1)
      OBVIOUS
    <3>2. (n + (b - 1)) % n = b - 1
      OBVIOUS
    <3> QED
      BY <1>2, <3>1, <3>2
  <2> QED
    BY <2>1
<1> QED
  BY <1>1, <1>2

(* What is e ahead of what is d ahead, up to a whole round. *)
LEMMA StepsAdd ==
  ASSUME NEW n \in Nat \ {0}, NEW a \in 1 .. n, NEW d \in 0 .. n - 1,
         NEW e \in 1 .. n, d + e <= n
  PROVE  /\ ((a + d - 1) % n) + 1 \in 1 .. n
         /\ ((((a + d - 1) % n) + 1) + e - 1) % n = (a + (d + e) - 1) % n
<1>1. CASE a + d - 1 < n
  <2>1. (a + d - 1) % n = a + d - 1
    BY <1>1
  <2>2. ((a + d - 1) + 1) + e - 1 = a + (d + e) - 1
    OBVIOUS
  <2> QED
    BY <1>1, <2>1, <2>2
<1>2. CASE ~ (a + d - 1 < n)
  <2>1. (a + d - 1) % n = a + d - 1 - n
    BY <1>2
  <2>2. ((a + d - 1 - n) + 1) + e - 1 = a + (d + e) - 1 - n
    OBVIOUS
  <2>3. (a + (d + e) - 1) % n = a + (d + e) - 1 - n
    BY <1>2
  <2>4. (a + (d + e) - 1 - n) % n = a + (d + e) - 1 - n
    BY <1>2
  <2> QED
    BY <1>2, <2>1, <2>2, <2>3, <2>4
<1> QED
  BY <1>1, <1>2

LEMMA StepsApart ==
  ASSUME NEW n \in Nat \ {0}, NEW a \in 1 .. n, NEW e \in 1 .. n - 1,
         NEW d \in 1 .. n - 1, e < d
  PROVE  /\ (a + e - 1) % n \in 0 .. n - 1 /\ (a + d - 1) % n \in 0 .. n - 1
         /\ (a + e - 1) % n # (a + d - 1) % n
<1>1. ASSUME NEW k \in 1 .. n - 1
      PROVE  (a + k - 1) % n = IF a + k - 1 < n THEN a + k - 1 ELSE a + k - 1 - n
  <2>1. CASE a + k - 1 < n
    BY <2>1
  <2>2. CASE ~ (a + k - 1 < n)
    <3>1. (a + k - 1) % n = a + k - 1 - n
      BY <2>2
    <3> QED
      BY <2>2, <3>1
  <2> QED
    BY <2>1, <2>2
<1>2. /\ (a + e - 1) % n = IF a + e - 1 < n THEN a + e - 1 ELSE a + e - 1 - n
      /\ (a + d - 1) % n = IF a + d - 1 < n THEN a + d - 1 ELSE a + d - 1 - n
  BY <1>1
<1> QED
  BY <1>2

(* The colours between one and what is d ahead of it.                       *)
Passed(at, d) == {Ahead(at, e) : e \in 1 .. d}

LEMMA NotYetPassed ==
  ASSUME NEW at \in 1 .. Len(Order), NEW d \in 1 .. Len(Order) - 1
  PROVE  Ahead(at, d) \notin Passed(at, d - 1)
<1> SUFFICES ASSUME NEW e \in 1 .. d - 1, Ahead(at, e) = Ahead(at, d) PROVE FALSE
  BY DEF Passed
<1> DEFINE n == Len(Order)
           i == (at + e - 1) % n
           j == (at + d - 1) % n
<1>1. n \in Nat \ {0}
  BY BoardAssumption
<1>2. Order[i + 1] = Order[j + 1]
  BY DEF Ahead
<1> HIDE DEF n
<1>3. e \in 1 .. n - 1 /\ d \in 1 .. n - 1 /\ e < d /\ at \in 1 .. n
  BY <1>1 DEF n
<1>4. i \in 0 .. n - 1 /\ j \in 0 .. n - 1 /\ i # j
  BY <1>1, <1>3, StepsApart
<1> HIDE DEF i, j
<1>5. i + 1 \in 1 .. n /\ j + 1 \in 1 .. n /\ i + 1 # j + 1
  BY <1>1, <1>4
<1> QED
  BY <1>2, <1>5, BoardAssumption DEF n

(* A whole round passes everybody. *)
LEMMA AllPassed ==
  ASSUME NEW at \in 1 .. Len(Order)
  PROVE  Ahead(at, Len(Order)) = Order[at] /\ InGame \subseteq Passed(at, Len(Order))
<1> DEFINE n == Len(Order)
<1>1. n \in Nat \ {0} /\ InGame \subseteq {Order[k] : k \in 1 .. n}
  BY BoardAssumption
<1>2. (at + n - 1) % n = at - 1 /\ (at - 1) + 1 = at
  BY <1>1, WholeRound
<1>3. Ahead(at, n) = Order[at]
  BY <1>2 DEF Ahead
<1>4. ASSUME NEW c \in InGame PROVE c \in Passed(at, n)
  <2>1. PICK j \in 1 .. n : Order[j] = c
    BY <1>1
  <2>2. CASE j = at
    BY <1>1, <1>3, <2>1, <2>2 DEF Passed
  <2>3. CASE j # at
    <3> HIDE DEF n
    <3>1. at \in 1 .. n
      BY DEF n
    <3>2. PICK e \in 1 .. n - 1 : (at + e - 1) % n = j - 1
      BY <1>1, <2>1, <2>3, <3>1, StepsBetween
    <3>3. (j - 1) + 1 = j /\ e \in 1 .. n
      BY <1>1, <2>1
    <3>4. Ahead(at, e) = c
      BY <2>1, <3>2, <3>3 DEF Ahead, n
    <3> QED
      BY <3>3, <3>4 DEF Passed
  <2> QED
    BY <2>2, <2>3
<1> QED
  BY <1>3, <1>4

(* From what is d ahead, the next in the game is further ahead, one round   *)
(* at most, and nobody plays in between.                                    *)
LEMMA Onward ==
  ASSUME NEW at \in 1 .. Len(Order), NEW d \in 0 .. Len(Order) - 1,
         Order[at] \in InGame, Ahead(at, d) \in InGame
  PROVE  \E f \in d + 1 .. Len(Order) :
           /\ NextInGame(Ahead(at, d)) = Ahead(at, f)
           /\ \A e \in d + 1 .. f - 1 : Ahead(at, e) \notin InGame
<1> DEFINE n == Len(Order)
           c == Ahead(at, d)
           b == ((at + d - 1) % n) + 1
<1>1. n \in Nat \ {0}
  BY BoardAssumption
<1>2. PICK a2, k \in 1 .. n :
           /\ Order[a2] = c /\ NextInGame(c) = Ahead(a2, k)
           /\ \A e \in 1 .. k - 1 : Ahead(a2, e) \notin InGame
  BY NextIs
<1>3. c = Order[b]
  BY DEF Ahead
<1> HIDE DEF n
<1>4. at \in 1 .. n /\ d \in 0 .. n - 1
  BY DEF n
<1>5. b \in 1 .. n
  BY <1>1, <1>4, StepsAdd
<1> HIDE DEF b
<1>6. a2 = b
  BY <1>2, <1>3, <1>5, BoardAssumption DEF n
<1>7. ASSUME NEW e \in 1 .. n, d + e <= n PROVE Ahead(a2, e) = Ahead(at, d + e)
  <2>1. (b + e - 1) % n = (at + (d + e) - 1) % n
    BY <1>1, <1>4, <1>7, StepsAdd DEF b
  <2> QED
    BY <1>6, <2>1 DEF Ahead, n
<1>8. Ahead(at, n) = Order[at]
  BY AllPassed DEF n
<1>9. d + k <= n
  <2> SUFFICES ASSUME d + k > n PROVE FALSE
    BY <1>1, <1>2, <1>4
  <2>1. n - d \in 1 .. k - 1 /\ n - d \in 1 .. n /\ d + (n - d) = n
    BY <1>1, <1>2, <1>4
  <2>2. Ahead(a2, n - d) = Ahead(at, n)
    BY <1>7, <2>1
  <2> QED
    BY <1>2, <1>8, <2>1, <2>2
<1> DEFINE f == d + k
<1>10. f \in d + 1 .. n /\ NextInGame(c) = Ahead(at, f)
  BY <1>1, <1>2, <1>4, <1>7, <1>9
<1>11. ASSUME NEW e \in d + 1 .. f - 1 PROVE Ahead(at, e) \notin InGame
  <2>1. e - d \in 1 .. k - 1 /\ e - d \in 1 .. n /\ d + (e - d) = e /\ e <= n
    BY <1>1, <1>2, <1>4, <1>9
  <2> QED
    BY <1>2, <1>7, <2>1
<1> QED
  BY <1>10, <1>11 DEF n
-----------------------------------------------------------------------------
(* A walk stays on the circle until it enters the home path, and there it   *)
(* goes on.                                                                 *)

Beyond(c) == {s \in Int : s >= Config[c].homeStart}

LEMMA StepType ==
  ASSUME NEW c \in InGame, NEW s \in Circle \cup Beyond(c)
  PROVE  StepFrom(c, s) \in Circle \cup Beyond(c)
<1>1. CASE s >= Config[c].homeStart
  BY <1>1, BoardAssumption DEF StepFrom, Beyond, Circle
<1>2. CASE ~ (s >= Config[c].homeStart) /\ s = Config[c].homeEntry
  BY <1>2, BoardAssumption DEF StepFrom, Beyond
<1>3. CASE ~ (s >= Config[c].homeStart) /\ s # Config[c].homeEntry
  <2>1. s \in Int /\ BoardSize \in Nat \ {0}
    BY BoardAssumption DEF Circle, Beyond
  <2>2. (s + 1) % BoardSize \in 0 .. BoardSize - 1
    BY <2>1
  <2> QED
    BY <1>3, <2>2 DEF StepFrom, Circle
<1> QED
  BY <1>1, <1>2, <1>3

LEMMA WalkIs ==
  ASSUME NEW c \in InGame, NEW s \in Circle \cup Beyond(c), NEW n \in Nat
  PROVE  \E walk : /\ StepsFrom(c, s, n) = walk[n] /\ walk[0] = s
                   /\ \A k \in 1 .. n : walk[k] = StepFrom(c, walk[k - 1])
<1> DEFINE S == Circle \cup Beyond(c)
           g == [x \in S |-> StepFrom(c, x)]
           Walk(f) == f = [k \in 0 .. n |-> IF k = 0 THEN s ELSE StepFrom(c, f[k - 1])]
           walk == CHOOSE f : Walk(f)
<1>1. g \in [S -> S]
  BY StepType
<1>2. PICK f \in [0 .. n -> S] : Iterates(f, g, s, n)
  <2> HIDE DEF g, S
  <2>1. s \in S
    BY DEF S
  <2> QED
    BY <1>1, <2>1, IteratesExist
<1>3. Walk(f)
  <2>1. ASSUME NEW k \in 0 .. n PROVE f[k] = IF k = 0 THEN s ELSE StepFrom(c, f[k - 1])
    <3>1. CASE k = 0
      BY <1>2, <3>1 DEF Iterates
    <3>2. CASE k # 0
      <4>1. k \in 1 .. n /\ k - 1 \in 0 .. n
        BY <3>2
      <4>2. f[k] = g[f[k - 1]] /\ f[k - 1] \in S
        BY <1>2, <4>1 DEF Iterates
      <4> QED
        BY <3>2, <4>2
    <3> QED
      BY <3>1, <3>2
  <2> QED
    BY <1>2, <2>1
<1>4. Walk(walk)
  <2> HIDE DEF Walk
  <2> QED
    BY <1>3
<1>5. StepsFrom(c, s, n) = walk[n]
  BY DEF StepsFrom
<1> HIDE DEF walk
<1>6. walk[0] = s
  BY <1>4
<1>7. ASSUME NEW k \in 1 .. n PROVE walk[k] = StepFrom(c, walk[k - 1])
  <2>1. k \in 0 .. n /\ k # 0
    OBVIOUS
  <2> QED
    BY <1>4, <2>1
<1> QED
  BY <1>5, <1>6, <1>7

LEMMA StepsType ==
  ASSUME NEW c \in InGame, NEW s \in Circle \cup Beyond(c), NEW n \in Nat
  PROVE  StepsFrom(c, s, n) \in Circle \cup Beyond(c)
<1> DEFINE S == Circle \cup Beyond(c)
<1>1. PICK walk : /\ StepsFrom(c, s, n) = walk[n] /\ walk[0] = s
                  /\ \A k \in 1 .. n : walk[k] = StepFrom(c, walk[k - 1])
  BY WalkIs
<1>2. \A k \in 0 .. n : walk[k] \in S
  <2>1. walk[0] \in S
    BY <1>1
  <2>2. ASSUME NEW k \in 1 .. n, walk[k - 1] \in S PROVE walk[k] \in S
    BY <1>1, <2>2, StepType
  <2> HIDE DEF S
  <2> QED
    BY <2>1, <2>2, IteratesIn
<1> QED
  BY <1>1, <1>2

(* On the home path a walk only counts. *)
LEMMA StepsHome ==
  ASSUME NEW c \in InGame, NEW s \in Beyond(c), NEW n \in Nat
  PROVE  StepsFrom(c, s, n) = s + n
<1>1. PICK walk : /\ StepsFrom(c, s, n) = walk[n] /\ walk[0] = s
                  /\ \A k \in 1 .. n : walk[k] = StepFrom(c, walk[k - 1])
  BY WalkIs
<1> DEFINE T == {k \in Nat : k <= n => walk[k] = s + k}
<1>2. s \in Int /\ s >= Config[c].homeStart /\ Config[c].homeStart \in Int
  BY BoardAssumption DEF Beyond
<1>3. 0 \in T
  BY <1>1, <1>2
<1>4. ASSUME NEW k \in Nat, k \in T PROVE k + 1 \in T
  <2> SUFFICES ASSUME k + 1 <= n PROVE walk[k + 1] = s + (k + 1)
    OBVIOUS
  <2>1. walk[k + 1] = StepFrom(c, walk[k]) /\ walk[k] = s + k
    <3>1. k + 1 \in 1 .. n /\ (k + 1) - 1 = k
      OBVIOUS
    <3> QED
      BY <1>1, <1>4, <3>1
  <2>2. s + k >= Config[c].homeStart
    BY <1>2
  <2> QED
    BY <1>2, <2>1, <2>2 DEF StepFrom
<1>5. \A k \in Nat : k \in T
  <2> HIDE DEF T
  <2> QED
    BY <1>3, <1>4, NatSetInduction
<1> QED
  BY <1>1, <1>5

LEMMA LandingType ==
  ASSUME NEW c \in InGame, NEW s \in Spots(c), NEW roll \in Nat,
         NEW t \in Landing(c, s, roll)
  PROVE  t \in Reach(c)
<1>1. CASE s < 0
  <2>1. t = Config[c].boardEntry
    BY <1>1 DEF Landing
  <2> QED
    BY <2>1, BoardAssumption DEF Reach
<1>2. CASE ~ (s < 0)
  <2>1. t = StepsFrom(c, s, roll) /\ t <= Config[c].homeEnd
    BY <1>2 DEF Landing
  <2>2. s \in Circle \cup Beyond(c)
    BY <1>2, SpotsApart, BoardAssumption DEF Spots, Beyond, Home
  <2>3. t \in Circle \cup Beyond(c)
    BY <2>1, <2>2, StepsType
  <2> QED
    BY <2>1, <2>3, BoardAssumption DEF Reach, Beyond, Home
<1> QED
  BY <1>1, <1>2

(* A move takes a pawn of the colour to a spot where it may go and none of  *)
(* its own stands.                                                          *)
LEMMA MoveFacts ==
  ASSUME NEW c, NEW board, NEW roll, NEW m \in AvailableMoves(c, board, roll)
  PROVE  /\ m = <<m[1], m[2]>> /\ m[1] \in PawnsOf(c)
         /\ m[2] \in Landing(c, board[m[1]], roll)
         /\ \A q \in PawnsOf(c) : board[q] # m[2]
<1>1. PICK p \in PawnsOf(c) : m \in {p} \X {t \in Landing(c, board[p], roll) :
                                             \A q \in PawnsOf(c) : board[q] # t}
  BY DEF AvailableMoves
<1>2. /\ m = <<m[1], m[2]>> /\ m[1] = p
      /\ m[2] \in {t \in Landing(c, board[p], roll) : \A q \in PawnsOf(c) : board[q] # t}
  BY <1>1
<1> QED
  BY <1>1, <1>2

LEMMA MovesType ==
  ASSUME NEW c \in InGame, NEW board, Placing(board), NEW roll \in Nat,
         NEW m \in AvailableMoves(c, board, roll)
  PROVE  m[1] \in PawnsOf(c) /\ m[1] \in Pawns /\ m[2] \in Reach(ColorOf(m[1]))
<1>1. m[1] \in PawnsOf(c) /\ m[2] \in Landing(c, board[m[1]], roll)
  BY MoveFacts
<1>2. m[1] \in Pawns /\ ColorOf(m[1]) = c
  BY <1>1, OwnPawns
<1>3. board[m[1]] \in Spots(c)
  BY <1>2 DEF Placing
<1> QED
  BY <1>1, <1>2, <1>3, LandingType
-----------------------------------------------------------------------------
(* A pawn that has left its start leaves one free for itself.               *)

LEMMA OneTooMany ==
  ASSUME NEW n \in Nat, NEW j \in 1 .. n, NEW f \in [1 .. n -> (1 .. n) \ {j}]
  PROVE  \E x, y \in 1 .. n : x # y /\ f[x] = f[y]
<1>1. IsFiniteSet(1 .. n) /\ Cardinality(1 .. n) = n
  BY FS_Interval
<1>2. IsFiniteSet((1 .. n) \ {j}) /\ Cardinality((1 .. n) \ {j}) = n - 1
  BY <1>1, FS_RemoveElement
<1>3. Cardinality((1 .. n) \ {j}) < Cardinality(1 .. n)
  BY <1>1, <1>2
<1> QED
  BY <1>1, <1>2, <1>3, FS_PigeonHole

LEMMA StartsDiffer ==
  ASSUME NEW c \in InGame, NEW d \in InGame,
         NEW k \in 1 .. Len(Starts[c]), NEW l \in 1 .. Len(Starts[d]),
         Starts[c][k] = Starts[d][l]
  PROVE  c = d /\ k = l
  BY BoardAssumption

LEMMA FreeStartExists ==
  ASSUME NEW board, Placing(board), NEW p \in Pawns, board[p] \notin Start(ColorOf(p))
  PROVE  FreeStarts(ColorOf(p), board) # {}
<1> DEFINE c == ColorOf(p)
           n == Len(Starts[c])
<1>1. PICK j \in 1 .. n : p = <<c, j>>
  BY PawnsAre
<1>2. c \in InGame /\ n \in Nat
  BY PawnsAre, BoardAssumption
<1> SUFFICES ASSUME FreeStarts(c, board) = {} PROVE FALSE
  OBVIOUS
<1> HIDE DEF c, n
<1>3. ASSUME NEW k \in 1 .. n
      PROVE  \E l \in (1 .. n) \ {j} : board[<<c, l>>] = Starts[c][k]
  <2>1. PICK q \in Pawns : board[q] = Starts[c][k]
    BY DEF FreeStarts, n
  <2>2. Starts[c][k] \in Start(c) /\ Starts[c][k] \in Int /\ Starts[c][k] < 0
    BY <1>2, BoardAssumption DEF Start, n
  <2>3. ColorOf(q) \in InGame /\ board[q] \in Spots(ColorOf(q))
    BY PawnsAre DEF Placing
  <2>4. board[q] \in Start(ColorOf(q))
    BY <2>1, <2>2, <2>3, SpotsApart DEF Spots
  <2>5. PICK i \in 1 .. Len(Starts[ColorOf(q)]) : board[q] = Starts[ColorOf(q)][i]
    BY <2>4 DEF Start
  <2>6. ColorOf(q) = c
    BY <1>2, <2>1, <2>3, <2>5, StartsDiffer DEF n
  <2>7. PICK l \in 1 .. n : q = <<c, l>>
    BY <2>6, PawnsAre DEF n
  <2>8. l # j
    BY <1>1, <2>1, <2>2, <2>7 DEF c
  <2> QED
    BY <2>1, <2>7, <2>8
<1> DEFINE T == (1 .. n) \ {j}
           f == [k \in 1 .. n |-> CHOOSE l \in T : board[<<c, l>>] = Starts[c][k]]
<1>4. f \in [1 .. n -> T] /\ \A k \in 1 .. n : board[<<c, f[k]>>] = Starts[c][k]
  BY <1>3
<1> HIDE DEF f
<1>5. PICK x, y \in 1 .. n : x # y /\ f[x] = f[y]
  BY <1>1, <1>2, <1>4, OneTooMany
<1>6. Starts[c][x] = Starts[c][y]
  BY <1>4, <1>5
<1> QED
  BY <1>2, <1>5, <1>6, StartsDiffer DEF n

LEMMA FirstFree ==
  ASSUME NEW c \in InGame, NEW board, FreeStarts(c, board) # {}
  PROVE  /\ FirstFreeStart(c, board) \in Start(c)
         /\ \A q \in Pawns : board[q] # FirstFreeStart(c, board)
<1> DEFINE F == FreeStarts(c, board)
           k == CHOOSE i \in F : \A j \in F : i <= j
<1>1. F \subseteq Nat
  BY BoardAssumption DEF FreeStarts
<1>2. k \in F
  <2> HIDE DEF F
  <2>1. \E i \in F : \A j \in F : i <= j
    BY <1>1, LeastNat DEF F
  <2> QED
    BY <2>1
<1>3. FirstFreeStart(c, board) = Starts[c][k]
  BY DEF FirstFreeStart
<1> HIDE DEF k
<1> QED
  BY <1>2, <1>3 DEF FreeStarts, Start
-----------------------------------------------------------------------------
(* The invariant. *)

(* The request, the turn and the page. *)
LoopInv ==
  /\ inHome \in [Pawns -> BOOLEAN]
  /\ turn \in InGame /\ botTurn \in InGame \cup {NoColor}
  /\ extraTurn \in BOOLEAN /\ over \in BOOLEAN
  /\ page \in {"ready", "waiting", "choosing", "over"}
  /\ pc # "idle" <=> page = "waiting"
  /\ moves # {} <=> page = "choosing"
  /\ pc \in {"played", "unplayed", "pass"} => botTurn \in InGame
  /\ pc \in {"six", "offer"} => die \in 1 .. Sides

(* Pawns stand where they may, on the board that DoBotTurns has read too,   *)
(* and go where they may.                                                   *)
BoardInv ==
  /\ pos \in [Pawns -> Int] /\ Placing(pos) /\ Placing(seen.pos)
  /\ \A m \in moves : m[1] \in Pawns /\ m[2] \in Reach(ColorOf(m[1]))
  /\ pc \in {"find", "capture", "place"} => pawn \in Pawns /\ to \in Reach(ColorOf(pawn))

(* The spot is empty when the pawn is placed on it. *)
SpotInv ==
  /\ OnePawnPerSpot
  /\ pc = "capture" => occupant \in Pawns \ {pawn} /\ pos[occupant] = to
  /\ pc = "place" => \A q \in Pawns \ {pawn} : pos[q] # to

IInv == LoopInv /\ BoardInv /\ SpotInv

LEMMA HomeTyped ==
  ASSUME inHome \in [Pawns -> BOOLEAN], Placed
  PROVE  inHome' \in [Pawns -> BOOLEAN]
<1> DEFINE b == IsInHome(pawn, to)
<1>1. b \in BOOLEAN
  BY DEF IsInHome
<1>2. inHome' = [inHome EXCEPT ![pawn] = b]
  BY DEF Placed
<1> HIDE DEF b
<1> QED
  BY <1>1, <1>2

LEMMA LoopStep ==
  ASSUME LoopInv, [Next]_vars
  PROVE  LoopInv'
<1>1. CASE Roll
  BY <1>1 DEF Roll, LoopInv, Goes, Answered, gameVars, moveVars, botVars,
       TurnOf
<1>2. CASE RecordSix
  BY <1>2 DEF RecordSix, LoopInv, Goes, Answered, gameVars, moveVars, botVars,
       TurnOf
<1>3. CASE Offer
  BY <1>3 DEF Offer, LoopInv, Goes, Answered, gameVars, moveVars, botVars,
       TurnOf
<1>4. CASE OfferNothing
  BY <1>4 DEF OfferNothing, LoopInv, Goes, Answered, gameVars, moveVars,
       botVars, TurnOf
<1>5. CASE Choose
  BY <1>5 DEF Choose, Goes, LoopInv, gameVars, botVars
<1>6. CASE Reload
  BY <1>6 DEF Reload, LoopInv, Goes, Answered, gameVars, moveVars, botVars,
       TurnOf
<1>7. CASE FindOccupant
  BY <1>7 DEF FindOccupant, LoopInv, Goes, Answered, gameVars, moveVars,
       botVars, TurnOf
<1>8. CASE SendHome
  BY <1>8 DEF SendHome, LoopInv, Goes, Answered, gameVars, moveVars, botVars,
       TurnOf
<1>9. CASE PlaceForHuman
  <2>1. inHome' \in [Pawns -> BOOLEAN]
    BY <1>9, HomeTyped DEF PlaceForHuman, LoopInv
  <2> QED
    BY <1>9, <2>1 DEF PlaceForHuman, Goes, gameVars, botVars, LoopInv
<1>10. CASE PassTurn
  BY <1>10 DEF PassTurn, LoopInv, Goes, Answered, gameVars, moveVars, botVars,
       TurnOf
<1>11. CASE Win
  BY <1>11 DEF Win, LoopInv, Goes, Answered, gameVars, moveVars, botVars,
       TurnOf
<1>12. CASE UseExtraTurn
  BY <1>12 DEF UseExtraTurn, LoopInv, Goes, Answered, gameVars, moveVars,
       botVars, TurnOf
<1>13. CASE ReadPlayers
  BY <1>13 DEF ReadPlayers, LoopInv, Goes, Answered, gameVars, moveVars,
       botVars, TurnOf
<1>14. CASE BotMoves
  <2>1. NextPlayer \in InGame
    BY <1>14, NextInGameType DEF BotMoves, LoopInv, NextPlayer
  <2> QED
    BY <1>14, <2>1 DEF BotMoves, LoopInv, gameVars
<1>15. CASE BotCannotMove
  <2>1. NextPlayer \in InGame
    BY <1>15, NextInGameType DEF BotCannotMove, LoopInv, NextPlayer
  <2> QED
    BY <1>15, <2>1 DEF BotCannotMove, LoopInv, gameVars
<1>16. CASE PlaceForBot
  <2>1. inHome' \in [Pawns -> BOOLEAN]
    BY <1>16, HomeTyped DEF PlaceForBot, LoopInv
  <2> QED
    BY <1>16, <2>1 DEF PlaceForBot, Answered, moveVars, botVars, LoopInv
<1>17. CASE HumanIsNext
  <2>1. NextPlayer \in InGame
    BY <1>17, NextInGameType DEF HumanIsNext, LoopInv, NextPlayer
  <2> QED
    BY <1>17, <2>1 DEF HumanIsNext, LoopInv, gameVars
<1>18. CASE SetTurn
  BY <1>18 DEF SetTurn, LoopInv, Goes, Answered, gameVars, moveVars, botVars,
       TurnOf
<1>19. CASE UNCHANGED vars
  BY <1>19 DEF vars, LoopInv, Goes, Answered, gameVars, moveVars, botVars,
       TurnOf
<1> QED
  BY <1>1, <1>2, <1>3, <1>4, <1>5, <1>6, <1>7, <1>8, <1>9, <1>10, <1>11,
       <1>12, <1>13, <1>14, <1>15, <1>16, <1>17, <1>18, <1>19
     DEF Next, Server

(* Where pawns stand and go. *)
LEMMA StartsIn ==
  \A p \in Pawns : AtStart[p] \in Start(ColorOf(p)) /\ AtStart[p] \in Int
<1> SUFFICES ASSUME NEW p \in Pawns
             PROVE  AtStart[p] \in Start(ColorOf(p)) /\ AtStart[p] \in Int
  OBVIOUS
<1>1. PICK k \in 1 .. Len(Starts[ColorOf(p)]) : p = <<ColorOf(p), k>>
  BY PawnsAre
<1>2. p[2] = k /\ ColorOf(p) \in InGame
  BY <1>1, PawnsAre
<1>3. AtStart[p] = Starts[ColorOf(p)][k]
  BY <1>2 DEF AtStart
<1> QED
  BY <1>2, <1>3, BoardAssumption DEF Start

LEMMA StartsPlaced == Placing(AtStart) /\ AtStart \in [Pawns -> Int]
  BY StartsIn DEF Placing, Spots, AtStart

LEMMA BoardQuiet ==
  ASSUME BoardInv, UNCHANGED pos, seen' \in {seen, Table, Unread},
         moves' \in {moves, {}},
         pc' \in {"find", "capture", "place"} =>
           pc \in {"find", "capture", "place"} /\ UNCHANGED <<pawn, to>>
  PROVE  BoardInv'
<1>1. Placing(AtStart)
  BY StartsPlaced
<1>2. Placing(seen'.pos)
  BY <1>1 DEF BoardInv, Table, Unread
<1> QED
  BY <1>2 DEF BoardInv, Placing

LEMMA SendHomeFacts ==
  ASSUME BoardInv, SpotInv, SendHome
  PROVE  LET s == FirstFreeStart(ColorOf(occupant), pos)
         IN  /\ pc = "capture" /\ pc' = "place"
             /\ occupant \in Pawns \ {pawn} /\ pos[occupant] = to
             /\ pawn \in Pawns /\ to \in Reach(ColorOf(pawn))
             /\ UNCHANGED <<pawn, to, occupant, moves, seen>>
             /\ s \in Start(ColorOf(occupant)) /\ (\A q \in Pawns : pos[q] # s)
             /\ s \in Int /\ s # to
             /\ pos' = [pos EXCEPT ![occupant] = s] /\ pos' \in [Pawns -> Int]
<1> DEFINE c == ColorOf(occupant)
           s == FirstFreeStart(c, pos)
<1>1. /\ pc = "capture" /\ pc' = "place"
      /\ occupant \in Pawns \ {pawn} /\ pos[occupant] = to
      /\ pawn \in Pawns /\ to \in Reach(ColorOf(pawn))
      /\ UNCHANGED <<pawn, to, occupant, moves, seen>>
  BY DEF SendHome, Goes, SpotInv, BoardInv, moveVars, botVars
<1>2. c \in InGame /\ ColorOf(pawn) \in InGame
  BY <1>1, PawnsAre
<1>3. to \in Nat /\ \A x \in Start(c) : x # to
  BY <1>1, <1>2, SpotsApart
<1>4. FreeStarts(c, pos) # {}
  <2>1. pos[occupant] \notin Start(c)
    BY <1>1, <1>3
  <2> QED
    BY <1>1, <2>1, FreeStartExists DEF BoardInv
<1>5. s \in Start(c) /\ (\A q \in Pawns : pos[q] # s) /\ s \in Int /\ s # to
  BY <1>2, <1>3, <1>4, FirstFree, SpotsApart
<1>6. pos' = [pos EXCEPT ![occupant] = s]
  BY <1>4 DEF SendHome, WhereTo
<1> HIDE DEF s
<1>7. pos' \in [Pawns -> Int]
  BY <1>5, <1>6 DEF BoardInv
<1> QED
  BY <1>1, <1>5, <1>6, <1>7 DEF s

LEMMA SendHomeKeeps ==
  ASSUME BoardInv, SpotInv, SendHome
  PROVE  BoardInv' /\ SpotInv'
<1> DEFINE s == FirstFreeStart(ColorOf(occupant), pos)
<1>1. /\ pc = "capture" /\ pc' = "place"
      /\ occupant \in Pawns \ {pawn} /\ pos[occupant] = to
      /\ pawn \in Pawns /\ to \in Reach(ColorOf(pawn))
      /\ UNCHANGED <<pawn, to, occupant, moves, seen>>
      /\ s \in Start(ColorOf(occupant)) /\ (\A q \in Pawns : pos[q] # s)
      /\ s \in Int /\ s # to
      /\ pos' = [pos EXCEPT ![occupant] = s] /\ pos' \in [Pawns -> Int]
  BY SendHomeFacts
<1> HIDE DEF s
<1>2. pos'[occupant] = s /\ \A q \in Pawns : q # occupant => pos'[q] = pos[q]
  BY <1>1 DEF BoardInv
<1>3. Placing(pos')
  BY <1>1, <1>2 DEF BoardInv, Placing, Spots
<1>4. BoardInv'
  BY <1>1, <1>2, <1>3 DEF BoardInv, Placing
<1>5. OnePawnPerSpot'
  BY <1>1, <1>2 DEF SpotInv, OnePawnPerSpot
<1>6. ASSUME NEW q \in Pawns \ {pawn} PROVE pos'[q] # to
  BY <1>1, <1>2 DEF SpotInv, OnePawnPerSpot
<1> QED
  BY <1>1, <1>4, <1>5, <1>6 DEF SpotInv

LEMMA PlacedKeeps ==
  ASSUME BoardInv, SpotInv, pc = "place", Placed,
         pc' \notin {"find", "capture", "place"},
         UNCHANGED moves, seen' \in {seen, Unread}
  PROVE  BoardInv' /\ SpotInv'
<1>1. /\ pawn \in Pawns /\ to \in Reach(ColorOf(pawn))
      /\ \A q \in Pawns \ {pawn} : pos[q] # to
  BY DEF BoardInv, SpotInv
<1>2. to \in Int
  BY <1>1, PawnsAre, SpotsApart
<1>3. /\ pos' \in [Pawns -> Int] /\ pos'[pawn] = to
      /\ \A q \in Pawns : q # pawn => pos'[q] = pos[q]
  BY <1>1, <1>2 DEF Placed, BoardInv
<1>4. Placing(pos')
  BY <1>1, <1>3 DEF BoardInv, Placing, Spots, Reach
<1>5. BoardInv'
  <2>1. Placing(AtStart)
    BY StartsPlaced
  <2> QED
    BY <1>3, <1>4, <2>1 DEF BoardInv, Placing, Unread
<1>6. OnePawnPerSpot'
  BY <1>1, <1>3 DEF SpotInv, OnePawnPerSpot
<1> QED
  BY <1>5, <1>6 DEF SpotInv

LEMMA BoardStep ==
  ASSUME LoopInv, BoardInv, SpotInv, [Next]_vars
  PROVE  BoardInv'
<1>1. CASE Roll
  BY <1>1, BoardQuiet DEF Roll, Goes, Answered, moveVars, botVars
<1>2. CASE RecordSix
  BY <1>2, BoardQuiet DEF RecordSix, Goes, Answered, moveVars, botVars
<1>3. CASE Offer
  <2>1. \A m \in moves' : m[1] \in Pawns /\ m[2] \in Reach(ColorOf(m[1]))
    <3>1. turn \in InGame /\ die \in Nat /\ Placing(pos)
      BY <1>3 DEF Offer, LoopInv, BoardInv
    <3> QED
      BY <1>3, <3>1, MovesType DEF Offer
  <2>2. seen' = Unread /\ pc' = "idle" /\ UNCHANGED pos
    BY <1>3 DEF Offer, Answered
  <2>3. Placing(seen'.pos)
    BY <2>2, StartsPlaced DEF Unread
  <2> QED
    BY <2>1, <2>2, <2>3 DEF BoardInv, Placing
<1>4. CASE OfferNothing
  BY <1>4, BoardQuiet DEF OfferNothing, Goes, Answered, moveVars, botVars
<1>5. CASE Choose
  <2>1. pawn' \in Pawns /\ to' \in Reach(ColorOf(pawn'))
    BY <1>5 DEF Choose, BoardInv
  <2> QED
    BY <1>5, <2>1 DEF Choose, Goes, botVars, BoardInv, Placing
<1>6. CASE Reload
  BY <1>6, BoardQuiet DEF Reload, Goes, Answered, moveVars, botVars
<1>7. CASE FindOccupant
  BY <1>7, BoardQuiet DEF FindOccupant, Goes, Answered, moveVars, botVars
<1>8. CASE SendHome
  BY <1>8, SendHomeKeeps
<1>9. CASE PlaceForHuman
  BY <1>9, PlacedKeeps DEF PlaceForHuman, Goes, botVars
<1>10. CASE PassTurn
  BY <1>10, BoardQuiet DEF PassTurn, Goes, Answered, moveVars, botVars
<1>11. CASE Win
  BY <1>11, BoardQuiet DEF Win, Goes, Answered, moveVars, botVars
<1>12. CASE UseExtraTurn
  BY <1>12, BoardQuiet DEF UseExtraTurn, Goes, Answered, moveVars, botVars
<1>13. CASE ReadPlayers
  BY <1>13, BoardQuiet DEF ReadPlayers, Goes, Answered, moveVars, botVars
<1>14. CASE BotMoves
  <2>1. NextPlayer \in InGame /\ Placing(seen.pos)
    BY <1>14, NextInGameType DEF BotMoves, LoopInv, NextPlayer, BoardInv
  <2>2. PICK roll \in 1 .. Sides : \E m \in AvailableMoves(NextPlayer, seen.pos, roll) :
                                     pawn' = m[1] /\ to' = m[2]
    BY <1>14 DEF BotMoves
  <2>3. pawn' \in Pawns /\ to' \in Reach(ColorOf(pawn'))
    BY <2>1, <2>2, MovesType
  <2> QED
    BY <1>14, <2>3 DEF BotMoves, BoardInv, Placing
<1>15. CASE BotCannotMove
  BY <1>15, BoardQuiet DEF BotCannotMove, Goes, Answered, moveVars, botVars
<1>16. CASE PlaceForBot
  BY <1>16, PlacedKeeps DEF PlaceForBot, Answered, botVars
<1>17. CASE HumanIsNext
  BY <1>17, BoardQuiet DEF HumanIsNext, Goes, Answered, moveVars, botVars
<1>18. CASE SetTurn
  BY <1>18, BoardQuiet DEF SetTurn, Goes, Answered, moveVars, botVars
<1>19. CASE UNCHANGED vars
  BY <1>19, BoardQuiet DEF vars, Goes, Answered, moveVars, botVars
<1> QED
  BY <1>1, <1>2, <1>3, <1>4, <1>5, <1>6, <1>7, <1>8, <1>9, <1>10, <1>11,
       <1>12, <1>13, <1>14, <1>15, <1>16, <1>17, <1>18, <1>19
     DEF Next, Server

(* One pawn on a spot. *)
LEMMA SpotStep ==
  ASSUME LoopInv, BoardInv, SpotInv, [Next]_vars
  PROVE  SpotInv'
<1>1. CASE Roll
  BY <1>1 DEF Roll, Goes, Answered, SpotInv, OnePawnPerSpot
<1>2. CASE RecordSix
  BY <1>2 DEF RecordSix, Goes, Answered, SpotInv, OnePawnPerSpot
<1>3. CASE Offer
  BY <1>3 DEF Offer, Goes, Answered, SpotInv, OnePawnPerSpot
<1>4. CASE OfferNothing
  BY <1>4 DEF OfferNothing, Goes, Answered, SpotInv, OnePawnPerSpot
<1>5. CASE Choose
  BY <1>5 DEF Choose, Goes, Answered, SpotInv, OnePawnPerSpot
<1>6. CASE Reload
  BY <1>6 DEF Reload, Goes, Answered, moveVars, botVars, SpotInv, OnePawnPerSpot
<1>7. CASE FindOccupant
  BY <1>7 DEF FindOccupant, SpotInv, OnePawnPerSpot
<1>8. CASE SendHome
  BY <1>8, SendHomeKeeps
<1>9. CASE PlaceForHuman
  BY <1>9, PlacedKeeps DEF PlaceForHuman, Goes, botVars
<1>10. CASE PassTurn
  BY <1>10 DEF PassTurn, Goes, Answered, SpotInv, OnePawnPerSpot
<1>11. CASE Win
  BY <1>11 DEF Win, Goes, Answered, SpotInv, OnePawnPerSpot
<1>12. CASE UseExtraTurn
  BY <1>12 DEF UseExtraTurn, Goes, Answered, SpotInv, OnePawnPerSpot
<1>13. CASE ReadPlayers
  BY <1>13 DEF ReadPlayers, Goes, Answered, SpotInv, OnePawnPerSpot
<1>14. CASE BotMoves
  BY <1>14 DEF BotMoves, Goes, Answered, SpotInv, OnePawnPerSpot
<1>15. CASE BotCannotMove
  BY <1>15 DEF BotCannotMove, Goes, Answered, SpotInv, OnePawnPerSpot
<1>16. CASE PlaceForBot
  BY <1>16, PlacedKeeps DEF PlaceForBot, Answered, botVars
<1>17. CASE HumanIsNext
  BY <1>17 DEF HumanIsNext, Goes, Answered, SpotInv, OnePawnPerSpot
<1>18. CASE SetTurn
  BY <1>18 DEF SetTurn, Goes, Answered, SpotInv, OnePawnPerSpot
<1>19. CASE UNCHANGED vars
  BY <1>19 DEF vars, moveVars, botVars, gameVars, SpotInv, OnePawnPerSpot
<1> QED
  BY <1>1, <1>2, <1>3, <1>4, <1>5, <1>6, <1>7, <1>8, <1>9, <1>10, <1>11,
       <1>12, <1>13, <1>14, <1>15, <1>16, <1>17, <1>18, <1>19
     DEF Next, Server

LEMMA InvInit == Init => IInv
<1> SUFFICES ASSUME Init PROVE IInv
  OBVIOUS
<1>1. LoopInv
  BY BoardAssumption DEF Init, LoopInv
<1>2. BoardInv
  BY StartsPlaced DEF Init, BoardInv, Unread, Placing
<1>3. OnePawnPerSpot
  <2> SUFFICES ASSUME NEW p \in Pawns, NEW q \in Pawns, AtStart[p] = AtStart[q]
               PROVE  p = q
    BY DEF Init, OnePawnPerSpot
  <2>1. PICK k \in 1 .. Len(Starts[ColorOf(p)]) : p = <<ColorOf(p), k>>
    BY PawnsAre
  <2>2. PICK l \in 1 .. Len(Starts[ColorOf(q)]) : q = <<ColorOf(q), l>>
    BY PawnsAre
  <2>3. p[2] = k /\ q[2] = l /\ ColorOf(p) \in InGame /\ ColorOf(q) \in InGame
    BY <2>1, <2>2, PawnsAre
  <2>4. Starts[ColorOf(p)][k] = Starts[ColorOf(q)][l]
    BY <2>3 DEF AtStart
  <2> QED
    BY <2>1, <2>2, <2>3, <2>4, BoardAssumption
<1> QED
  BY <1>1, <1>2, <1>3 DEF IInv, SpotInv, Init

LEMMA InvStep == IInv /\ [Next]_vars => IInv'
  BY LoopStep, BoardStep, SpotStep DEF IInv

(* The inductive invariant: request and page, where pawns stand and go, and *)
(* the spot that is cleared before a pawn is placed on it.                  *)
THEOREM Invariance == Spec => []IInv
  BY InvInit, InvStep, PTL DEF Spec

(* Each pawn stays on the circle, at its start or on its home path, and the *)
(* page and the server wait for each other.                                 *)
THEOREM TypeCorrect == Spec => []TypeOK
<1>1. IInv => TypeOK
  BY DEF IInv, LoopInv, BoardInv, Placing, Spots, TypeOK
<1> QED
  BY <1>1, Invariance, PTL

(* Two pawns never stand on one spot, whatever board the bots play by.      *)
THEOREM OnePawnPerSpotAlways == Spec => []OnePawnPerSpot
<1>1. IInv => OnePawnPerSpot
  BY DEF IInv, SpotInv
<1> QED
  BY <1>1, Invariance, PTL

-----------------------------------------------------------------------------
(* A full home. *)

(* Where all pawns of a colour are at home, its home is full: none moves.   *)
LEMMA HomeIsFull ==
  ASSUME NEW c \in InGame, NEW board, \A p \in PawnsOf(c) : board[p] \in Home(c),
         \A p, q \in PawnsOf(c) : board[p] = board[q] => p = q,
         NEW roll \in 1 .. Sides
  PROVE  AvailableMoves(c, board, roll) = {}
<1> SUFFICES ASSUME NEW m \in AvailableMoves(c, board, roll) PROVE FALSE
  OBVIOUS
<1> DEFINE p == m[1]
           t == m[2]
           h == Config[c].homeStart
           n == Len(Starts[c])
<1>1. /\ p \in PawnsOf(c) /\ t \in Landing(c, board[p], roll)
      /\ \A q \in PawnsOf(c) : board[q] # t
  BY MoveFacts
<1>2. /\ h \in Nat /\ n \in Nat /\ roll \in Nat \ {0}
      /\ Home(c) = h .. Config[c].homeEnd /\ Config[c].homeEnd = h + n - 1
  <2>1. /\ h \in Int /\ h >= BoardSize /\ BoardSize \in Nat
        /\ Config[c].homeEnd \in Int /\ Config[c].homeEnd >= h
        /\ n = Config[c].homeEnd - h + 1
    BY BoardAssumption
  <2> QED
    BY <2>1, BoardAssumption DEF Home
<1>3. t \in Home(c)
  <2>1. board[p] \in Home(c) /\ board[p] \in Beyond(c)
    BY <1>1, <1>2 DEF Beyond
  <2>2. ~ (board[p] < 0) /\ board[p] \in Int
    BY <1>2, <2>1
  <2>3. t = StepsFrom(c, board[p], roll) /\ t <= Config[c].homeEnd
    BY <1>1, <2>2 DEF Landing
  <2>4. t = board[p] + roll
    BY <1>2, <2>1, <2>3, StepsHome
  <2> QED
    BY <1>2, <2>1, <2>3, <2>4
<1> DEFINE j == t - h + 1
           f == [k \in 1 .. n |-> board[<<c, k>>] - h + 1]
<1> HIDE DEF p, t, h
<1>4. \A k \in 1 .. n : <<c, k>> \in PawnsOf(c)
  BY DEF PawnsOf
<1> HIDE DEF n
<1>5. j \in 1 .. n
  BY <1>2, <1>3
<1>6. f \in [1 .. n -> (1 .. n) \ {j}]
  <2> SUFFICES ASSUME NEW k \in 1 .. n PROVE board[<<c, k>>] - h + 1 \in (1 .. n) \ {j}
    OBVIOUS
  <2>1. board[<<c, k>>] \in Home(c) /\ board[<<c, k>>] # t
    BY <1>1, <1>4
  <2> QED
    <3>1. board[<<c, k>>] \in Int /\ t \in Int
      BY <1>2, <1>3, <2>1
    <3>2. board[<<c, k>>] - h + 1 \in 1 .. n
      BY <1>2, <2>1, <3>1
    <3>3. board[<<c, k>>] - h + 1 # t - h + 1
      BY <1>2, <2>1, <3>1
    <3> QED
      BY <3>2, <3>3
<1>7. PICK x, y \in 1 .. n : x # y /\ f[x] = f[y]
  <2> HIDE DEF f, j
  <2> QED
    BY <1>2, <1>5, <1>6, OneTooMany
<1>8. board[<<c, x>>] = board[<<c, y>>]
  <2>1. board[<<c, x>>] \in Home(c) /\ board[<<c, y>>] \in Home(c)
    BY <1>4
  <2>2. board[<<c, x>>] - h + 1 = board[<<c, y>>] - h + 1
    BY <1>7
  <2> QED
    BY <1>2, <2>1, <2>2
<1> QED
  BY <1>4, <1>7, <1>8

-----------------------------------------------------------------------------
(* What a request has seen and chosen, however many bots play. *)

(* The page, and the rules, allow the move on the board as it is.           *)
Playable(m) ==
  \E roll \in 1 .. Sides :
    /\ roll = Sides => extraTurn
    /\ m \in AvailableMoves(turn, BoardForRules, roll)

(* A bot chooses on the board that DoBotTurns has read.                     *)
Foreseen(m) == \E roll \in 1 .. Sides : m \in AvailableMoves(botTurn, seen.pos, roll)

Stuck(c, board) == \E roll \in 1 .. Sides : AvailableMoves(c, board, roll) = {}

Moving == pc \in {"find", "capture", "place"}

(* Who is on turn at which point of a request, and when a six counts.       *)
TurnInv ==
  /\ bots \in BotSets
  /\ over => page = "over"
  /\ pc \in {"idle", "six", "offer", "find", "capture", "place", "decide", "bots",
             "played", "unplayed", "pass"}
  /\ pc \in {"idle", "six", "offer", "decide", "bots"} => botTurn = NoColor
  /\ Moving => botTurn \in bots \cup {NoColor}
  /\ pc \in {"played", "unplayed"} => botTurn \in bots \cup {turn}
  /\ pc = "pass" => botTurn \notin bots
  /\ pc \in {"six", "offer"} => kind = "roll"
  /\ pc = "offer" /\ die = Sides => extraTurn
  /\ (Moving \/ pc = "decide") /\ botTurn = NoColor => kind = "move"
  /\ pc = "bots" /\ kind = "move" => ~extraTurn
  /\ pc = "played" /\ botTurn = turn /\ turn \notin bots => ~extraTurn

(* What is offered, chosen and skipped is so on the board as it is or, by a *)
(* bot, on the board as it was read.                                        *)
MoveInv ==
  /\ \A m \in moves : Playable(m)
  /\ Moving /\ botTurn = NoColor => Playable(<<pawn, to>>)
  /\ Moving /\ botTurn # NoColor => Foreseen(<<pawn, to>>)
  /\ pc = "place" /\ occupant # NoPawn =>
       /\ occupant \in Pawns \ {pawn}
       /\ pos[occupant] = FirstFreeStart(ColorOf(occupant), BoardForRules)
  /\ pc = "decide" => ColorOf(pawn) = turn
  /\ pc = "bots" /\ kind # "move" => Stuck(turn, pos)
  /\ pc = "unplayed" => Stuck(botTurn, IF botTurn \in bots THEN seen.pos ELSE pos)

(* A pawn that has not moved since the table was read: it stands there, or  *)
(* it has been captured.                                                    *)
Kept(p) == pos[p] = seen.pos[p] \/ pos[p] \in Start(ColorOf(p))

(* The loop has gone d ahead of the colour on turn and met bots only, in    *)
(* its first round; no pawn but theirs has moved since the table was read.  *)
RoundAt(at, d) ==
  /\ Order[at] = turn /\ Ahead(at, d) = botTurn /\ (Moving => d > 0)
  /\ Passed(at, d) \cap InGame \subseteq bots
  /\ \A p \in Pawns : ColorOf(p) \notin Passed(at, IF Moving THEN d - 1 ELSE d) => Kept(p)

AllBots == InGame \subseteq bots

RoundInv ==
  botTurn # NoColor /\ pc # "pass" /\ ~AllBots =>
    \E at \in 1 .. Len(Order), d \in 0 .. Len(Order) - 1 : RoundAt(at, d)

(* Whether a pawn is at home. *)
FlagTrue(p) == inHome[p] <=> pos[p] \in Home(ColorOf(p))

(* The flags are true but in the loop that never ends; the pawns that were  *)
(* read stood apart, and where their flags said.                            *)
FlagInv ==
  /\ (AllBots /\ botTurn # NoColor) \/ \A p \in Pawns : FlagTrue(p)
  /\ botTurn # NoColor =>
       /\ \A p \in Pawns : seen.inHome[p] => seen.pos[p] \in Home(ColorOf(p))
       /\ \A p, q \in Pawns : seen.pos[p] = seen.pos[q] => p = q

LEMMA NoPawnIsNone == NoPawn \notin Pawns
  BY PawnsAre, BoardAssumption DEF NoPawn

LEMMA NextPlayerType ==
  ASSUME LoopInv, pc \in {"played", "unplayed"}
  PROVE  NextPlayer \in InGame /\ NextPlayer # NoColor /\ botTurn # NoColor
  BY NextInGameType, ColorsAssumption DEF LoopInv, NextPlayer

LEMMA TurnStep ==
  ASSUME LoopInv, TurnInv, [Next]_vars
  PROVE  TurnInv'
<1>1. CASE Roll
  BY <1>1 DEF Roll, TurnInv, LoopInv, Goes, Answered, gameVars, moveVars, botVars,
       TurnOf, IsHuman, Moving
<1>2. CASE RecordSix
  BY <1>2 DEF RecordSix, TurnInv, LoopInv, Goes, Answered, gameVars, moveVars, botVars,
       TurnOf, IsHuman, Moving
<1>3. CASE Offer
  BY <1>3 DEF Offer, TurnInv, LoopInv, Goes, Answered, gameVars, moveVars, botVars,
       TurnOf, IsHuman, Moving
<1>4. CASE OfferNothing
  BY <1>4 DEF OfferNothing, TurnInv, LoopInv, Goes, Answered, gameVars, moveVars, botVars,
       TurnOf, IsHuman, Moving
<1>5. CASE Choose
  BY <1>5 DEF Choose, TurnInv, LoopInv, Goes, Answered, gameVars, moveVars, botVars,
       TurnOf, IsHuman, Moving
<1>6. CASE Reload
  BY <1>6 DEF Reload, TurnInv, LoopInv, Goes, Answered, gameVars, moveVars, botVars,
       TurnOf, IsHuman, Moving
<1>7. CASE FindOccupant
  BY <1>7 DEF FindOccupant, TurnInv, LoopInv, Goes, Answered, gameVars, moveVars, botVars,
       TurnOf, IsHuman, Moving
<1>8. CASE SendHome
  BY <1>8 DEF SendHome, TurnInv, LoopInv, Goes, Answered, gameVars, moveVars, botVars,
       TurnOf, IsHuman, Moving
<1>9. CASE PlaceForHuman
  BY <1>9 DEF PlaceForHuman, TurnInv, LoopInv, Goes, Answered, gameVars, moveVars, botVars,
       TurnOf, IsHuman, Moving
<1>10. CASE PassTurn
  BY <1>10 DEF PassTurn, TurnInv, LoopInv, Goes, Answered, gameVars, moveVars, botVars,
       TurnOf, IsHuman, Moving
<1>11. CASE Win
  BY <1>11 DEF Win, TurnInv, LoopInv, Goes, Answered, gameVars, moveVars, botVars,
       TurnOf, IsHuman, Moving
<1>12. CASE UseExtraTurn
  BY <1>12 DEF UseExtraTurn, TurnInv, LoopInv, Goes, Answered, gameVars, moveVars, botVars,
       TurnOf, IsHuman, Moving
<1>13. CASE ReadPlayers
  BY <1>13 DEF ReadPlayers, TurnInv, LoopInv, Goes, Answered, gameVars, moveVars, botVars,
       TurnOf, IsHuman, Moving
<1>14. CASE BotMoves
  <2>1. NextPlayer \in bots /\ NextPlayer # NoColor
    BY <1>14, BotsAssumption, ColorsAssumption DEF BotMoves, IsHuman, TurnInv
  <2> QED
    BY <1>14, <2>1 DEF BotMoves, TurnInv, LoopInv, gameVars, Moving
<1>15. CASE BotCannotMove
  BY <1>15 DEF BotCannotMove, TurnInv, LoopInv, Goes, Answered, gameVars, moveVars, botVars,
       TurnOf, IsHuman, Moving
<1>16. CASE PlaceForBot
  BY <1>16 DEF PlaceForBot, TurnInv, LoopInv, Goes, Answered, gameVars, moveVars, botVars,
       TurnOf, IsHuman, Moving
<1>17. CASE HumanIsNext
  BY <1>17 DEF HumanIsNext, TurnInv, LoopInv, Goes, Answered, gameVars, moveVars, botVars,
       TurnOf, IsHuman, Moving
<1>18. CASE SetTurn
  BY <1>18 DEF SetTurn, TurnInv, LoopInv, Goes, Answered, gameVars, moveVars, botVars,
       TurnOf, IsHuman, Moving
<1>19. CASE UNCHANGED vars
  BY <1>19 DEF vars, TurnInv, gameVars, moveVars, botVars, Moving
<1> QED
  BY <1>1, <1>2, <1>3, <1>4, <1>5, <1>6, <1>7, <1>8, <1>9, <1>10, <1>11,
       <1>12, <1>13, <1>14, <1>15, <1>16, <1>17, <1>18, <1>19
     DEF Next, Server

(* Between find and place the board of the rules does not change. *)
LEMMA BoardIs ==
  /\ pc # "place" => BoardForRules = pos
  /\ pc = "place" /\ occupant = NoPawn => BoardForRules = pos
  BY DEF BoardForRules

LEMMA Chosen ==
  ASSUME LoopInv, TurnInv, MoveInv, Moving
  PROVE  /\ pawn \in PawnsOf(OnTurn) /\ ColorOf(pawn) = OnTurn /\ OnTurn \in InGame
         /\ botTurn = NoColor => OnTurn = turn /\ \A q \in PawnsOf(turn) : BoardForRules[q] # to
         /\ botTurn # NoColor =>
              /\ OnTurn = botTurn /\ botTurn \in bots
              /\ \A q \in PawnsOf(botTurn) : seen.pos[q] # to
<1>1. OnTurn \in InGame
  BY DEF LoopInv, OnTurn
<1>2. CASE botTurn = NoColor
  <2>1. PICK roll \in 1 .. Sides : <<pawn, to>> \in AvailableMoves(turn, BoardForRules, roll)
    BY <1>2 DEF MoveInv, Playable
  <2>2. pawn \in PawnsOf(turn) /\ \A q \in PawnsOf(turn) : BoardForRules[q] # to
    BY <2>1, MoveFacts
  <2>3. OnTurn = turn
    BY <1>2 DEF OnTurn
  <2> QED
    BY <1>1, <1>2, <2>2, <2>3, OwnPawns
<1>3. CASE botTurn # NoColor
  <2>1. PICK roll \in 1 .. Sides : <<pawn, to>> \in AvailableMoves(botTurn, seen.pos, roll)
    BY <1>3 DEF MoveInv, Foreseen
  <2>2. pawn \in PawnsOf(botTurn) /\ \A q \in PawnsOf(botTurn) : seen.pos[q] # to
    BY <2>1, MoveFacts
  <2>3. OnTurn = botTurn /\ botTurn \in bots
    BY <1>3 DEF OnTurn, TurnInv
  <2> QED
    BY <1>1, <1>3, <2>2, <2>3, OwnPawns
<1> QED
  BY <1>2, <1>3

(* Who is captured is of another colour: a bot finds its own pawns where it *)
(* has read them, or at a start.  So nobody at home is captured.            *)
LEMMA Captured ==
  ASSUME LoopInv, BoardInv, TurnInv, MoveInv, RoundInv, pc = "capture",
         botTurn = NoColor \/ ~AllBots, NEW q \in Pawns, pos[q] = to
  PROVE  to \notin Home(ColorOf(q))
<1>1. Moving /\ BoardForRules = pos
  BY BoardIs DEF Moving
<1>2. ColorOf(pawn) = OnTurn /\ OnTurn \in InGame /\ to \in Reach(OnTurn)
  BY <1>1, Chosen DEF BoardInv
<1>3. ColorOf(q) \in InGame /\ q \in PawnsOf(ColorOf(q))
  BY PawnsAre
<1>4. ColorOf(q) # OnTurn
  <2>1. CASE botTurn = NoColor
    BY <1>1, <1>3, <2>1, Chosen
  <2>2. CASE botTurn # NoColor
    <3> SUFFICES ASSUME ColorOf(q) = OnTurn PROVE FALSE
      OBVIOUS
    <3>1. OnTurn = botTurn /\ seen.pos[q] # to
      BY <1>1, <1>3, <2>2, Chosen
    <3>2. PICK at \in 1 .. Len(Order), d \in 0 .. Len(Order) - 1 : RoundAt(at, d)
      BY <2>2 DEF RoundInv
    <3>3. d \in 1 .. Len(Order) - 1 /\ Ahead(at, d) = botTurn
      BY <1>1, <3>2, BoardAssumption DEF RoundAt
    <3>4. ColorOf(q) \notin Passed(at, d - 1)
      BY <3>1, <3>3, NotYetPassed
    <3>5. Kept(q)
      BY <1>1, <3>2, <3>4 DEF RoundAt
    <3>6. to \notin Start(OnTurn)
      BY <1>2, SpotsApart
    <3> QED
      BY <3>1, <3>5, <3>6 DEF Kept
  <2> QED
    BY <2>1, <2>2
<1>5. Home(OnTurn) \cap Home(ColorOf(q)) = {}
  BY <1>2, <1>3, <1>4, BoardAssumption
<1>6. \A x \in Circle : x \notin Home(ColorOf(q))
  BY <1>3, SpotsApart, BoardAssumption
<1> QED
  BY <1>2, <1>5, <1>6 DEF Reach

LEMMA SentHome ==
  ASSUME BoardInv, SpotInv, SendHome
  PROVE  /\ BoardForRules' = BoardForRules /\ BoardForRules = pos
         /\ occupant' # NoPawn /\ occupant' \in Pawns \ {pawn'}
         /\ pos'[occupant] = FirstFreeStart(ColorOf(occupant), pos)
<1> DEFINE s == FirstFreeStart(ColorOf(occupant), pos)
<1>1. /\ pc = "capture" /\ pc' = "place"
      /\ occupant \in Pawns \ {pawn} /\ pos[occupant] = to
      /\ UNCHANGED <<pawn, to, occupant>>
      /\ pos' = [pos EXCEPT ![occupant] = s]
  BY SendHomeFacts
<1>2. occupant # NoPawn
  BY <1>1, NoPawnIsNone
<1>3. BoardForRules = pos
  BY <1>1, BoardIs
<1>4. BoardForRules' = [pos' EXCEPT ![occupant] = to]
  BY <1>1, <1>2 DEF BoardForRules
<1> HIDE DEF s
<1>5. [pos' EXCEPT ![occupant] = to] = pos
  BY <1>1 DEF BoardInv
<1>6. pos'[occupant] = s
  BY <1>1 DEF BoardInv
<1> QED
  BY <1>1, <1>2, <1>3, <1>4, <1>5, <1>6 DEF s

LEMMA ChoiceKept ==
  ASSUME UNCHANGED <<extraTurn, turn, botTurn, seen, pawn, to>>,
         BoardForRules' = BoardForRules, MoveInv, Moving
  PROVE  /\ botTurn' = NoColor => Playable(<<pawn, to>>)'
         /\ botTurn' # NoColor => Foreseen(<<pawn, to>>)'
  BY DEF MoveInv, Playable, Foreseen

(* Nothing is offered, chosen or skipped. *)
LEMMA MoveQuiet ==
  ASSUME moves' = {}, pc' \in {"idle", "six", "offer", "played", "pass"}
  PROVE  MoveInv'
  BY DEF MoveInv, Moving

LEMMA MoveStep ==
  ASSUME LoopInv, BoardInv, SpotInv, TurnInv, MoveInv, [Next]_vars
  PROVE  MoveInv'
<1>1. CASE Roll
  BY <1>1, MoveQuiet DEF Roll, LoopInv
<1>2. CASE RecordSix
  BY <1>2, MoveQuiet DEF RecordSix, Goes, LoopInv
<1>3. CASE Offer
  <2>1. pc' = "idle" /\ moves' = AvailableMoves(turn, pos, die) /\ botTurn' = NoColor
    BY <1>3 DEF Offer, Answered
  <2>2. UNCHANGED <<pos, turn, extraTurn, bots>> /\ die \in 1 .. Sides
    BY <1>3 DEF Offer, gameVars, LoopInv
  <2>3. BoardForRules' = pos
    BY <2>1, <2>2 DEF BoardForRules
  <2>4. die = Sides => extraTurn
    BY <1>3 DEF Offer, TurnInv
  <2>5. \A m \in moves' : Playable(m)'
    BY <2>1, <2>2, <2>3, <2>4 DEF Playable
  <2> QED
    BY <2>1, <2>5 DEF MoveInv, Moving
<1>4. CASE OfferNothing
  <2>1. pc' = "bots" /\ moves' = {} /\ die \in 1 .. Sides
    BY <1>4 DEF OfferNothing, Goes, LoopInv
  <2>2. Stuck(turn, pos)'
    BY <1>4, <2>1 DEF OfferNothing, Stuck, gameVars
  <2> QED
    BY <2>1, <2>2 DEF MoveInv, Moving
<1>5. CASE Choose
  <2>1. PICK m \in moves : pawn' = m[1] /\ to' = m[2]
    BY <1>5 DEF Choose
  <2>2. pc = "idle" /\ pc' = "find" /\ moves' = {}
    BY <1>5 DEF Choose, Goes
  <2>3. UNCHANGED <<pos, extraTurn, turn, botTurn>> /\ botTurn = NoColor
    BY <1>5, <2>2 DEF Choose, gameVars, botVars, TurnInv
  <2>4. BoardForRules' = BoardForRules
    BY <2>2, <2>3 DEF BoardForRules
  <2>5. PICK roll \in 1 .. Sides :
             /\ roll = Sides => extraTurn
             /\ m \in AvailableMoves(turn, BoardForRules, roll)
    BY DEF MoveInv, Playable
  <2>6. m = <<pawn', to'>>
    BY <2>1, <2>5, MoveFacts
  <2>7. Playable(<<pawn, to>>)'
    BY <2>3, <2>4, <2>5, <2>6 DEF Playable
  <2> QED
    BY <2>2, <2>3, <2>7 DEF MoveInv
<1>6. CASE Reload
  <2>1. pc' = "idle"
    BY <1>6 DEF Reload, LoopInv
  <2> QED
    BY <1>6, <2>1, MoveQuiet DEF Reload
<1>7. CASE FindOccupant
  <2>1. /\ pc = "find" /\ pc' \in {"capture", "place"} /\ (pc' = "place" => occupant' = NoPawn)
        /\ UNCHANGED <<pos, turn, extraTurn, pawn, to, botTurn, seen>> /\ moves' = {}
    BY <1>7 DEF FindOccupant, gameVars, botVars, LoopInv
  <2>2. BoardForRules' = BoardForRules /\ Moving
    BY <2>1 DEF BoardForRules, Moving
  <2>3. /\ botTurn' = NoColor => Playable(<<pawn, to>>)'
        /\ botTurn' # NoColor => Foreseen(<<pawn, to>>)'
    BY <2>1, <2>2, ChoiceKept
  <2> QED
    BY <2>1, <2>3 DEF MoveInv
<1>8. CASE SendHome
  <2>1. /\ pc = "capture" /\ pc' = "place" /\ moves' = {} /\ Moving
        /\ UNCHANGED <<turn, extraTurn, pawn, to, occupant, botTurn, seen>>
    BY <1>8 DEF SendHome, Goes, gameVars, moveVars, botVars, LoopInv, Moving
  <2>2. /\ BoardForRules' = BoardForRules /\ BoardForRules = pos
        /\ occupant' # NoPawn /\ occupant' \in Pawns \ {pawn'}
        /\ pos'[occupant] = FirstFreeStart(ColorOf(occupant), pos)
    BY <1>8, SentHome
  <2>3. /\ botTurn' = NoColor => Playable(<<pawn, to>>)'
        /\ botTurn' # NoColor => Foreseen(<<pawn, to>>)'
    BY <2>1, <2>2, ChoiceKept
  <2> QED
    BY <2>1, <2>2, <2>3 DEF MoveInv
<1>9. CASE PlaceForHuman
  <2>1. ColorOf(pawn) = turn
    BY <1>9, Chosen DEF PlaceForHuman, Goes, Moving
  <2> QED
    BY <1>9, <2>1 DEF PlaceForHuman, Goes, gameVars, moveVars, LoopInv, MoveInv, Moving
<1>10. CASE PassTurn
  BY <1>10 DEF PassTurn, Goes, LoopInv, MoveInv, TurnInv, Moving
<1>11. CASE Win
  BY <1>11, MoveQuiet DEF Win, Answered, LoopInv
<1>12. CASE UseExtraTurn
  BY <1>12, MoveQuiet DEF UseExtraTurn, Answered, LoopInv
<1>13. CASE ReadPlayers
  <2>1. /\ pc' \in {"played", "unplayed"} /\ moves' = {} /\ botTurn' = turn
        /\ UNCHANGED pos /\ seen'.pos = pos
    BY <1>13 DEF ReadPlayers, LoopInv, Table
  <2>2. pc' = "unplayed" => Stuck(turn, pos)
    BY <1>13 DEF ReadPlayers, MoveInv
  <2>3. pc' = "unplayed" => Stuck(botTurn, IF botTurn \in bots THEN seen.pos ELSE pos)'
    BY <2>1, <2>2 DEF Stuck
  <2> QED
    BY <2>1, <2>3 DEF MoveInv, Moving
<1>14. CASE BotMoves
  <2>1. PICK roll \in 1 .. Sides : \E m \in AvailableMoves(NextPlayer, seen.pos, roll) :
                                     pawn' = m[1] /\ to' = m[2]
    BY <1>14 DEF BotMoves
  <2>2. <<pawn', to'>> \in AvailableMoves(NextPlayer, seen.pos, roll)
    BY <2>1, MoveFacts
  <2>3. /\ pc \in {"played", "unplayed"} /\ pc' = "find" /\ botTurn' = NextPlayer
        /\ UNCHANGED seen /\ moves' = {}
    BY <1>14 DEF BotMoves, LoopInv
  <2>4. Foreseen(<<pawn, to>>)' /\ botTurn' # NoColor
    BY <2>2, <2>3, NextPlayerType DEF Foreseen
  <2> QED
    BY <2>3, <2>4 DEF MoveInv
<1>15. CASE BotCannotMove
  <2>1. PICK roll \in 1 .. Sides : AvailableMoves(NextPlayer, seen.pos, roll) = {}
    BY <1>15 DEF BotCannotMove
  <2>2. /\ pc' = "unplayed" /\ botTurn' = NextPlayer /\ NextPlayer \in bots
        /\ UNCHANGED <<seen, bots>> /\ moves' = {}
    BY <1>15 DEF BotCannotMove, LoopInv, IsHuman
  <2>3. Stuck(botTurn, IF botTurn \in bots THEN seen.pos ELSE pos)'
    BY <2>1, <2>2 DEF Stuck
  <2> QED
    BY <2>2, <2>3 DEF MoveInv, Moving
<1>16. CASE PlaceForBot
  <2>1. moves' = {} /\ pc' \in {"idle", "played"}
    BY <1>16 DEF PlaceForBot, Answered, LoopInv
  <2> QED
    BY <2>1, MoveQuiet
<1>17. CASE HumanIsNext
  BY <1>17, MoveQuiet DEF HumanIsNext, LoopInv
<1>18. CASE SetTurn
  BY <1>18, MoveQuiet DEF SetTurn, Answered, LoopInv
<1>19. CASE UNCHANGED vars
  <2>1. UNCHANGED <<pos, turn, extraTurn, bots, moves, pc, kind, pawn, to, occupant, botTurn, seen>>
    BY <1>19 DEF vars, gameVars, moveVars, botVars
  <2>2. BoardForRules' = BoardForRules
    BY <2>1 DEF BoardForRules
  <2> QED
    BY <2>1, <2>2 DEF MoveInv, Playable, Foreseen, Stuck, Moving
<1> QED
  BY <1>1, <1>2, <1>3, <1>4, <1>5, <1>6, <1>7, <1>8, <1>9, <1>10, <1>11,
       <1>12, <1>13, <1>14, <1>15, <1>16, <1>17, <1>18, <1>19
     DEF Next, Server

-----------------------------------------------------------------------------
(* The loop over the bots ends within a round. *)

LEMMA RoundOnward ==
  ASSUME LoopInv, ~AllBots, pc \in {"played", "unplayed"}, ~IsHuman(NextPlayer),
         NEW at \in 1 .. Len(Order), NEW d \in 0 .. Len(Order) - 1, RoundAt(at, d)
  PROVE  \E f \in d + 1 .. Len(Order) - 1 :
           Ahead(at, f) = NextPlayer /\ Passed(at, f) \cap InGame \subseteq bots
<1>1. /\ Order[at] \in InGame /\ Ahead(at, d) \in InGame /\ NextPlayer = NextInGame(Ahead(at, d))
      /\ NextPlayer \in bots /\ Passed(at, d) \cap InGame \subseteq bots
  BY DEF LoopInv, RoundAt, NextPlayer, IsHuman
<1>2. PICK f \in d + 1 .. Len(Order) :
           /\ NextPlayer = Ahead(at, f)
           /\ \A e \in d + 1 .. f - 1 : Ahead(at, e) \notin InGame
  BY <1>1, Onward
<1>3. Passed(at, f) \cap InGame \subseteq bots
  <2> SUFFICES ASSUME NEW e \in 1 .. f, Ahead(at, e) \in InGame PROVE Ahead(at, e) \in bots
    BY DEF Passed
  <2>1. CASE e \in 1 .. d
    BY <1>1, <2>1 DEF Passed
  <2>2. CASE e \in d + 1 .. f - 1
    BY <1>2, <2>2
  <2>3. CASE e = f
    BY <1>1, <1>2, <2>3
  <2> QED
    BY <2>1, <2>2, <2>3
<1>4. f # Len(Order)
  BY <1>3, AllPassed DEF AllBots
<1>5. f \in d + 1 .. Len(Order) - 1
  BY <1>2, <1>4, BoardAssumption
<1> QED
  BY <1>2, <1>3, <1>5

(* The loop goes on to f, and none of the pawns moves yet. *)
LEMMA RoundGoesOn ==
  ASSUME NEW at \in 1 .. Len(Order), NEW d \in 0 .. Len(Order) - 1, RoundAt(at, d), ~Moving,
         NEW f \in d + 1 .. Len(Order) - 1,
         Ahead(at, f) = NextPlayer, Passed(at, f) \cap InGame \subseteq bots,
         UNCHANGED <<pos, turn, bots, seen>>, botTurn' = NextPlayer
  PROVE  RoundAt(at, f)'
<1>1. ASSUME NEW g \in {f - 1, f} PROVE Passed(at, d) \subseteq Passed(at, g)
  BY DEF Passed
<1>2. ASSUME NEW p \in Pawns, ColorOf(p) \notin Passed(at, IF Moving' THEN f - 1 ELSE f)
      PROVE  Kept(p)'
  <2>1. ColorOf(p) \notin Passed(at, d)
    BY <1>1, <1>2
  <2> QED
    BY <2>1 DEF RoundAt, Kept
<1> QED
  BY <1>2 DEF RoundAt

LEMMA RoundStep ==
  ASSUME LoopInv, BoardInv, SpotInv, TurnInv, MoveInv, RoundInv, [Next]_vars
  PROVE  RoundInv'
<1> DEFINE n == Len(Order)
<1> SUFFICES ASSUME botTurn' # NoColor, pc' # "pass", ~AllBots'
             PROVE  \E at \in 1 .. n, d \in 0 .. n - 1 : RoundAt(at, d)'
  BY DEF RoundInv
<1>1. CASE Roll
  BY <1>1 DEF Roll, TurnInv, botVars
<1>2. CASE RecordSix
  BY <1>2 DEF RecordSix, Goes, TurnInv, botVars
<1>3. CASE Offer
  BY <1>3 DEF Offer, Answered
<1>4. CASE OfferNothing
  BY <1>4 DEF OfferNothing, Goes, TurnInv, botVars
<1>5. CASE Choose
  BY <1>5 DEF Choose, Goes, TurnInv, botVars
<1>6. CASE Reload
  BY <1>6 DEF Reload, TurnInv, LoopInv, botVars
<1>7. CASE FindOccupant
  <2>1. /\ Moving /\ Moving' /\ pc # "pass"
        /\ UNCHANGED <<pos, turn, bots, botTurn, seen>>
    BY <1>7 DEF FindOccupant, gameVars, botVars, Moving
  <2>2. PICK at \in 1 .. n, d \in 0 .. n - 1 : RoundAt(at, d)
    BY <2>1 DEF RoundInv, AllBots
  <2>3. RoundAt(at, d)'
    BY <2>1, <2>2 DEF RoundAt, Kept
  <2> QED
    BY <2>3
<1>8. CASE SendHome
  <2> DEFINE s == FirstFreeStart(ColorOf(occupant), pos)
  <2>1. /\ Moving /\ Moving' /\ pc # "pass"
        /\ UNCHANGED <<turn, bots, botTurn, seen>>
    BY <1>8 DEF SendHome, Goes, gameVars, botVars, Moving
  <2>2. /\ occupant \in Pawns /\ s \in Start(ColorOf(occupant))
        /\ pos' = [pos EXCEPT ![occupant] = s]
    BY <1>8, SendHomeFacts
  <2> HIDE DEF s
  <2>3. ASSUME NEW p \in Pawns, Kept(p) PROVE Kept(p)'
    <3>1. CASE p = occupant
      BY <2>2, <3>1 DEF BoardInv, Kept
    <3>2. CASE p # occupant
      BY <2>1, <2>2, <2>3, <3>2 DEF BoardInv, Kept
    <3> QED
      BY <3>1, <3>2
  <2>4. PICK at \in 1 .. n, d \in 0 .. n - 1 : RoundAt(at, d)
    BY <2>1 DEF RoundInv, AllBots
  <2>5. RoundAt(at, d)'
    BY <2>1, <2>3, <2>4 DEF RoundAt
  <2> QED
    BY <2>5
<1>9. CASE PlaceForHuman
  BY <1>9 DEF PlaceForHuman, botVars
<1>10. CASE PassTurn
  BY <1>10 DEF PassTurn, Goes, TurnInv, botVars
<1>11. CASE Win
  BY <1>11 DEF Win, Answered
<1>12. CASE UseExtraTurn
  BY <1>12 DEF UseExtraTurn, Answered
<1>13. CASE ReadPlayers
  <2>1. /\ botTurn' = turn /\ UNCHANGED <<pos, turn, bots>> /\ seen'.pos = pos
        /\ ~Moving'
    BY <1>13 DEF ReadPlayers, Table, Moving, gameVars
  <2>2. turn \in InGame /\ n \in Nat \ {0}
    BY BoardAssumption DEF LoopInv
  <2>3. PICK at \in 1 .. n : Order[at] = turn
    BY <2>2, BoardAssumption
  <2>4. Ahead(at, 0) = turn
    <3>1. (at + 0 - 1) % n = at - 1 /\ (at - 1) + 1 = at
      BY <2>2, <2>3
    <3> QED
      BY <2>3, <3>1 DEF Ahead
  <2>5. Passed(at, 0) = {}
    BY DEF Passed
  <2>6. \A p \in Pawns : Kept(p)'
    BY <2>1 DEF Kept
  <2>7. RoundAt(at, 0)'
    BY <2>1, <2>3, <2>4, <2>5, <2>6 DEF RoundAt
  <2> QED
    BY <2>2, <2>7
<1>14. CASE BotMoves
  <2>1. /\ pc \in {"played", "unplayed"} /\ ~IsHuman(NextPlayer) /\ ~Moving
        /\ botTurn' = NextPlayer /\ UNCHANGED <<pos, turn, bots, seen>>
    BY <1>14 DEF BotMoves, Moving, gameVars
  <2>2. PICK at \in 1 .. n, d \in 0 .. n - 1 : RoundAt(at, d)
    BY <2>1, NextPlayerType DEF RoundInv, AllBots
  <2>3. PICK f \in d + 1 .. n - 1 :
           Ahead(at, f) = NextPlayer /\ Passed(at, f) \cap InGame \subseteq bots
    BY <2>1, <2>2, RoundOnward DEF AllBots
  <2>4. RoundAt(at, f)'
    BY <2>1, <2>2, <2>3, RoundGoesOn
  <2>5. f \in 0 .. n - 1
    BY <2>2, <2>3, BoardAssumption
  <2> QED
    BY <2>2, <2>4, <2>5
<1>15. CASE BotCannotMove
  <2>1. /\ pc \in {"played", "unplayed"} /\ ~IsHuman(NextPlayer) /\ ~Moving
        /\ botTurn' = NextPlayer /\ UNCHANGED <<pos, turn, bots, seen>>
    BY <1>15 DEF BotCannotMove, Moving, gameVars
  <2>2. PICK at \in 1 .. n, d \in 0 .. n - 1 : RoundAt(at, d)
    BY <2>1, NextPlayerType DEF RoundInv, AllBots
  <2>3. PICK f \in d + 1 .. n - 1 :
           Ahead(at, f) = NextPlayer /\ Passed(at, f) \cap InGame \subseteq bots
    BY <2>1, <2>2, RoundOnward DEF AllBots
  <2>4. RoundAt(at, f)'
    BY <2>1, <2>2, <2>3, RoundGoesOn
  <2>5. f \in 0 .. n - 1
    BY <2>2, <2>3, BoardAssumption
  <2> QED
    BY <2>2, <2>4, <2>5
<1>16. CASE PlaceForBot
  <2>1. /\ Moving /\ pc = "place" /\ botTurn # NoColor /\ Placed /\ UNCHANGED <<turn, bots>>
        /\ ~Moving' /\ UNCHANGED <<botTurn, seen>>
    BY <1>16 DEF PlaceForBot, Answered, Moving, botVars
  <2>2. PICK at \in 1 .. n, d \in 0 .. n - 1 : RoundAt(at, d)
    BY <2>1 DEF RoundInv, AllBots
  <2>3. d \in 1 .. n - 1 /\ Ahead(at, d) = botTurn
    BY <2>1, <2>2, BoardAssumption DEF RoundAt
  <2>4. ColorOf(pawn) \in Passed(at, d) /\ Passed(at, d - 1) \subseteq Passed(at, d)
    BY <2>1, <2>3, Chosen DEF Passed
  <2>5. ASSUME NEW p \in Pawns, ColorOf(p) \notin Passed(at, d) PROVE Kept(p)'
    <3>1. p # pawn /\ Kept(p)
      BY <2>1, <2>2, <2>4, <2>5 DEF RoundAt
    <3>2. pos'[p] = pos[p]
      BY <2>1, <3>1 DEF Placed, BoardInv
    <3> QED
      BY <2>1, <3>1, <3>2 DEF Kept
  <2>6. RoundAt(at, d)'
    BY <2>1, <2>2, <2>5 DEF RoundAt
  <2> QED
    BY <2>6
<1>17. CASE HumanIsNext
  BY <1>17 DEF HumanIsNext
<1>18. CASE SetTurn
  BY <1>18 DEF SetTurn, Answered
<1>19. CASE UNCHANGED vars
  <2>1. UNCHANGED <<pos, turn, bots, pc, botTurn, seen>>
    BY <1>19 DEF vars, gameVars, botVars
  <2>2. PICK at \in 1 .. n, d \in 0 .. n - 1 : RoundAt(at, d)
    BY <2>1 DEF RoundInv, AllBots
  <2>3. RoundAt(at, d)'
    BY <2>1, <2>2 DEF RoundAt, Kept, Moving
  <2> QED
    BY <2>3
<1> QED
  BY <1>1, <1>2, <1>3, <1>4, <1>5, <1>6, <1>7, <1>8, <1>9, <1>10, <1>11,
       <1>12, <1>13, <1>14, <1>15, <1>16, <1>17, <1>18, <1>19
     DEF Next, Server

-----------------------------------------------------------------------------
(* The flags of the pawns at home. *)

(* A bot that moves had a pawn that was not at home, so that the check for  *)
(* its win, on the pawns as they were read, fails.                          *)
LEMMA BotNotHome ==
  ASSUME LoopInv, MoveInv, FlagInv, pc = "place", botTurn # NoColor
  PROVE  ~WinSeen
<1> SUFFICES ASSUME WinSeen PROVE FALSE
  OBVIOUS
<1> DEFINE B == seen.pos
<1>1. botTurn \in InGame
  BY DEF LoopInv
<1>2. \A p \in PawnsOf(botTurn) : B[p] \in Home(botTurn)
  BY <1>1, OwnPawns DEF WinSeen, FlagInv
<1>3. \A p, q \in PawnsOf(botTurn) : B[p] = B[q] => p = q
  BY <1>1, OwnPawns DEF FlagInv
<1>4. PICK roll \in 1 .. Sides : <<pawn, to>> \in AvailableMoves(botTurn, B, roll)
  BY DEF MoveInv, Foreseen, Moving
<1> HIDE DEF B
<1>5. AvailableMoves(botTurn, B, roll) = {}
  BY <1>1, <1>2, <1>3, HomeIsFull
<1> QED
  BY <1>4, <1>5

LEMMA PlacedHome ==
  ASSUME LoopInv, BoardInv, \A p \in Pawns : FlagTrue(p), pc = "place", Placed
  PROVE  \A p \in Pawns : FlagTrue(p)'
<1> SUFFICES ASSUME NEW p \in Pawns
             PROVE  inHome'[p] <=> pos'[p] \in Home(ColorOf(p))
  BY DEF FlagTrue
<1> DEFINE b == IsInHome(pawn, to)
<1>1. pawn \in Pawns /\ b \in BOOLEAN /\ (b <=> to \in Home(ColorOf(pawn)))
  BY DEF IsInHome, BoardInv
<1>2. pos' = [pos EXCEPT ![pawn] = to] /\ inHome' = [inHome EXCEPT ![pawn] = b]
  BY DEF Placed
<1> HIDE DEF b
<1>3. CASE p = pawn
  BY <1>1, <1>2, <1>3 DEF LoopInv, BoardInv
<1>4. CASE p # pawn
  BY <1>1, <1>2, <1>4 DEF LoopInv, BoardInv, FlagTrue
<1> QED
  BY <1>3, <1>4

LEMMA FlagQuiet ==
  ASSUME FlagInv, UNCHANGED <<pos, inHome, bots>>,
         \/ botTurn' = NoColor /\ (botTurn = NoColor \/ ~AllBots)
         \/ botTurn' # NoColor /\ botTurn # NoColor /\ seen' = seen
  PROVE  FlagInv'
  BY DEF FlagInv, FlagTrue, AllBots

LEMMA FlagStep ==
  ASSUME LoopInv, BoardInv, SpotInv, TurnInv, MoveInv, RoundInv, FlagInv, [Next]_vars
  PROVE  FlagInv'
<1>1. CASE Roll
  BY <1>1, FlagQuiet DEF Roll, TurnInv, botVars
<1>2. CASE RecordSix
  BY <1>2, FlagQuiet DEF RecordSix, Goes, TurnInv, botVars
<1>3. CASE Offer
  BY <1>3, FlagQuiet DEF Offer, Answered, TurnInv
<1>4. CASE OfferNothing
  BY <1>4, FlagQuiet DEF OfferNothing, Goes, TurnInv, botVars
<1>5. CASE Choose
  BY <1>5, FlagQuiet DEF Choose, Goes, TurnInv, botVars
<1>6. CASE Reload
  BY <1>6, FlagQuiet DEF Reload, TurnInv, LoopInv, botVars
<1>7. CASE FindOccupant
  BY <1>7, FlagQuiet DEF FindOccupant, botVars
<1>8. CASE SendHome
  <2> DEFINE c == ColorOf(occupant)
             s == FirstFreeStart(c, pos)
  <2>1. /\ pc = "capture" /\ occupant \in Pawns \ {pawn} /\ pos[occupant] = to
        /\ s \in Start(c) /\ pos' = [pos EXCEPT ![occupant] = s]
    BY <1>8, SendHomeFacts
  <2>2. UNCHANGED <<inHome, bots, botTurn, seen>>
    BY <1>8 DEF SendHome, botVars
  <2>3. CASE AllBots /\ botTurn # NoColor
    BY <2>2, <2>3 DEF FlagInv, AllBots
  <2>4. CASE ~ (AllBots /\ botTurn # NoColor)
    <3>1. to \notin Home(c)
      BY <2>1, <2>4, Captured
    <3>2. s \notin Home(c)
      BY <2>1, PawnsAre, SpotsApart DEF Reach
    <3> HIDE DEF s
    <3>3. ASSUME NEW p \in Pawns PROVE FlagTrue(p)'
      <4>1. FlagTrue(p)
        BY <2>4 DEF FlagInv
      <4>2. CASE p = occupant
        BY <2>1, <2>2, <3>1, <3>2, <4>1, <4>2 DEF FlagTrue, BoardInv
      <4>3. CASE p # occupant
        BY <2>1, <2>2, <4>1, <4>3 DEF FlagTrue, BoardInv
      <4> QED
        BY <4>2, <4>3
    <3> QED
      BY <2>2, <3>3 DEF FlagInv
  <2> QED
    BY <2>3, <2>4
<1>9. CASE PlaceForHuman
  <2>1. Placed /\ pc = "place" /\ botTurn = NoColor /\ botTurn' = NoColor
    BY <1>9 DEF PlaceForHuman, Goes, botVars
  <2>2. \A p \in Pawns : FlagTrue(p)'
    BY <2>1, PlacedHome DEF FlagInv
  <2> QED
    BY <2>1, <2>2 DEF FlagInv
<1>10. CASE PassTurn
  BY <1>10, FlagQuiet DEF PassTurn, Goes, TurnInv, botVars
<1>11. CASE Win
  BY <1>11, FlagQuiet DEF Win, Answered, TurnInv
<1>12. CASE UseExtraTurn
  BY <1>12, FlagQuiet DEF UseExtraTurn, Answered, TurnInv
<1>13. CASE ReadPlayers
  <2>1. /\ pc = "bots" /\ UNCHANGED <<pos, inHome>>
        /\ seen'.pos = pos /\ seen'.inHome = inHome
    BY <1>13 DEF ReadPlayers, Table
  <2>2. \A p \in Pawns : FlagTrue(p)
    BY <2>1 DEF FlagInv, TurnInv
  <2> QED
    BY <2>1, <2>2 DEF FlagInv, FlagTrue, SpotInv, OnePawnPerSpot
<1>14. CASE BotMoves
  BY <1>14, FlagQuiet, NextPlayerType DEF BotMoves
<1>15. CASE BotCannotMove
  BY <1>15, FlagQuiet, NextPlayerType DEF BotCannotMove
<1>16. CASE PlaceForBot
  <2>1. Placed /\ pc = "place" /\ botTurn # NoColor
    BY <1>16 DEF PlaceForBot
  <2>2. ~WinSeen
    BY <2>1, BotNotHome
  <2>3. UNCHANGED <<bots, botTurn, seen>>
    BY <1>16, <2>2 DEF PlaceForBot, botVars
  <2>4. CASE AllBots
    BY <2>1, <2>3, <2>4 DEF FlagInv, AllBots
  <2>5. CASE ~AllBots
    BY <2>1, <2>3, <2>5, PlacedHome DEF FlagInv
  <2> QED
    BY <2>4, <2>5
<1>17. CASE HumanIsNext
  BY <1>17, FlagQuiet, NextPlayerType DEF HumanIsNext
<1>18. CASE SetTurn
  <2>1. ~AllBots
    BY <1>18 DEF SetTurn, LoopInv, TurnInv, AllBots
  <2> QED
    BY <1>18, <2>1, FlagQuiet DEF SetTurn, Answered
<1>19. CASE UNCHANGED vars
  BY <1>19 DEF vars, FlagInv, FlagTrue, AllBots, botVars
<1> QED
  BY <1>1, <1>2, <1>3, <1>4, <1>5, <1>6, <1>7, <1>8, <1>9, <1>10, <1>11,
       <1>12, <1>13, <1>14, <1>15, <1>16, <1>17, <1>18, <1>19
     DEF Next, Server

-----------------------------------------------------------------------------
(* The rules. *)

RulesInv == TurnInv /\ MoveInv /\ RoundInv /\ FlagInv

LEMMA SameMoves ==
  ASSUME NEW c, NEW board, NEW roll
  PROVE  Rules!AvailableMoves(c, board, roll) = AvailableMoves(c, board, roll)
  BY DEF Rules!AvailableMoves, AvailableMoves, Rules!Landing, Landing, Rules!PawnsOf,
     PawnsOf, Rules!StepsFrom, StepsFrom, Rules!StepFrom, StepFrom

LEMMA SameNext ==
  ASSUME NEW c
  PROVE  Rules!NextInGame(c) = NextInGame(c)
  BY DEF Rules!NextInGame, NextInGame

LEMMA SamePawns == Rules!Pawns = Pawns /\ Rules!AtStart = AtStart
  BY DEF Rules!Pawns, Pawns, Rules!PawnsOf, PawnsOf, Rules!AtStart, AtStart,
     Rules!ColorOf, ColorOf

LEMMA SameStart ==
  ASSUME NEW p, NEW board
  PROVE  Rules!FirstFreeStart(Rules!ColorOf(p), board) = FirstFreeStart(ColorOf(p), board)
  BY DEF Rules!FirstFreeStart, FirstFreeStart, Rules!FreeStarts, FreeStarts, Rules!Pawns,
     Pawns, Rules!PawnsOf, PawnsOf, Rules!ColorOf, ColorOf

LEMMA SameHome ==
  ASSUME NEW c, NEW board
  PROVE  Rules!AllHome(c, board) = AllHome(c, board)
  BY DEF Rules!AllHome, AllHome, Rules!PawnsOf, PawnsOf, Rules!Home, Home

LEMMA Flags ==
  ASSUME LoopInv
  PROVE  HasMoved \in BOOLEAN /\ HasSix \in BOOLEAN
  BY DEF LoopInv, HasMoved, HasSix

LEMMA RulesStutter ==
  ASSUME BoardForRules' = BoardForRules, OnTurn' = OnTurn, HasMoved' = HasMoved,
         HasSix' = HasSix, bots' = bots
  PROVE  UNCHANGED Rules!vars
  BY DEF Rules!vars

(* The two writes of a capture, and that of the mover, are one move. *)
LEMMA BoardAfter ==
  ASSUME BoardInv, SpotInv, MoveInv, pc = "place", pc' # "place", Placed
  PROVE  BoardForRules' = Rules!After(pawn, to)
<1> DEFINE B == BoardForRules
           A == [q \in Pawns |-> IF q = pawn THEN to
                                 ELSE IF B[q] = to THEN FirstFreeStart(ColorOf(q), B)
                                 ELSE B[q]]
<1>1. Rules!After(pawn, to) = A
  BY SamePawns, SameStart DEF Rules!After
<1>2. BoardForRules' = [pos EXCEPT ![pawn] = to]
  BY DEF BoardForRules, Placed
<1>3. ASSUME NEW q \in Pawns PROVE [pos EXCEPT ![pawn] = to][q] = A[q]
  <2>1. CASE q = pawn
    BY <2>1 DEF BoardInv
  <2>2. CASE q # pawn /\ occupant = NoPawn
    <3>1. B = pos /\ pos[q] # to
      BY <2>2, BoardIs DEF SpotInv
    <3> QED
      BY <2>2, <3>1 DEF BoardInv
  <2>3. CASE q # pawn /\ occupant # NoPawn
    <3>1. /\ B = [pos EXCEPT ![occupant] = to] /\ occupant \in Pawns
          /\ pos[occupant] = FirstFreeStart(ColorOf(occupant), B) /\ pos[q] # to
      BY <2>3 DEF BoardForRules, MoveInv, SpotInv
    <3> HIDE DEF B
    <3>2. B[occupant] = to /\ (q # occupant => B[q] = pos[q])
      BY <3>1 DEF BoardInv
    <3>3. CASE q = occupant
      BY <2>3, <3>1, <3>2, <3>3 DEF BoardInv
    <3>4. CASE q # occupant
      BY <2>3, <3>1, <3>2, <3>4 DEF BoardInv
    <3> QED
      BY <3>3, <3>4
  <2> QED
    BY <2>1, <2>2, <2>3
<1> DEFINE P == [pos EXCEPT ![pawn] = to]
<1>4. P = [q \in Pawns |-> P[q]]
  BY DEF BoardInv
<1> HIDE DEF A, P
<1>5. A = [q \in Pawns |-> A[q]]
  BY DEF A
<1>6. P = A
  BY <1>3, <1>4, <1>5 DEF P
<1> QED
  BY <1>1, <1>2, <1>6 DEF P

(* The moves of a colour depend on where its own pawns stand. *)
LEMMA OwnMoves ==
  ASSUME NEW c, NEW board, NEW other, NEW roll, \A p \in PawnsOf(c) : board[p] = other[p]
  PROVE  AvailableMoves(c, board, roll) = AvailableMoves(c, other, roll)
<1> DEFINE T(b, p) == {t \in Landing(c, b[p], roll) : \A q \in PawnsOf(c) : b[q] # t}
<1>1. \A p \in PawnsOf(c) : T(board, p) = T(other, p)
  OBVIOUS
<1>2. \A b : AvailableMoves(c, b, roll) = UNION {{p} \X T(b, p) : p \in PawnsOf(c)}
  BY DEF AvailableMoves
<1> HIDE DEF T
<1>3. {{p} \X T(board, p) : p \in PawnsOf(c)} = {{p} \X T(other, p) : p \in PawnsOf(c)}
  BY <1>1
<1> QED
  BY <1>2, <1>3

LEMMA PlacedIsMove ==
  ASSUME LoopInv, BoardInv, SpotInv, TurnInv, MoveInv, pc = "place", pc' # "place",
         Placed, OnTurn' = OnTurn, HasSix' = HasSix, bots' = bots, HasMoved' = TRUE,
         turn \notin bots, ~Outdated
  PROVE  Rules!Move
<1>1. ~HasMoved /\ Moving
  BY DEF HasMoved, LoopInv, TurnInv, Moving
<1>2. PICK roll \in 1 .. Sides :
           /\ (roll = Sides /\ OnTurn \notin bots) => HasSix
           /\ <<pawn, to>> \in AvailableMoves(OnTurn, BoardForRules, roll)
  <2>1. CASE botTurn = NoColor
    <3>1. OnTurn = turn /\ (extraTurn => HasSix)
      BY <2>1 DEF OnTurn, HasSix
    <3> QED
      BY <1>1, <2>1, <3>1 DEF MoveInv, Playable
  <2>2. CASE botTurn # NoColor
    <3>1. OnTurn = botTurn /\ botTurn \in bots
      BY <1>1, <2>2, Chosen
    <3>2. PICK roll \in 1 .. Sides : <<pawn, to>> \in AvailableMoves(botTurn, seen.pos, roll)
      BY <1>1, <2>2 DEF MoveInv, Foreseen
    <3>3. \A p \in PawnsOf(botTurn) : seen.pos[p] = BoardForRules[p]
      BY <3>1 DEF Outdated
    <3>4. <<pawn, to>> \in AvailableMoves(botTurn, BoardForRules, roll)
      BY <3>2, <3>3, OwnMoves
    <3> QED
      BY <3>1, <3>4
  <2> QED
    BY <2>1, <2>2
<1>3. BoardForRules' = Rules!After(pawn, to)
  BY BoardAfter
<1>4. <<pawn, to>> \in Rules!AvailableMoves(OnTurn, BoardForRules, roll)
  BY <1>2, SameMoves
<1>5. \E m \in Rules!AvailableMoves(OnTurn, BoardForRules, roll) :
        BoardForRules' = Rules!After(m[1], m[2])
  <2>1. <<pawn, to>>[1] = pawn /\ <<pawn, to>>[2] = to
    OBVIOUS
  <2> QED
    BY <1>3, <1>4, <2>1
<1> QED
  BY <1>1, <1>2, <1>5 DEF Rules!Move

(* DoBotTurns goes on to the next colour. *)
LEMMA NextIsPassOn ==
  ASSUME LoopInv, TurnInv, MoveInv, pc \in {"played", "unplayed"},
         UNCHANGED <<pos, bots>>, botTurn' = NextPlayer, NextPlayer \in InGame,
         pc' \in {"find", "unplayed", "pass"}, UNCHANGED <<over, extraTurn, turn>>,
         pc' = "pass" \/ NextPlayer # turn, turn \notin bots, ~Outdated
  PROVE  Rules!PassOn
<1>1. NextPlayer # NoColor /\ botTurn # NoColor
  BY ColorsAssumption DEF LoopInv
<1>2. OnTurn = botTurn /\ OnTurn' = NextInGame(OnTurn)
  BY <1>1 DEF OnTurn, NextPlayer
<1>3. BoardForRules' = BoardForRules /\ BoardForRules = pos
  BY DEF BoardForRules
<1>4. ~HasMoved' /\ ~HasSix'
  BY <1>1 DEF HasMoved, HasSix, LoopInv, TurnInv
<1>5. HasMoved' \in BOOLEAN /\ HasSix' \in BOOLEAN
  BY DEF HasMoved, HasSix, LoopInv
<1>6. HasMoved' = FALSE /\ HasSix' = FALSE
  BY <1>4, <1>5, Zenon
<1>7. CASE pc = "played"
  <2>1. HasMoved /\ ~HasSix
    BY <1>1, <1>7 DEF HasMoved, HasSix, TurnInv
  <2> QED
    BY <1>2, <1>3, <1>6, <2>1, SameNext DEF Rules!PassOn
<1>8. CASE pc = "unplayed"
  <2>1. ~HasMoved
    BY <1>8 DEF HasMoved, LoopInv, TurnInv
  <2>2. \E roll \in 1 .. Sides : AvailableMoves(OnTurn, BoardForRules, roll) = {}
    <3>1. CASE botTurn \notin bots
      BY <1>2, <1>3, <1>8, <3>1 DEF MoveInv, Stuck
    <3>2. CASE botTurn \in bots
      <4>1. PICK roll \in 1 .. Sides : AvailableMoves(botTurn, seen.pos, roll) = {}
        BY <1>8, <3>2 DEF MoveInv, Stuck
      <4>2. \A p \in PawnsOf(botTurn) : seen.pos[p] = BoardForRules[p]
        BY <1>8, <3>2 DEF Outdated
      <4>3. AvailableMoves(botTurn, BoardForRules, roll) = {}
        BY <4>1, <4>2, OwnMoves
      <4> QED
        BY <1>2, <4>3
    <3> QED
      BY <3>1, <3>2
  <2>3. Rules!NoMove
    BY <2>2, SameMoves DEF Rules!NoMove
  <2> QED
    BY <1>2, <1>3, <1>6, <2>1, <2>3, SameNext DEF Rules!PassOn
<1> QED
  BY <1>7, <1>8

LEMMA RulesStep ==
  ASSUME IInv, IInv', RulesInv, [Next]_vars
  PROVE  [turn \notin bots => Rules!Next \/ Outdated]_Rules!vars
<1> SUFFICES ASSUME turn \notin bots, ~Outdated PROVE [Rules!Next]_Rules!vars
  OBVIOUS
<1> USE DEF IInv, RulesInv
<1>0. HasMoved \in BOOLEAN /\ HasSix \in BOOLEAN /\ HasMoved' \in BOOLEAN /\ HasSix' \in BOOLEAN
  BY Flags DEF HasMoved, HasSix, LoopInv
<1> DEFINE Same == /\ BoardForRules' = BoardForRules /\ OnTurn' = OnTurn /\ bots' = bots
                   /\ (HasMoved' <=> HasMoved) /\ (HasSix' <=> HasSix)
<1> DEFINE Goal == [Rules!Next]_Rules!vars
<1>same. Same => Goal
  <2> SUFFICES ASSUME Same PROVE UNCHANGED Rules!vars
    OBVIOUS
  <2>1. HasMoved' = HasMoved /\ HasSix' = HasSix
    BY <1>0, Zenon
  <2> QED
    BY <2>1, RulesStutter
<1>1. CASE Roll
  <2>1. BoardForRules' = BoardForRules
    BY <1>1 DEF Roll, Goes, Answered, moveVars, BoardForRules, LoopInv
  <2>2. OnTurn' = OnTurn /\ bots' = bots
    BY <1>1 DEF Roll, Goes, Answered, gameVars, botVars, OnTurn, TurnInv, LoopInv
  <2>3. HasMoved' <=> HasMoved
    BY <1>1 DEF Roll, Goes, Answered, gameVars, HasMoved, TurnInv, LoopInv
  <2>4. HasSix' <=> HasSix
    BY <1>1 DEF Roll, Goes, Answered, gameVars, botVars, HasSix, TurnInv, LoopInv
  <2> QED
    BY <2>1, <2>2, <2>3, <2>4, <1>same
<1>2. CASE RecordSix
  <2>1. /\ pc = "six" /\ pc' = "offer" /\ extraTurn' = TRUE
        /\ UNCHANGED <<pos, turn, over, bots, kind, occupant, botTurn>>
    BY <1>2 DEF RecordSix, Goes, moveVars, botVars
  <2>2. BoardForRules' = BoardForRules /\ OnTurn' = OnTurn /\ OnTurn \notin bots
    BY <2>1 DEF BoardForRules, OnTurn, TurnInv
  <2>3. ~HasMoved /\ ~HasMoved' /\ HasSix'
    BY <2>1 DEF HasMoved, HasSix, TurnInv, LoopInv
  <2>4. HasMoved' = HasMoved /\ HasSix' = TRUE
    BY <1>0, <2>3, Zenon
  <2> QED
    BY <2>1, <2>2, <2>3, <2>4 DEF Rules!Next, Rules!ThrowSix
<1>3. CASE Offer
  <2>1. BoardForRules' = BoardForRules
    BY <1>3 DEF Offer, Goes, Answered, moveVars, BoardForRules, LoopInv
  <2>2. OnTurn' = OnTurn /\ bots' = bots
    BY <1>3 DEF Offer, Goes, Answered, gameVars, botVars, OnTurn, TurnInv, LoopInv
  <2>3. HasMoved' <=> HasMoved
    BY <1>3 DEF Offer, Goes, Answered, gameVars, HasMoved, TurnInv, LoopInv
  <2>4. HasSix' <=> HasSix
    BY <1>3 DEF Offer, Goes, Answered, gameVars, botVars, HasSix, TurnInv, LoopInv
  <2> QED
    BY <2>1, <2>2, <2>3, <2>4, <1>same
<1>4. CASE OfferNothing
  <2>1. BoardForRules' = BoardForRules
    BY <1>4 DEF OfferNothing, Goes, Answered, moveVars, BoardForRules, LoopInv
  <2>2. OnTurn' = OnTurn /\ bots' = bots
    BY <1>4 DEF OfferNothing, Goes, Answered, gameVars, botVars, OnTurn, TurnInv, LoopInv
  <2>3. HasMoved' <=> HasMoved
    BY <1>4 DEF OfferNothing, Goes, Answered, gameVars, HasMoved, TurnInv, LoopInv
  <2>4. HasSix' <=> HasSix
    BY <1>4 DEF OfferNothing, Goes, Answered, gameVars, botVars, HasSix, TurnInv, LoopInv
  <2> QED
    BY <2>1, <2>2, <2>3, <2>4, <1>same
<1>5. CASE Choose
  <2>1. BoardForRules' = BoardForRules
    BY <1>5 DEF Choose, Goes, Answered, moveVars, BoardForRules, LoopInv
  <2>2. OnTurn' = OnTurn /\ bots' = bots
    BY <1>5 DEF Choose, Goes, Answered, gameVars, botVars, OnTurn, TurnInv, LoopInv
  <2>3. HasMoved' <=> HasMoved
    BY <1>5 DEF Choose, Goes, Answered, gameVars, HasMoved, TurnInv, LoopInv
  <2>4. HasSix' <=> HasSix
    BY <1>5 DEF Choose, Goes, Answered, gameVars, botVars, HasSix, TurnInv, LoopInv
  <2> QED
    BY <2>1, <2>2, <2>3, <2>4, <1>same
<1>6. CASE Reload
  <2>1. BoardForRules' = BoardForRules
    BY <1>6 DEF Reload, Goes, Answered, moveVars, BoardForRules, LoopInv
  <2>2. OnTurn' = OnTurn /\ bots' = bots
    BY <1>6 DEF Reload, Goes, Answered, gameVars, botVars, OnTurn, TurnInv, LoopInv
  <2>3. HasMoved' <=> HasMoved
    BY <1>6 DEF Reload, Goes, Answered, gameVars, HasMoved, TurnInv, LoopInv
  <2>4. HasSix' <=> HasSix
    BY <1>6 DEF Reload, Goes, Answered, gameVars, botVars, HasSix, TurnInv, LoopInv
  <2> QED
    BY <2>1, <2>2, <2>3, <2>4, <1>same
<1>7. CASE FindOccupant
  <2>1. BoardForRules' = BoardForRules
    BY <1>7 DEF FindOccupant, Goes, Answered, moveVars, BoardForRules, LoopInv
  <2>2. OnTurn' = OnTurn /\ bots' = bots
    BY <1>7 DEF FindOccupant, Goes, Answered, gameVars, botVars, OnTurn, TurnInv, LoopInv
  <2>3. HasMoved' <=> HasMoved
    BY <1>7 DEF FindOccupant, Goes, Answered, gameVars, HasMoved, TurnInv, LoopInv
  <2>4. HasSix' <=> HasSix
    BY <1>7 DEF FindOccupant, Goes, Answered, gameVars, botVars, HasSix, TurnInv, LoopInv
  <2> QED
    BY <2>1, <2>2, <2>3, <2>4, <1>same
<1>8. CASE SendHome
  <2>1. BoardForRules' = BoardForRules
    BY <1>8, SentHome
  <2>2. OnTurn' = OnTurn /\ bots' = bots
    BY <1>8 DEF SendHome, gameVars, botVars, OnTurn
  <2>3. HasMoved' <=> HasMoved
    BY <1>8 DEF SendHome, Goes, gameVars, HasMoved
  <2>4. HasSix' <=> HasSix
    BY <1>8 DEF SendHome, Goes, gameVars, botVars, HasSix
  <2> QED
    BY <2>1, <2>2, <2>3, <2>4, <1>same
<1>9. CASE PlaceForHuman
  <2>1. /\ pc = "place" /\ pc' = "decide" /\ Placed
        /\ UNCHANGED <<turn, extraTurn, over, bots, kind, botTurn>>
    BY <1>9 DEF PlaceForHuman, Goes, gameVars, botVars
  <2>2. OnTurn' = OnTurn /\ (HasSix' <=> HasSix) /\ HasMoved'
    BY <2>1 DEF OnTurn, HasSix, HasMoved
  <2>3. HasSix' = HasSix /\ HasMoved' = TRUE
    BY <1>0, <2>2, Zenon
  <2>4. Rules!Move
    BY <2>1, <2>2, <2>3, PlacedIsMove
  <2> QED
    BY <2>4 DEF Rules!Next
<1>10. CASE PassTurn
  <2>1. BoardForRules' = BoardForRules
    BY <1>10 DEF PassTurn, Goes, Answered, moveVars, BoardForRules, LoopInv
  <2>2. OnTurn' = OnTurn /\ bots' = bots
    BY <1>10 DEF PassTurn, Goes, Answered, gameVars, botVars, OnTurn, TurnInv, LoopInv
  <2>3. HasMoved' <=> HasMoved
    BY <1>10 DEF PassTurn, Goes, Answered, gameVars, HasMoved, TurnInv, LoopInv
  <2>4. HasSix' <=> HasSix
    BY <1>10 DEF PassTurn, Goes, Answered, gameVars, botVars, HasSix, TurnInv, LoopInv
  <2> QED
    BY <2>1, <2>2, <2>3, <2>4, <1>same
<1>11. CASE Win
  <2>1. BoardForRules' = BoardForRules
    BY <1>11 DEF Win, Goes, Answered, moveVars, BoardForRules, LoopInv
  <2>2. OnTurn' = OnTurn /\ bots' = bots
    BY <1>11 DEF Win, Goes, Answered, gameVars, botVars, OnTurn, TurnInv, LoopInv
  <2>3. HasMoved' <=> HasMoved
    BY <1>11 DEF Win, Goes, Answered, gameVars, HasMoved, TurnInv, LoopInv
  <2>4. HasSix' <=> HasSix
    BY <1>11 DEF Win, Goes, Answered, gameVars, botVars, HasSix, TurnInv, LoopInv
  <2> QED
    BY <2>1, <2>2, <2>3, <2>4, <1>same
<1>12. CASE UseExtraTurn
  <2>1. /\ pc = "decide" /\ pc' = "idle" /\ ~Won /\ extraTurn /\ extraTurn' = FALSE
        /\ botTurn' = NoColor /\ UNCHANGED <<pos, turn, over, bots>>
    BY <1>12 DEF UseExtraTurn, Answered
  <2>2. botTurn = NoColor /\ BoardForRules = pos /\ ColorOf(pawn) = turn
    BY <2>1 DEF TurnInv, BoardForRules, MoveInv
  <2>3. OnTurn = turn /\ OnTurn' = turn /\ BoardForRules' = pos
    BY <2>1, <2>2 DEF OnTurn, BoardForRules
  <2>4. HasMoved /\ HasSix /\ ~HasMoved' /\ ~HasSix'
    BY <2>1, <2>2 DEF HasMoved, HasSix, TurnInv, LoopInv
  <2>5. HasMoved' = FALSE /\ HasSix' = FALSE
    BY <1>0, <2>4, Zenon
  <2>6. ~AllHome(turn, pos)
    <3>1. turn \in InGame
      BY DEF LoopInv
    <3> QED
      BY <2>1, <2>2, <3>1, OwnPawns DEF Won, AllHome, FlagInv, FlagTrue
  <2> QED
    BY <2>1, <2>2, <2>3, <2>4, <2>5, <2>6, SameHome DEF Rules!Next, Rules!Again
<1>13. CASE ReadPlayers
  <2>1. BoardForRules' = BoardForRules
    BY <1>13 DEF ReadPlayers, Goes, Answered, moveVars, BoardForRules, LoopInv
  <2>2. OnTurn' = OnTurn /\ bots' = bots
    BY <1>13 DEF ReadPlayers, Goes, Answered, gameVars, botVars, OnTurn, TurnInv, LoopInv
  <2>3. HasMoved' <=> HasMoved
    BY <1>13 DEF ReadPlayers, Goes, Answered, gameVars, HasMoved, TurnInv, LoopInv
  <2>4. HasSix' <=> HasSix
    BY <1>13 DEF ReadPlayers, Goes, Answered, gameVars, botVars, HasSix, TurnInv, LoopInv
  <2> QED
    BY <2>1, <2>2, <2>3, <2>4, <1>same
<1>14. CASE BotMoves
  <2>1. NextPlayer \in InGame /\ NextPlayer # turn
    BY <1>14, NextPlayerType DEF BotMoves, IsHuman
  <2>2. Rules!PassOn
    BY <1>14, <2>1, NextIsPassOn DEF BotMoves, gameVars
  <2> QED
    BY <2>2 DEF Rules!Next
<1>15. CASE BotCannotMove
  <2>1. NextPlayer \in InGame /\ NextPlayer # turn
    BY <1>15, NextPlayerType DEF BotCannotMove, IsHuman
  <2>2. Rules!PassOn
    BY <1>15, <2>1, NextIsPassOn DEF BotCannotMove, gameVars
  <2> QED
    BY <2>2 DEF Rules!Next
<1>16. CASE PlaceForBot
  <2>1. pc = "place" /\ botTurn # NoColor /\ Placed
    BY <1>16 DEF PlaceForBot
  <2>2. ~WinSeen
    BY <2>1, BotNotHome
  <2>3. /\ pc' = "played"
        /\ UNCHANGED <<turn, extraTurn, over, bots, kind, botTurn>>
    BY <1>16, <2>2 DEF PlaceForBot, botVars
  <2>4. OnTurn' = OnTurn /\ (HasSix' <=> HasSix) /\ HasMoved'
    BY <2>1, <2>3 DEF OnTurn, HasSix, HasMoved
  <2>5. HasSix' = HasSix /\ HasMoved' = TRUE
    BY <1>0, <2>4, Zenon
  <2>6. Rules!Move
    BY <2>1, <2>3, <2>4, <2>5, PlacedIsMove
  <2> QED
    BY <2>6 DEF Rules!Next
<1>17. CASE HumanIsNext
  <2>1. NextPlayer \in InGame
    BY <1>17, NextInGameType DEF HumanIsNext, LoopInv, NextPlayer
  <2>2. Rules!PassOn
    BY <1>17, <2>1, NextIsPassOn DEF HumanIsNext, gameVars
  <2> QED
    BY <2>2 DEF Rules!Next
<1>18. CASE SetTurn
  <2>1. /\ pc = "pass" /\ pc' = "idle" /\ turn' = botTurn /\ extraTurn' = FALSE
        /\ botTurn' = NoColor /\ UNCHANGED <<pos, over, bots>>
    BY <1>18 DEF SetTurn, Answered, TurnOf
  <2>2. BoardForRules' = BoardForRules
    BY <2>1 DEF BoardForRules
  <2>3. OnTurn' = OnTurn
    BY <2>1, ColorsAssumption DEF OnTurn, LoopInv
  <2>4. (HasMoved' <=> HasMoved) /\ (HasSix' <=> HasSix)
    BY <2>1, ColorsAssumption DEF HasMoved, HasSix, LoopInv, TurnInv
  <2> QED
    BY <2>1, <2>2, <2>3, <2>4, <1>same
<1>19. CASE UNCHANGED vars
  <2>1. UNCHANGED <<pos, turn, extraTurn, over, bots, pc, kind, to, occupant, botTurn>>
    BY <1>19 DEF vars, gameVars, moveVars, botVars
  <2> QED
    BY <2>1, <1>same DEF BoardForRules, OnTurn, HasMoved, HasSix
<1> QED
  BY <1>1, <1>2, <1>3, <1>4, <1>5, <1>6, <1>7, <1>8, <1>9, <1>10, <1>11,
       <1>12, <1>13, <1>14, <1>15, <1>16, <1>17, <1>18, <1>19
     DEF Next, Server

LEMMA RulesInit ==
  ASSUME Init
  PROVE  RulesInv /\ Rules!Init
<1>1. TurnInv /\ MoveInv /\ RoundInv
  BY DEF Init, TurnInv, MoveInv, RoundInv, Moving
<1>2. FlagInv
  <2>1. ASSUME NEW p \in Pawns PROVE AtStart[p] \notin Home(ColorOf(p))
    BY StartsIn, PawnsAre, SpotsApart DEF Reach
  <2> QED
    BY <2>1 DEF Init, FlagInv, FlagTrue
<1>3. ~HasMoved /\ ~HasSix /\ HasMoved \in BOOLEAN /\ HasSix \in BOOLEAN
  BY DEF Init, HasMoved, HasSix
<1>4. HasMoved = FALSE /\ HasSix = FALSE
  BY <1>3, Zenon
<1>5. BoardForRules = AtStart /\ OnTurn = Order[1] /\ bots \subseteq InGame
  BY BotsAssumption DEF Init, BoardForRules, OnTurn
<1> QED
  BY <1>1, <1>2, <1>4, <1>5, SamePawns DEF RulesInv, Rules!Init

LEMMA RulesInvStep == IInv /\ RulesInv /\ [Next]_vars => RulesInv'
  BY TurnStep, MoveStep, RoundStep, FlagStep DEF IInv, RulesInv

(* Whoever plays and however many bots: a step of a request is a step of    *)
(* the rules or none, except what a bot does whose own pawn has been        *)
(* captured since the table was read, and the first turns of a bot's RED.   *)
THEOREM KeepsRulesAlways == Spec => KeepsRules
<1>1. Init => Rules!Init /\ RulesInv
  BY RulesInit
<1>2. IInv /\ IInv' /\ RulesInv /\ [Next]_vars =>
        [turn \notin bots => Rules!Next \/ Outdated]_Rules!vars
  BY RulesStep
<1>3. Spec => []IInv
  BY Invariance
<1> QED
  BY <1>1, <1>2, <1>3, RulesInvStep, PTL DEF Spec, KeepsRules

(* "Check if game over" (movement.ts:156) never finds that a bot has won:   *)
(* at that line its pawns, as they were read, are not all at home.          *)
THEOREM WinNeverSeen ==
  Spec => [](pc = "place" /\ botTurn # NoColor => ~WinSeen)
<1>1. Init => RulesInv
  BY RulesInit
<1>2. IInv /\ RulesInv => (pc = "place" /\ botTurn # NoColor => ~WinSeen)
  BY BotNotHome DEF IInv, RulesInv
<1>3. Spec => []IInv
  BY Invariance
<1> QED
  BY <1>1, <1>2, <1>3, RulesInvStep, PTL DEF Spec
=============================================================================
