--------------------------- MODULE TargetsProofs ---------------------------
(***************************************************************************)
(* Proofs about Targets: what one call of a targeter returns is what the   *)
(* lines say, wherever the call before it stopped; so the targets of every *)
(* file are handed out in order, and their requests are faithful to them   *)
(* if the default header has no spare capacity.                            *)
(***************************************************************************)
EXTENDS Targets, FiniteSetTheorems, NaturalsInduction, WellFoundedInduction, TLAPS

(* Induction along 0..n: a set that holds 0, and with k also k + 1, holds  *)
(* them all.  The least number it lacked would have a predecessor.         *)
LEMMA Ascend ==
  ASSUME NEW n \in Nat, NEW S, 0 \in S,
         \A k \in 0..(n - 1) : k \in S => k + 1 \in S
  PROVE  0..n \subseteq S
<1> DEFINE T == {k \in 0..n : k \notin S}
<1> SUFFICES ASSUME T # {} PROVE FALSE
  OBVIOUS
<1>1. T \subseteq Nat
  OBVIOUS
<1>2. PICK k \in T : \A j \in T : ~(<<j, k>> \in OpToRel(<, Nat))
  BY <1>1, NatLessThanWellFounded, WFMin
<1>3. k \in 0..n /\ k \notin S /\ k # 0
  BY <1>2
<1>4. k - 1 \in 0..(n - 1) /\ k - 1 \in 0..n
  BY <1>3
<1>5. <<k - 1, k>> \in OpToRel(<, Nat)
  BY <1>3 DEF OpToRel
<1>6. k - 1 \notin T
  BY <1>2, <1>5
<1>7. k - 1 \in S
  BY <1>4, <1>6
<1>8. QED
  BY <1>3, <1>4, <1>7

(* A recursion from k to k + 1 along 0..n has a solution.                  *)
Solves(s, n, V, v, g) ==
  s \in [0..n -> V] /\ s[0] = v /\ \A k \in 1..n : s[k] = g[k][s[k - 1]]

LEMMA Recursion ==
  ASSUME NEW n \in Nat, NEW V, NEW v \in V, NEW g \in [1..n -> [V -> V]]
  PROVE  \E s : Solves(s, n, V, v, g)
<1> USE DEF Solves
<1> DEFINE Upto(m) == \E s : Solves(s, m, V, v, g)
           S == {m \in 0..n : Upto(m)}
<1>1. 0 \in S
  <2> DEFINE s == [k \in 0..0 |-> v]
  <2>1. s \in [0..0 -> V]
    OBVIOUS
  <2>2. s[0] = v /\ \A k \in 1..0 : s[k] = g[k][s[k - 1]]
    <3>1. 0 \in 0..0 /\ \A k \in 1..0 : FALSE
      OBVIOUS
    <3>2. QED
      BY <3>1
  <2> HIDE DEF s
  <2>3. Upto(0)
    BY <2>1, <2>2
  <2>4. QED
    BY <2>3
<1>2. ASSUME NEW m \in 0..(n - 1), m \in S PROVE m + 1 \in S
  <2>1. PICK s \in [0..m -> V] : s[0] = v /\ \A k \in 1..m : s[k] = g[k][s[k - 1]]
    BY <1>2
  <2> DEFINE t == [k \in 0..(m + 1) |-> IF k <= m THEN s[k] ELSE g[k][s[k - 1]]]
  <2>2. t \in [0..(m + 1) -> V]
    <3>1. ASSUME NEW k \in 0..(m + 1)
          PROVE  (IF k <= m THEN s[k] ELSE g[k][s[k - 1]]) \in V
      <4>1. CASE k <= m
        BY <4>1
      <4>2. CASE k = m + 1
        <5>1. k \in 1..n /\ k - 1 \in 0..m /\ ~(k <= m)
          BY <4>2
        <5>2. QED
          BY <5>1
      <4>3. QED
        BY <4>1, <4>2
    <3>2. QED
      BY <3>1
  <2>3. t[0] = v
    BY <2>1
  <2>4. \A k \in 1..(m + 1) : t[k] = g[k][t[k - 1]]
    <3> TAKE k \in 1..(m + 1)
    <3>1. k \in 0..(m + 1) /\ k - 1 \in 0..(m + 1) /\ k - 1 <= m
      OBVIOUS
    <3>2. t[k - 1] = s[k - 1]
      BY <3>1
    <3>3. k <= m => k \in 1..m
      OBVIOUS
    <3>4. QED
      BY <3>1, <3>2, <3>3, <2>1
  <2> HIDE DEF t
  <2>5. Upto(m + 1)
    BY <2>2, <2>3, <2>4
  <2>6. m + 1 \in 0..n
    OBVIOUS
  <2> HIDE DEF Upto
  <2>7. QED
    BY <2>5, <2>6
<1>3. n \in S
  <2> HIDE DEF S
  <2>1. 0..n \subseteq S
    BY <1>1, <1>2, Ascend
  <2>2. QED
    BY <2>1
<1>4. QED
  BY <1>3

(* The greatest and the least number of a set.                             *)
LEMMA MaxIs ==
  ASSUME NEW S \in SUBSET Int, NEW x \in S, \A y \in S : y <= x
  PROVE  Max(S) = x
<1> DEFINE y == Max(S)
<1>1. y \in S /\ \A z \in S : y >= z
  BY DEF Max
<1> HIDE DEF y
<1>2. y \in Int /\ x \in Int /\ y >= x /\ x >= y
  BY <1>1
<1>3. y = x
  BY <1>2
<1>4. QED
  BY <1>3 DEF y

LEMMA MaxIn ==
  ASSUME NEW n \in Nat, NEW S \in SUBSET (0..n), S # {}
  PROVE  Max(S) \in S /\ \A y \in S : y <= Max(S)
<1> DEFINE T == {n - y : y \in S}
<1>1. T \subseteq Nat /\ T # {}
  <2>1. \A y \in S : n - y \in Nat
    OBVIOUS
  <2>2. PICK y \in S : TRUE
    OBVIOUS
  <2>3. n - y \in T
    BY <2>2
  <2>4. QED
    BY <2>1, <2>3
<1>2. PICK d \in T : \A e \in T : ~(<<e, d>> \in OpToRel(<, Nat))
  BY <1>1, NatLessThanWellFounded, WFMin
<1>3. PICK x \in S : d = n - x
  BY <1>2
<1>4. ASSUME NEW y \in S PROVE y <= x
  <2>1. n - y \in T /\ n - y \in Nat /\ d \in Nat
    BY <1>1, <1>2
  <2>2. ~(n - y < d)
    BY <1>2, <2>1 DEF OpToRel
  <2>3. QED
    BY <1>3, <2>2
<1>5. Max(S) = x
  BY <1>4, MaxIs
<1>6. QED
  BY <1>4, <1>5

LEMMA MinIn ==
  ASSUME NEW S \in SUBSET Nat, S # {}
  PROVE  Min(S) \in S /\ \A y \in S : Min(S) <= y
<1>0. S \subseteq Nat
  OBVIOUS
<1>1. PICK x \in S : \A y \in S : ~(<<y, x>> \in OpToRel(<, Nat))
  BY <1>0, NatLessThanWellFounded, WFMin
<1>2. ASSUME NEW y \in S PROVE x <= y
  <2>1. y \in Nat /\ x \in Nat
    BY <1>0
  <2>2. ~(y < x)
    BY <1>1, <2>1 DEF OpToRel
  <2>3. QED
    BY <2>1, <2>2
<1>3. QED
  BY <1>2 DEF Min

-----------------------------------------------------------------------------
(* The lines of the file.                                                  *)
LEMMA LinesFacts ==
  ASSUME input \in Inputs
  PROVE  /\ Eof \in Nat /\ Lines \in Seq(Kinds) /\ DOMAIN Lines = 1..Eof
         /\ \A k \in 1..Eof : Lines[k] \in Kinds
         /\ input.lazy \in BOOLEAN /\ input.eol \in BOOLEAN
         /\ input.format \in {"http", "json"}
<1>1. /\ \/ Lines \in BoundedSeq(Kinds, MaxLines)
         \/ Lines \in BoundedSeq(JSONKinds, MaxLines)
      /\ input.lazy \in BOOLEAN /\ input.eol \in BOOLEAN
      /\ input.format \in {"http", "json"}
  BY DEF Inputs, Lines
<1>2. PICK n \in 0..MaxLines : Lines \in [1..n -> Kinds]
  BY <1>1 DEF BoundedSeq, SeqOf, JSONKinds
<1>3. Lines \in Seq(Kinds)
  BY <1>2, TargetsAssumption
<1>4. QED
  BY <1>1, <1>3 DEF Eof

(* The first line of some kinds.                                           *)
LEMMA FirstOfFacts ==
  ASSUME input \in Inputs, NEW n \in 1..(Eof + 1), NEW kinds
  PROVE  /\ FirstOf(n, kinds) \in n..(Eof + 1)
         /\ \A k \in n..(FirstOf(n, kinds) - 1) : Lines[k] \notin kinds
         /\ FirstOf(n, kinds) <= Eof => Lines[FirstOf(n, kinds)] \in kinds
<1> DEFINE S == {k \in n..Eof : Lines[k] \in kinds}
           T == S \cup {Eof + 1}
           s == FirstOf(n, kinds)
<1>1. Eof \in Nat
  BY LinesFacts
<1>2. T \in SUBSET Nat /\ T # {}
  <2>1. n \in Nat /\ n..Eof \subseteq Nat /\ Eof + 1 \in Nat
    BY <1>1
  <2>2. QED
    BY <2>1
<1>3. s = Min(T)
  BY DEF FirstOf
<1>4. s \in T /\ \A y \in T : s <= y
  <2> HIDE DEF T, s
  <2>1. QED
    BY <1>2, <1>3, MinIn
<1> HIDE DEF s
<1>5. s \in n..(Eof + 1)
  BY <1>1, <1>4
<1>6. \A k \in n..(s - 1) : Lines[k] \notin kinds
  <2> SUFFICES ASSUME NEW k \in n..(s - 1), Lines[k] \in kinds PROVE FALSE
    OBVIOUS
  <2>1. k \in T
    BY <1>1, <1>5
  <2>2. s <= k
    BY <1>4, <2>1
  <2>3. QED
    BY <1>1, <1>5, <2>2
<1>7. s <= Eof => Lines[s] \in kinds
  BY <1>1, <1>4
<1>8. QED
  BY <1>5, <1>6, <1>7 DEF s

-----------------------------------------------------------------------------
(* Where the reader is before each line.                                   *)
Modes == {"out", "fresh", "in", "lost"}

LEMMA ModeFacts ==
  ASSUME input \in Inputs
  PROVE  /\ \A k \in 1..(Eof + 1) : Mode[k] \in Modes
         /\ Mode[1] = "out"
         /\ \A k \in 1..Eof : Mode[k + 1] = After(Mode[k], Lines[k])
<1> DEFINE n == Eof
           g == [k \in 1..n |-> [x \in Modes |-> After(x, Lines[k])]]
           Sat(t) == t = [k \in 1..(n + 1) |-> IF k = 1 THEN "out"
                                               ELSE After(t[k - 1], Lines[k - 1])]
<1>1. n \in Nat
  BY LinesFacts
<1>2. \A x \in Modes : \A y : After(x, y) \in Modes
  BY DEF After, Modes
<1>3. PICK s \in [0..n -> Modes] : s[0] = "out" /\ \A k \in 1..n : s[k] = g[k][s[k - 1]]
  <2>1. g \in [1..n -> [Modes -> Modes]]
    BY <1>2
  <2>2. "out" \in Modes
    BY DEF Modes
  <2> HIDE DEF g, n
  <2>3. \E s : Solves(s, n, Modes, "out", g)
    BY <1>1, <2>1, <2>2, Recursion
  <2>4. QED
    BY <2>3 DEF Solves
<1> DEFINE t == [k \in 1..(n + 1) |-> s[k - 1]]
<1>4. Sat(t)
  <2>1. ASSUME NEW k \in 1..(n + 1)
        PROVE  s[k - 1] = IF k = 1 THEN "out" ELSE After(t[k - 1], Lines[k - 1])
    <3>1. CASE k = 1
      BY <1>3, <3>1
    <3>2. CASE k # 1
      <4>1. k - 1 \in 1..n /\ k - 1 \in 1..(n + 1) /\ (k - 1) - 1 \in 0..n
        BY <1>1, <3>2
      <4>2. s[k - 1] = g[k - 1][s[(k - 1) - 1]] /\ s[(k - 1) - 1] \in Modes
        BY <1>3, <4>1
      <4>3. g[k - 1][s[(k - 1) - 1]] = After(s[(k - 1) - 1], Lines[k - 1])
        BY <4>1, <4>2
      <4>4. t[k - 1] = s[(k - 1) - 1]
        BY <4>1
      <4>5. QED
        BY <3>2, <4>2, <4>3, <4>4
    <3>3. QED
      BY <3>1, <3>2
  <2>2. QED
    BY <2>1
<1> HIDE DEF t
<1>5. Mode = CHOOSE q : Sat(q)
  BY DEF Mode
<1>6. Sat(Mode)
  BY <1>4, <1>5
<1>7. /\ \A k \in 1..(n + 1) :
           Mode[k] = IF k = 1 THEN "out" ELSE After(Mode[k - 1], Lines[k - 1])
  <2> DEFINE F == [k \in 1..(n + 1) |-> IF k = 1 THEN "out"
                                        ELSE After(Mode[k - 1], Lines[k - 1])]
  <2>1. Mode = F
    BY <1>6
  <2>2. \A k \in 1..(n + 1) :
          F[k] = IF k = 1 THEN "out" ELSE After(Mode[k - 1], Lines[k - 1])
    OBVIOUS
  <2> HIDE DEF F
  <2>3. QED
    BY <2>1, <2>2
<1> HIDE DEF n
<1>8. Mode[1] = "out"
  BY <1>1, <1>7
<1>9. \A k \in 1..n : Mode[k + 1] = After(Mode[k], Lines[k])
  <2> TAKE k \in 1..n
  <2>1. k + 1 \in 1..(n + 1) /\ k + 1 # 1 /\ (k + 1) - 1 = k
    BY <1>1
  <2>2. QED
    BY <1>7, <2>1
<1>10. \A k \in 1..(n + 1) : Mode[k] \in Modes
  <2> DEFINE S == {k \in 0..n : Mode[k + 1] \in Modes}
  <2>1. 0 \in S
    BY <1>1, <1>8 DEF Modes
  <2>2. ASSUME NEW k \in 0..(n - 1), k \in S PROVE k + 1 \in S
    <3>1. k + 1 \in 1..n /\ k + 1 \in 0..n
      BY <1>1
    <3>2. Mode[(k + 1) + 1] = After(Mode[k + 1], Lines[k + 1])
      BY <1>9, <3>1
    <3>3. QED
      BY <1>2, <2>2, <3>1, <3>2
  <2> HIDE DEF S
  <2>3. 0..n \subseteq S
    BY <1>1, <2>1, <2>2, Ascend
  <2>4. ASSUME NEW k \in 1..(n + 1) PROVE Mode[k] \in Modes
    <3>1. k - 1 \in 0..n /\ (k - 1) + 1 = k
      BY <1>1
    <3>2. QED
      BY <2>3, <3>1 DEF S
  <2>5. QED
    BY <2>4
<1>11. QED
  BY <1>8, <1>9, <1>10 DEF n

(* From line j to line k the reader stays in a set of modes.               *)
LEMMA Stays ==
  ASSUME input \in Inputs, NEW j \in 1..(Eof + 1), NEW k \in j..(Eof + 1), NEW P,
         Mode[j] \in P,
         \A t \in j..(k - 1) : Mode[t] \in P => After(Mode[t], Lines[t]) \in P
  PROVE  \A t \in j..k : Mode[t] \in P
<1> DEFINE S == {d \in 0..(k - j) : Mode[j + d] \in P}
<1>1. Eof \in Nat /\ k - j \in Nat
  BY LinesFacts
<1>2. 0 \in S
  BY <1>1
<1>3. ASSUME NEW d \in 0..((k - j) - 1), d \in S PROVE d + 1 \in S
  <2>1. j + d \in j..(k - 1) /\ j + d \in 1..Eof /\ d + 1 \in 0..(k - j)
    BY <1>1
  <2>2. Mode[j + d] \in P
    BY <1>3
  <2>3. Mode[(j + d) + 1] = After(Mode[j + d], Lines[j + d])
    BY <2>1, ModeFacts
  <2>4. After(Mode[j + d], Lines[j + d]) \in P
    BY <2>1, <2>2
  <2>5. (j + d) + 1 = j + (d + 1)
    BY <1>1
  <2>6. QED
    BY <2>1, <2>3, <2>4, <2>5
<1> HIDE DEF S
<1>4. 0..(k - j) \subseteq S
  BY <1>1, <1>2, <1>3, Ascend
<1>5. ASSUME NEW t \in j..k PROVE Mode[t] \in P
  <2>1. t - j \in 0..(k - j) /\ j + (t - j) = t
    BY <1>1
  <2>2. QED
    BY <1>4, <2>1 DEF S
<1>6. QED
  BY <1>5

(* Nothing is read after a line that cannot be.                            *)
LEMMA AfterBroken ==
  ASSUME input \in Inputs, NEW j \in 1..Eof, Lines[j] = "broken",
         NEW k \in (j + 1)..(Eof + 1)
  PROVE  Mode[k] = "lost"
<1>1. Eof \in Nat /\ j + 1 \in 1..(Eof + 1)
  BY LinesFacts
<1>2. Mode[j + 1] = "lost"
  BY ModeFacts DEF After
<1>3. \A t \in (j + 1)..k : Mode[t] \in {"lost"}
  BY <1>1, <1>2, Stays DEF After
<1>4. QED
  BY <1>1, <1>3

(* Between targets, empty lines and comments are passed over.              *)
LEMMA SkipsOut ==
  ASSUME input \in Inputs, NEW j \in 1..(Eof + 1), NEW k \in j..(Eof + 1),
         Mode[j] = "out", \A t \in j..(k - 1) : Lines[t] \in {"blank", "comment"}
  PROVE  \A t \in j..k : Mode[t] = "out"
<1>1. \A t \in j..(k - 1) : Mode[t] \in {"out"} => After(Mode[t], Lines[t]) \in {"out"}
  BY DEF After, Starts
<1>2. \A t \in j..k : Mode[t] \in {"out"}
  BY <1>1, Stays
<1>3. QED
  BY <1>2

(* A line that starts a target.                                            *)
Start(t) == Lines[t] \in Starts /\ Mode[t] # "in"

LEMMA NoStart ==
  ASSUME input \in Inputs, NEW j \in 1..(Eof + 1), NEW k \in j..(Eof + 1),
         Mode[j] \in {"out", "lost"}, \A t \in j..(k - 1) : ~Start(t)
  PROVE  Mode[k] \in {"out", "lost"}
<1> DEFINE P == {"out", "lost"}
<1>1. \A t \in j..(k - 1) : Mode[t] \in P => After(Mode[t], Lines[t]) \in P
  BY DEF After, Start
<1> HIDE DEF P
<1>2. \A t \in j..k : Mode[t] \in P
  BY <1>1, Stays DEF P
<1>3. k \in j..k
  BY LinesFacts
<1>4. QED
  BY <1>2, <1>3 DEF P

(* A target starts at line s, and e is the line that ends it, if any: an   *)
(* empty line, a body, an error or, right after s, the next request's.     *)
Headers == {"comment", "header", "target", "badurl"}
Enders == {"blank", "body", "broken"} \cup NoHeader

Covers(s, e) ==
  /\ s \in 1..Eof /\ e \in (s + 1)..(Eof + 1)
  /\ Lines[s] \in Starts /\ Mode[s] \in {"out", "fresh"}
  /\ \A k \in (s + 1)..(e - 1) : Lines[k] \in Headers
  /\ e > s + 1 => Lines[s + 1] \notin Methods
  /\ e <= Eof => Lines[e] \in Enders \/ (e = s + 1 /\ Lines[e] \in Methods)

(* Line k is the next request's and ends the target at s.                  *)
EndsIt(s, k) == k = s + 1 /\ Lines[k] \in Methods

(* Up to e the reader is in the target, and past its first line only if it *)
(* has seen more than comments.                                            *)
LEMMA Inside ==
  ASSUME input \in Inputs, CommentsClear, NEW s, NEW e, Covers(s, e)
  PROVE  /\ Mode[s + 1] = "fresh"
         /\ \A k \in (s + 1)..e : Mode[k] \in {"fresh", "in"}
         /\ \A k \in (s + 1)..e :
              k <= Eof /\ Mode[k] = "fresh" /\ ~EndsIt(s, k) =>
                /\ Lines[k] \notin Methods
                /\ Lines[k] = "broken" => k = s + 1
<1> DEFINE Good(k) == /\ Mode[k] \in {"fresh", "in"}
                      /\ Mode[k] = "fresh" => k = s + 1 \/ Lines[k - 1] = "comment"
           S == {d \in 0..(e - s - 1) : Good(s + 1 + d)}
<1>1. /\ Eof \in Nat /\ s \in 1..Eof /\ e \in (s + 1)..(Eof + 1)
      /\ Lines[s] \in Starts /\ Mode[s] \in {"out", "fresh"}
      /\ \A k \in (s + 1)..(e - 1) : Lines[k] \in Headers
      /\ e > s + 1 => Lines[s + 1] \notin Methods
  BY LinesFacts DEF Covers
<1>2. Mode[s + 1] = "fresh"
  BY <1>1, ModeFacts DEF After, Starts
<1>3. ASSUME NEW k \in (s + 1)..e, k <= Eof, Mode[k] = "fresh", Good(k), ~EndsIt(s, k)
      PROVE  Lines[k] \notin Methods /\ (Lines[k] = "broken" => k = s + 1)
  <2>1. CASE k = s + 1
    BY <1>3, <2>1 DEF EndsIt
  <2>2. CASE k # s + 1
    <3>1. k \in 2..Eof /\ Lines[k - 1] = "comment"
      BY <1>1, <1>3, <2>2
    <3>2. QED
      BY <1>3, <3>1 DEF CommentsClear
  <2>3. QED
    BY <2>1, <2>2
<1>4. 0 \in S
  BY <1>1, <1>2
<1>5. ASSUME NEW d \in 0..((e - s - 1) - 1), d \in S PROVE d + 1 \in S
  <2> DEFINE k == s + 1 + d
  <2>1. /\ k \in (s + 1)..(e - 1) /\ k \in 1..Eof /\ k \in (s + 1)..e /\ k <= Eof
        /\ d + 1 \in 0..(e - s - 1) /\ e > s + 1
        /\ s + 1 + (d + 1) = k + 1 /\ (k + 1) - 1 = k
    BY <1>1
  <2>2. Good(k)
    BY <1>5
  <2> HIDE DEF k
  <2>3. Mode[k + 1] = After(Mode[k], Lines[k]) /\ Lines[k] \in Headers
    BY <1>1, <2>1, ModeFacts
  <2>4. ~EndsIt(s, k)
    BY <1>1, <2>1 DEF EndsIt
  <2>5. CASE Mode[k] = "fresh"
    <3>1. Lines[k] \notin Methods
      BY <1>3, <2>1, <2>2, <2>4, <2>5
    <3>2. Lines[k] \in {"comment", "header"}
      BY <2>3, <3>1 DEF Headers, Methods
    <3>3. /\ Lines[k] = "comment" => Mode[k + 1] = "fresh"
          /\ Lines[k] = "header" => Mode[k + 1] = "in"
      BY <2>3, <2>5 DEF After, Starts
    <3>4. Good(k + 1)
      BY <2>1, <3>2, <3>3
    <3>5. QED
      BY <2>1, <3>4
  <2>6. Mode[k] = "in" => Good(k + 1)
    BY <2>3 DEF After, Headers, Starts
  <2>7. QED
    BY <2>1, <2>2, <2>5, <2>6
<1> HIDE DEF S, Good
<1>6. 0..(e - s - 1) \subseteq S
  BY <1>1, <1>4, <1>5, Ascend
<1>7. \A k \in (s + 1)..e : Good(k)
  <2> TAKE k \in (s + 1)..e
  <2>1. k - s - 1 \in 0..(e - s - 1) /\ s + 1 + (k - s - 1) = k
    BY <1>1
  <2>2. QED
    BY <1>6, <2>1 DEF S
<1>8. QED
  BY <1>2, <1>3, <1>7 DEF Good

(* The lines that belong to it are the ones up to e.                       *)
LEMMA Belongs ==
  ASSUME input \in Inputs, CommentsClear, NEW s, NEW e, Covers(s, e), NEW k \in 1..Eof
  PROVE  StartOf(k) = s <=> k \in (s + 1)..e /\ ~EndsIt(s, k)
<1> DEFINE T == {t \in 1..(k - 1) : Lines[t] \in Starts /\ Mode[t] # "in"}
           none == Mode[k] \in {"out", "lost"} \/ (Mode[k] = "fresh" /\ Lines[k] \in Methods)
<1>1. /\ Eof \in Nat /\ s \in 1..Eof /\ e \in (s + 1)..(Eof + 1)
      /\ Lines[s] \in Starts /\ Mode[s] \in {"out", "fresh"}
  BY LinesFacts DEF Covers
<1>2. StartOf(k) = IF none THEN 0 ELSE Max(T)
  BY DEF StartOf
<1>3. /\ Mode[s + 1] = "fresh"
      /\ \A t \in (s + 1)..e : Mode[t] \in {"fresh", "in"}
      /\ \A t \in (s + 1)..e : t <= Eof /\ Mode[t] = "fresh" /\ ~EndsIt(s, t) =>
           Lines[t] \notin Methods
  BY Inside
<1>4. Mode[k] \in Modes
  BY <1>1, ModeFacts
<1>5. ~none => T # {} /\ Max(T) \in T /\ \A y \in T : y <= Max(T)
  <2> SUFFICES ASSUME ~none PROVE T # {} /\ Max(T) \in T /\ \A y \in T : y <= Max(T)
    OBVIOUS
  <2>1. Mode[k] \in {"fresh", "in"}
    BY <1>4 DEF Modes
  <2>2. T # {}
    <3> SUFFICES ASSUME T = {} PROVE FALSE
      OBVIOUS
    <3>1. \A t \in 1..(k - 1) : ~Start(t)
      BY DEF Start
    <3>2. Mode[1] = "out" /\ 1 \in 1..(Eof + 1) /\ k \in 1..(Eof + 1)
      BY <1>1, ModeFacts
    <3>3. Mode[k] \in {"out", "lost"}
      BY <3>1, <3>2, NoStart
    <3>4. QED
      BY <2>1, <3>3
  <2>3. T \in SUBSET (0..(k - 1)) /\ k - 1 \in Nat
    <3>1. k - 1 \in Nat /\ 1..(k - 1) \subseteq 0..(k - 1)
      BY <1>1
    <3>2. QED
      BY <3>1
  <2> HIDE DEF T
  <2>4. QED
    BY <2>2, <2>3, MaxIn
<1>6. CASE k <= s
  <2>1. StartOf(k) = s => ~none /\ s \in T
    BY <1>1, <1>2, <1>5
  <2>2. ~(s \in T)
    BY <1>1, <1>6
  <2>3. QED
    BY <1>1, <1>6, <2>1, <2>2
<1>7. CASE k \in (s + 1)..e /\ EndsIt(s, k)
  <2>1. StartOf(k) = 0
    BY <1>2, <1>3, <1>7 DEF EndsIt
  <2>2. QED
    BY <1>1, <1>7, <2>1
<1>8. CASE k \in (s + 1)..e /\ ~EndsIt(s, k)
  <2>1. Mode[k] = "in" \/ (Mode[k] = "fresh" /\ Lines[k] \notin Methods)
    BY <1>1, <1>3, <1>8
  <2>2. ~none
    BY <2>1
  <2>3. s \in T
    BY <1>1, <1>8
  <2>4. ASSUME NEW t \in T PROVE t <= s
    <3> SUFFICES ASSUME t > s PROVE FALSE
      BY <1>1
    <3>1. /\ t \in (s + 1)..e /\ t <= Eof /\ t < e /\ t \in (s + 1)..(e - 1)
          /\ Lines[t] \in Methods /\ Mode[t] # "in"
      BY <1>1, <1>8 DEF Starts, Methods
    <3>2. EndsIt(s, t)
      BY <1>3, <3>1
    <3>3. t = s + 1 /\ e > s + 1
      BY <1>1, <3>1, <3>2 DEF EndsIt
    <3>4. QED
      BY <3>1, <3>3 DEF Covers
  <2>5. Max(T) = s
    <3>1. T \in SUBSET Int
      BY <1>1
    <3> HIDE DEF T
    <3>2. QED
      BY <2>3, <2>4, <3>1, MaxIs
  <2>6. QED
    BY <1>2, <1>8, <2>2, <2>5
<1>9. CASE k > e
  <2>1. e \in 1..Eof /\ e \in (s + 1)..e
    BY <1>1, <1>9
  <2>2. StartOf(k) = s => ~none
    BY <1>1, <1>2
  <2>3. CASE EndsIt(s, e) /\ Lines[e] \in Starts
    <3>1. e \in T
      BY <1>1, <1>3, <1>9, <2>1, <2>3 DEF EndsIt
    <3>2. ~none => e <= Max(T)
      BY <1>5, <3>1
    <3>3. StartOf(k) = s => s >= e
      BY <1>2, <2>2, <3>2
    <3>4. QED
      BY <1>1, <1>9, <3>3
  <2>4. CASE ~(EndsIt(s, e) /\ Lines[e] \in Starts)
    <3>1. e + 1 \in 1..(Eof + 1) /\ k \in (e + 1)..(Eof + 1)
      BY <1>1, <1>9, <2>1
    <3>2. Mode[e + 1] = After(Mode[e], Lines[e]) /\ Mode[e] \in {"fresh", "in"}
      BY <1>1, <1>3, <2>1, ModeFacts
    <3>3. Mode[e + 1] \in {"out", "lost"}
      <4>1. Lines[e] \in Enders \/ EndsIt(s, e)
        BY <1>1, <2>1 DEF Covers, EndsIt
      <4>2. CASE Lines[e] \in {"blank", "body", "broken", "bad", "nourl"}
        BY <3>2, <4>2 DEF After, Starts
      <4>3. CASE EndsIt(s, e)
        <5>1. Mode[e] = "fresh"
          BY <1>3, <4>3 DEF EndsIt
        <5>2. Lines[e] \in {"badurl", "nourl"}
          BY <2>4, <4>3 DEF EndsIt, Starts, Methods
        <5>3. QED
          BY <3>2, <5>1, <5>2 DEF After, Starts
      <4>4. CASE Lines[e] = "path" /\ ~EndsIt(s, e)
        <5>1. Lines[e] \in Methods
          BY <4>4 DEF Methods
        <5>2. Mode[e] = "in"
          BY <1>1, <1>3, <2>1, <3>2, <4>4, <5>1
        <5>3. QED
          BY <3>2, <4>4, <5>2 DEF After, Starts
      <4>5. QED
        BY <4>1, <4>2, <4>3, <4>4 DEF Enders, NoHeader
    <3>4. ~none => \E t \in (e + 1)..(k - 1) : Start(t)
      BY <3>1, <3>3, NoStart
    <3>5. \A t \in (e + 1)..(k - 1) : Start(t) => t \in T /\ t > s
      BY <1>1, <2>1 DEF Start
    <3>6. ~none => Max(T) # s
      <4> SUFFICES ASSUME ~none, Max(T) = s PROVE FALSE
        OBVIOUS
      <4>1. PICK t \in (e + 1)..(k - 1) : Start(t)
        BY <3>4
      <4>2. t \in T /\ t > s /\ t \in Int
        BY <3>5, <4>1
      <4> HIDE DEF T, none
      <4>3. t <= s
        BY <1>5, <4>2
      <4>4. QED
        BY <1>1, <4>2, <4>3
    <3>7. QED
      BY <1>1, <1>2, <1>9, <2>2, <3>6
  <2>5. QED
    BY <2>3, <2>4
<1>10. QED
  BY <1>1, <1>6, <1>7, <1>8, <1>9

-----------------------------------------------------------------------------
(* The values in the order of the lines.                                   *)
LEMMA InOrderFacts ==
  ASSUME NEW S, IsFiniteSet(S)
  PROVE  /\ Len(InOrder(S)) \in Nat
         /\ Len(InOrder(S)) = 0 => InOrder(S) = <<>>
         /\ S = {} => InOrder(S) = <<>>
<1> DEFINE n == Cardinality(S)
           place(k) == Cardinality({j \in S : j <= k})
           own == [m \in 1..n |-> CHOOSE k \in S : place(k) = m]
<1>1. n \in Nat /\ (S = {} => n = 0)
  BY FS_CardinalityType, FS_EmptySet
<1>2. InOrder(S) = own
  BY DEF InOrder
<1> HIDE DEF n, place
<1>3. Len(own) = n
  BY <1>1
<1>4. n = 0 => own = <<>>
  BY <1>1
<1>5. QED
  BY <1>1, <1>2, <1>3, <1>4

(* What the lines of a target of the HTTP format say.                      *)
FailsAt(s, e) ==
  /\ e <= Eof
  /\ Lines[e] \in NoHeader \cup {"broken"}
  /\ e = s + 1 => Lines[e] = "bad"

LEMMA SectionFacts ==
  ASSUME input \in Inputs, CommentsClear, NEW s, NEW e, Covers(s, e)
  PROVE  /\ s \in HTTPGiven <=> ~FailsAt(s, e)
         /\ \A t \in (s + 1)..(e - 1) : t \notin HTTPGiven
         /\ \A t \in s..(e - 1) : ~Bad(t)
         /\ e <= Eof /\ ~EndsIt(s, e) =>
              (Bad(e) <=> FailsAt(s, e) /\ Lines[e] # "broken")
         /\ OwnValues(s) = HeaderLines(s, e)
         /\ OwnBody(s) = IF e <= Eof /\ Lines[e] = "body" THEN e ELSE 0
<1>1. /\ Eof \in Nat /\ s \in 1..Eof /\ e \in (s + 1)..(Eof + 1)
      /\ Lines[s] \in Starts /\ Mode[s] \in {"out", "fresh"}
      /\ \A k \in (s + 1)..(e - 1) : Lines[k] \in Headers
      /\ e > s + 1 => Lines[s + 1] \notin Methods
      /\ e <= Eof => Lines[e] \in Enders \/ EndsIt(s, e)
  BY LinesFacts DEF Covers, EndsIt
<1>2. /\ Mode[s + 1] = "fresh"
      /\ \A k \in (s + 1)..e : Mode[k] \in {"fresh", "in"}
  BY Inside
<1>3. \A k \in (s + 1)..e :
        k <= Eof /\ Mode[k] = "fresh" /\ ~EndsIt(s, k) =>
          /\ Lines[k] \notin Methods
          /\ Lines[k] = "broken" => k = s + 1
  BY Inside
<1>4. \A k \in 1..Eof : k \in Belonging(s) <=> k \in (s + 1)..e /\ ~EndsIt(s, k)
  BY Belongs DEF Belonging
<1>5. \A t \in s..(e - 1) : ~Bad(t)
  <2> SUFFICES ASSUME NEW t \in s..(e - 1) PROVE ~Bad(t)
    OBVIOUS
  <2>1. CASE t = s
    BY <1>1, <2>1 DEF Bad, Starts
  <2>2. CASE t \in (s + 1)..(e - 1)
    <3>1. t \in (s + 1)..e /\ t <= Eof /\ ~EndsIt(s, t)
      BY <1>1, <2>2 DEF EndsIt
    <3>2. Lines[t] \in Headers /\ Mode[t] \in {"fresh", "in"}
      BY <1>1, <1>2, <2>2, <3>1
    <3>3. Mode[t] = "fresh" => Lines[t] \notin Methods
      BY <1>3, <3>1
    <3>4. QED
      BY <3>2, <3>3 DEF Bad, Headers, Methods, NoHeader
  <2>3. QED
    BY <1>1, <2>1, <2>2
<1>6. e <= Eof /\ ~EndsIt(s, e) => (Bad(e) <=> FailsAt(s, e) /\ Lines[e] # "broken")
  <2> SUFFICES ASSUME e <= Eof, ~EndsIt(s, e)
               PROVE  Bad(e) <=> FailsAt(s, e) /\ Lines[e] # "broken"
    OBVIOUS
  <2>1. e \in (s + 1)..e /\ Lines[e] \in Enders
    BY <1>1
  <2>2. Mode[e] = "in" \/ (Mode[e] = "fresh" /\ Lines[e] \notin Methods)
    BY <1>2, <1>3, <2>1
  <2>3. e = s + 1 => Lines[e] \notin Methods
    BY DEF EndsIt
  <2>4. Bad(e) <=> Lines[e] \in NoHeader
    BY <2>1, <2>2 DEF Bad, Enders, NoHeader, Methods
  <2>5. Lines[e] \in NoHeader => Lines[e] # "broken" /\ (e = s + 1 => Lines[e] = "bad")
    BY <2>3 DEF NoHeader, Methods
  <2>6. QED
    BY <2>4, <2>5 DEF FailsAt
<1>7. \A t \in (s + 1)..(e - 1) : t \notin HTTPGiven
  <2> SUFFICES ASSUME NEW t \in (s + 1)..(e - 1), t \in HTTPGiven PROVE FALSE
    OBVIOUS
  <2>1. Lines[t] \in Starts /\ Mode[t] \in {"out", "fresh"}
    BY DEF HTTPGiven
  <2>2. t \in (s + 1)..e /\ t <= Eof /\ ~EndsIt(s, t)
    BY <1>1 DEF EndsIt
  <2>3. Mode[t] = "fresh" /\ Lines[t] \in Methods
    BY <1>2, <2>1, <2>2 DEF Starts, Methods
  <2>4. QED
    BY <1>3, <2>2, <2>3
<1>8. s \in HTTPGiven <=> ~FailsAt(s, e)
  <2>1. s \in HTTPGiven <=> \A k \in Belonging(s) :
                              ~Bad(k) /\ ~(Lines[k] = "broken" /\ Mode[k] = "in")
    BY <1>1 DEF HTTPGiven
  <2>2. ASSUME FailsAt(s, e) PROVE ~(s \in HTTPGiven)
    <3>1. e \in 1..Eof /\ e \in (s + 1)..e /\ e <= Eof
      BY <1>1, <2>2 DEF FailsAt
    <3>2. ~EndsIt(s, e)
      BY <2>2 DEF FailsAt, EndsIt, Methods
    <3>3. e \in Belonging(s)
      BY <1>4, <3>1, <3>2
    <3>4. Lines[e] = "broken" => e # s + 1
      BY <2>2 DEF FailsAt
    <3>5. Lines[e] = "broken" => Mode[e] = "in"
      BY <1>2, <1>3, <3>1, <3>2, <3>4
    <3>6. Bad(e) \/ (Lines[e] = "broken" /\ Mode[e] = "in")
      BY <1>6, <2>2, <3>1, <3>2, <3>5
    <3>7. QED
      BY <2>1, <3>3, <3>6
  <2>3. ASSUME ~FailsAt(s, e), NEW k \in Belonging(s)
        PROVE  ~Bad(k) /\ ~(Lines[k] = "broken" /\ Mode[k] = "in")
    <3>1. k \in 1..Eof /\ k \in (s + 1)..e /\ ~EndsIt(s, k)
      BY <1>4 DEF Belonging
    <3>2. CASE k < e
      <4>1. k \in s..(e - 1) /\ k \in (s + 1)..(e - 1)
        BY <1>1, <3>1, <3>2
      <4>2. Lines[k] # "broken"
        BY <1>1, <4>1 DEF Headers
      <4>3. QED
        BY <1>5, <4>1, <4>2
    <3>3. CASE k = e
      <4>1. e <= Eof /\ ~EndsIt(s, e)
        BY <1>1, <3>1, <3>3
      <4>2. ~Bad(e)
        BY <1>6, <2>3, <4>1
      <4>3. Lines[e] = "broken" => e = s + 1
        BY <2>3, <4>1 DEF FailsAt
      <4>4. QED
        BY <1>2, <3>3, <4>2, <4>3
    <3>4. QED
      BY <1>1, <3>1, <3>2, <3>3
  <2>4. QED
    BY <2>1, <2>2, <2>3
<1>9. OwnValues(s) = HeaderLines(s, e)
  <2> DEFINE A == {k \in Belonging(s) : Lines[k] \in {"header", "target", "badurl"}}
             B == {k \in (s + 1)..(e - 1) : Lines[k] # "comment"}
  <2>1. ASSUME NEW k \in A PROVE k \in B
    <3>1. k \in 1..Eof /\ k \in (s + 1)..e /\ ~EndsIt(s, k)
          /\ Lines[k] \in {"header", "target", "badurl"}
      BY <1>4 DEF Belonging
    <3>2. k # e
      BY <1>1, <3>1 DEF Enders, NoHeader
    <3>3. QED
      BY <1>1, <3>1, <3>2
  <2>2. ASSUME NEW k \in B PROVE k \in A
    <3>1. k \in 1..Eof /\ k \in (s + 1)..e /\ Lines[k] \in {"header", "target", "badurl"}
          /\ e > s + 1
      BY <1>1 DEF Headers
    <3>2. ~EndsIt(s, k)
      BY <1>1, <3>1 DEF EndsIt
    <3>3. QED
      BY <1>4, <3>1, <3>2
  <2>3. A = B
    BY <2>1, <2>2
  <2> HIDE DEF A, B
  <2>4. OwnValues(s) = InOrder(A) /\ HeaderLines(s, e) = InOrder(B)
    BY DEF OwnValues, HeaderLines, A, B
  <2>5. QED
    BY <2>3, <2>4
<1>10. OwnBody(s) = IF e <= Eof /\ Lines[e] = "body" THEN e ELSE 0
  <2> DEFINE C == {k \in Belonging(s) : Lines[k] = "body"}
  <2>1. OwnBody(s) = IF C = {} THEN 0 ELSE Max(C)
    BY DEF OwnBody
  <2>2. ASSUME NEW k \in C PROVE k = e /\ e <= Eof /\ Lines[e] = "body"
    <3>1. k \in 1..Eof /\ k \in (s + 1)..e /\ Lines[k] = "body"
      BY <1>4 DEF Belonging
    <3>2. k \notin (s + 1)..(e - 1)
      BY <1>1, <3>1 DEF Headers
    <3>3. k = e
      BY <1>1, <3>1, <3>2
    <3>4. QED
      BY <3>1, <3>3
  <2>3. CASE e <= Eof /\ Lines[e] = "body"
    <3>1. e \in 1..Eof /\ e \in (s + 1)..e
      BY <1>1, <2>3
    <3>2. e \in C
      BY <1>4, <2>3, <3>1 DEF EndsIt, Methods
    <3>3. C \in SUBSET Int /\ \A y \in C : y <= e
      <4>1. e \in Int
        BY <1>1
      <4>2. \A y \in C : y = e
        BY <2>2
      <4> HIDE DEF C
      <4>3. QED
        BY <4>1, <4>2
    <3> HIDE DEF C
    <3>4. Max(C) = e
      BY <3>2, <3>3, MaxIs
    <3>5. QED
      BY <2>1, <2>3, <3>2, <3>4
  <2>4. CASE ~(e <= Eof /\ Lines[e] = "body")
    <3>1. C = {}
      BY <2>2, <2>4
    <3> HIDE DEF C
    <3>2. QED
      BY <2>1, <2>4, <3>1
  <2>5. QED
    BY <2>3, <2>4
<1>11. QED
  BY <1>5, <1>6, <1>7, <1>8, <1>9, <1>10

-----------------------------------------------------------------------------
(* A line that makes the file wrong.                                       *)
WrongAt(k) ==
  IF input.format = "json"
  THEN (k \in Readable /\ Lines[k] \notin {"blank", "target"}) \/ Lines[k] = "broken"
  ELSE Bad(k)

(* The targets that may be handed to a hit: what a given target says; its  *)
(* header is a view of the shared array only if that has room for it.      *)
OwnOf(s) == IF input.format = "json" THEN <<s>> ELSE OwnValues(s)
BodyOf(s) == IF input.format = "json" THEN s ELSE OwnBody(s)
TargetAt(s, v) ==
  [line |-> s, header |-> [own |-> OwnOf(s), view |-> v], body |-> BodyOf(s)]
GivenTargets ==
  {t \in {TargetAt(s, v) : s \in Given, v \in BOOLEAN} :
     t.header.view => input.format = "http" /\ (Spare = 0 => t.header.own = <<>>)}

(* Where a call of the targeter may find the reader: at the end, outside   *)
(* of targets, or at the request's line that ended the target before.      *)
Boundary(n) ==
  /\ n \in 1..(Eof + 1)
  /\ IF input.format = "json" THEN \A k \in 1..(n - 1) : Lines[k] # "broken"
     ELSE \/ Ended(n)
          \/ Mode[n] = "out"
          \/ Mode[n] = "fresh" /\ Lines[n] \in Methods

(* A call returns the next target given, if there is one, and stops at     *)
(* such a place; an error is that of a line that is wrong.                 *)
CallSound(d, n) ==
  /\ d.next \in n..(Eof + 1) /\ Boundary(d.next)
  /\ d.err = "nil" =>
       /\ d.tgt \in GivenTargets
       /\ d.tgt.line \in n..(d.next - 1)
       /\ \A s \in n..(d.next - 1) : s \in Given => s = d.tgt.line
       /\ \A k \in n..(d.next - 1) : ~WrongAt(k)
  /\ d.err # "nil" => \A s \in n..(d.next - 1) : s \notin Given
  /\ d.err = "ErrNoTargets" => Ended(d.next) /\ \A k \in n..Eof : ~WrongAt(k)
  /\ d.err \notin {"nil", "ErrNoTargets"} => Wrong

(* After the end nothing is given and nothing is wrong.                    *)
LEMMA NothingAfter ==
  ASSUME input \in Inputs, input.format = "http", NEW n \in 1..(Eof + 1), Ended(n),
         NEW k \in n..Eof
  PROVE  k \notin HTTPGiven /\ ~Bad(k)
<1>1. Eof \in Nat /\ n \in 1..Eof /\ Lines[n] = "broken"
  BY LinesFacts DEF Ended
<1>2. CASE k = n
  BY <1>1, <1>2 DEF HTTPGiven, Bad, Starts, NoHeader
<1>3. CASE k > n
  <2>1. Mode[k] = "lost"
    <3>1. k \in (n + 1)..(Eof + 1)
      BY <1>1, <1>3
    <3>2. QED
      BY <1>1, <3>1, AfterBroken
  <2>2. QED
    BY <2>1 DEF HTTPGiven, Bad, Starts, NoHeader
<1>4. QED
  BY <1>1, <1>2, <1>3

(* The lines before the one that should start a target.                    *)
LEMMA PassedOver ==
  ASSUME input \in Inputs, input.format = "http", NEW n, Boundary(n),
         NEW s \in n..(Eof + 1),
         \A k \in n..(s - 1) : Lines[k] \in {"blank", "comment"}
  PROVE  /\ \A k \in n..(s - 1) : k \notin HTTPGiven /\ ~Bad(k)
         /\ Ended(s) \/ Mode[s] = "out" \/ (Mode[s] = "fresh" /\ Lines[s] \in Methods)
<1>1. n \in 1..(Eof + 1) /\ Eof \in Nat
  BY LinesFacts DEF Boundary
<1>2. \A k \in n..(s - 1) : k \notin HTTPGiven /\ ~Bad(k)
  BY DEF HTTPGiven, Bad, Starts, NoHeader
<1>3. CASE s = n
  BY <1>2, <1>3 DEF Boundary
<1>4. CASE s # n
  <2>1. n \in n..(s - 1) /\ n <= Eof
    BY <1>1, <1>4
  <2>2. Lines[n] \in {"blank", "comment"}
    BY <2>1
  <2>3. ~Ended(n)
    BY <1>1, <2>1, <2>2 DEF Ended
  <2>4. Mode[n] = "out"
    BY <2>2, <2>3 DEF Boundary, Methods
  <2>5. \A t \in n..s : Mode[t] = "out"
    BY <1>1, <2>4, SkipsOut
  <2>6. s \in n..s
    BY <1>1
  <2>7. QED
    BY <1>2, <2>5, <2>6
<1>5. QED
  BY <1>3, <1>4

(* A call that finds no target, or a line that starts none.                *)
LEMMA FailedCall ==
  ASSUME input \in Inputs, input.format = "http", NEW n, Boundary(n),
         NEW s \in n..(Eof + 1),
         \A k \in n..(s - 1) : Lines[k] \in {"blank", "comment"}
  PROVE  /\ Ended(s) => CallSound(Fail("ErrNoTargets", s), n)
         /\ ~Ended(s) /\ Lines[s] \notin Starts \cup {"blank", "comment"} =>
              CallSound(Fail("badTarget", s + 1), n)
<1>1. n \in 1..(Eof + 1) /\ Eof \in Nat /\ s \in 1..(Eof + 1)
  BY LinesFacts DEF Boundary
<1>2. /\ \A k \in n..(s - 1) : k \notin HTTPGiven /\ ~Bad(k)
      /\ Ended(s) \/ Mode[s] = "out" \/ (Mode[s] = "fresh" /\ Lines[s] \in Methods)
  BY PassedOver
<1>3. /\ \A k : WrongAt(k) <=> Bad(k)
      /\ Given = HTTPGiven
      /\ Wrong <=> HTTPWrong
  BY DEF WrongAt, Given, Wrong
<1>4. ASSUME Ended(s) PROVE CallSound(Fail("ErrNoTargets", s), n)
  <2> DEFINE d == Fail("ErrNoTargets", s)
  <2>1. d.err = "ErrNoTargets" /\ d.next = s
    BY DEF Fail
  <2> HIDE DEF d
  <2>2. Boundary(s)
    BY <1>1, <1>4 DEF Boundary
  <2>3. \A k \in n..Eof : k \in n..(s - 1) \/ k \in s..Eof
    BY <1>1
  <2>4. \A k \in s..Eof : ~Bad(k)
    BY <1>1, <1>4, NothingAfter
  <2>5. \A k \in n..Eof : ~WrongAt(k)
    BY <1>2, <1>3, <2>3, <2>4
  <2>6. CallSound(d, n)
    BY <1>2, <1>3, <1>4, <2>1, <2>2, <2>5 DEF CallSound
  <2>7. QED
    BY <2>6 DEF d
<1>5. ASSUME ~Ended(s), Lines[s] \notin Starts \cup {"blank", "comment"}
      PROVE  CallSound(Fail("badTarget", s + 1), n)
  <2> DEFINE d == Fail("badTarget", s + 1)
  <2>1. d.err = "badTarget" /\ d.next = s + 1
    BY DEF Fail
  <2> HIDE DEF d
  <2>2. s \in 1..Eof /\ Lines[s] # "broken"
    BY <1>1, <1>5 DEF Ended
  <2>3. /\ Lines[s] \in {"badurl", "nourl", "bad", "header", "body"}
        /\ Lines[s] \notin Starts
        /\ Mode[s] = "out" \/ (Mode[s] = "fresh" /\ Lines[s] \in {"badurl", "nourl"})
    BY <1>2, <1>5, <2>2, LinesFacts, TargetsAssumption DEF Starts, Methods
  <2>4. Bad(s)
    BY <2>3 DEF Bad
  <2>5. Mode[s + 1] = "out"
    BY <2>2, <2>3, ModeFacts DEF After
  <2>6. s + 1 \in n..(Eof + 1) /\ s + 1 \in 1..(Eof + 1)
    BY <1>1, <2>2
  <2>7. Boundary(s + 1)
    BY <2>5, <2>6 DEF Boundary
  <2>8. \A k \in n..((s + 1) - 1) : k \notin Given
    <3>1. s \notin HTTPGiven
      BY <2>3 DEF HTTPGiven
    <3>2. \A k \in n..((s + 1) - 1) : k \in n..(s - 1) \/ k = s
      BY <1>1
    <3>3. QED
      BY <1>2, <1>3, <3>1, <3>2
  <2>9. Wrong
    BY <1>3, <2>2, <2>4 DEF HTTPWrong
  <2>10. CallSound(d, n)
    BY <2>1, <2>6, <2>7, <2>8, <2>9 DEF CallSound
  <2>11. QED
    BY <2>10 DEF d
<1>6. QED
  BY <1>4, <1>5

(* A call that reads the target at line s, which ends at e.                *)
LEMMA ReadCall ==
  ASSUME input \in Inputs, CommentsClear, input.format = "http", NEW n, Boundary(n),
         NEW s \in n..(Eof + 1), NEW e, Covers(s, e),
         \A k \in n..(s - 1) : Lines[k] \in {"blank", "comment"},
         NEW d, NEW v \in BOOLEAN,
         v => Spare # 0 \/ OwnValues(s) = <<>>,
         d.tgt = [line |-> s, header |-> [own |-> OwnValues(s), view |-> v],
                  body |-> OwnBody(s)],
         d.next = IF Ended(e) \/ EndsIt(s, e) THEN e ELSE e + 1,
         d.err = IF ~FailsAt(s, e) THEN "nil"
                 ELSE IF Lines[e] = "broken" THEN "ErrNoTargets" ELSE "badHeader"
  PROVE  CallSound(d, n)
<1>1. /\ n \in 1..(Eof + 1) /\ Eof \in Nat /\ s \in 1..Eof
      /\ e \in (s + 1)..(Eof + 1)
      /\ e <= Eof => Lines[e] \in Enders \/ EndsIt(s, e)
      /\ EndsIt(s, e) => e = s + 1 /\ Lines[e] \in Methods
  BY LinesFacts DEF Boundary, Covers, EndsIt
<1>2. \A k \in n..(s - 1) : k \notin HTTPGiven /\ ~Bad(k)
  BY PassedOver
<1>3. /\ \A k : WrongAt(k) <=> Bad(k)
      /\ Given = HTTPGiven
      /\ Wrong <=> HTTPWrong
  BY DEF WrongAt, Given, Wrong
<1>4. /\ s \in HTTPGiven <=> ~FailsAt(s, e)
      /\ \A t \in (s + 1)..(e - 1) : t \notin HTTPGiven
      /\ \A t \in s..(e - 1) : ~Bad(t)
      /\ e <= Eof /\ ~EndsIt(s, e) =>
           (Bad(e) <=> FailsAt(s, e) /\ Lines[e] # "broken")
  BY SectionFacts
<1>5. d.next \in (s + 1)..(Eof + 1) /\ d.next \in n..(Eof + 1) /\ d.next \in {e, e + 1}
  BY <1>1 DEF Ended
<1>6. Boundary(d.next)
  <2>1. CASE Ended(e)
    BY <1>1, <2>1 DEF Boundary
  <2>2. CASE ~Ended(e) /\ EndsIt(s, e)
    <3>1. e = s + 1 /\ Mode[s + 1] = "fresh" /\ Lines[e] \in Methods
      BY <1>1, <2>2, Inside
    <3>2. QED
      BY <1>1, <2>2, <3>1 DEF Boundary
  <2>3. CASE ~Ended(e) /\ ~EndsIt(s, e)
    <3>1. e \in 1..Eof /\ Lines[e] \in {"blank", "body"} \cup NoHeader
      BY <1>1, <2>3 DEF Ended, Enders
    <3>2. Mode[e] = "in" \/ (Mode[e] = "fresh" /\ Lines[e] \notin Methods)
      <4>1. e \in (s + 1)..e /\ e <= Eof
        BY <1>1, <3>1
      <4>2. QED
        BY <2>3, <4>1, Inside
    <3>3. Mode[e + 1] = "out"
      BY <3>1, <3>2, ModeFacts DEF After, Starts, Methods, NoHeader
    <3>4. d.next = e + 1 /\ e + 1 \in 1..(Eof + 1)
      BY <1>1, <2>3, <3>1
    <3>5. QED
      BY <3>3, <3>4 DEF Boundary
  <2>4. QED
    BY <2>1, <2>2, <2>3
<1>7. \A k \in n..(d.next - 1) :
        \/ k \in n..(s - 1) \/ k = s \/ k \in (s + 1)..(e - 1)
        \/ k = e /\ e <= Eof /\ d.next = e + 1
  BY <1>1, <1>5
<1>8. d.next = e + 1 => ~EndsIt(s, e) /\ Lines[e] # "broken" /\ e <= Eof
  BY <1>1 DEF Ended
<1>9. \A k \in n..(d.next - 1) : k \in HTTPGiven => k = s
  <2> SUFFICES ASSUME NEW k \in n..(d.next - 1), k \in HTTPGiven PROVE k = s
    OBVIOUS
  <2>1. Lines[k] \in Starts /\ Mode[k] \in {"out", "fresh"}
    BY DEF HTTPGiven
  <2>2. ~(k = e /\ e <= Eof /\ d.next = e + 1)
    <3> SUFFICES ASSUME k = e, e <= Eof, d.next = e + 1 PROVE FALSE
      OBVIOUS
    <3>1. e \in (s + 1)..e /\ ~EndsIt(s, e) /\ Lines[e] \in Methods
      BY <1>1, <1>8, <2>1 DEF Starts, Methods
    <3>2. Mode[e] = "in"
      BY <3>1, Inside
    <3>3. QED
      BY <2>1, <3>2
  <2>3. QED
    BY <1>2, <1>4, <1>7, <2>2
<1>10. ASSUME d.err = "nil"
       PROVE  /\ d.tgt \in GivenTargets
              /\ d.tgt.line \in n..(d.next - 1)
              /\ \A k \in n..(d.next - 1) : k \in Given => k = d.tgt.line
              /\ \A k \in n..(d.next - 1) : ~WrongAt(k)
  <2>1. s \in Given
    BY <1>3, <1>4, <1>10
  <2>2. d.tgt = TargetAt(s, v)
    BY DEF TargetAt, OwnOf, BodyOf
  <2>3. d.tgt.header.view = v /\ d.tgt.header.own = OwnValues(s) /\ d.tgt.line = s
    OBVIOUS
  <2>4. d.tgt \in GivenTargets
    BY <2>1, <2>2, <2>3 DEF GivenTargets
  <2>5. d.tgt.line \in n..(d.next - 1)
    BY <1>1, <1>5, <2>3
  <2>6. \A k \in n..(d.next - 1) : ~Bad(k)
    <3>1. d.next = e + 1 => ~Bad(e)
      BY <1>4, <1>8, <1>10
    <3>2. ~Bad(s)
      BY <1>1, <1>4
    <3>3. \A k \in (s + 1)..(e - 1) : ~Bad(k)
      BY <1>1, <1>4
    <3>4. QED
      BY <1>2, <1>7, <3>1, <3>2, <3>3
  <2>7. QED
    BY <1>3, <1>9, <2>3, <2>4, <2>5, <2>6
<1>11. ASSUME d.err # "nil" PROVE \A k \in n..(d.next - 1) : k \notin Given
  <2>1. s \notin HTTPGiven
    BY <1>4, <1>11
  <2>2. QED
    BY <1>3, <1>9, <2>1
<1>12. ASSUME d.err = "ErrNoTargets"
       PROVE  Ended(d.next) /\ \A k \in n..Eof : ~WrongAt(k)
  <2>1. e <= Eof /\ Lines[e] = "broken"
    BY <1>12 DEF FailsAt
  <2>2. Ended(e) /\ d.next = e
    BY <2>1 DEF Ended
  <2>3. \A k \in e..Eof : ~Bad(k)
    BY <1>1, <2>2, NothingAfter
  <2>4. \A k \in n..Eof : k \in n..(s - 1) \/ k \in s..(e - 1) \/ k \in e..Eof
    BY <1>1
  <2>5. \A k \in n..Eof : ~Bad(k)
    BY <1>2, <1>4, <2>3, <2>4
  <2>6. QED
    BY <1>3, <2>2, <2>5
<1>13. ASSUME d.err \notin {"nil", "ErrNoTargets"} PROVE Wrong
  <2>1. FailsAt(s, e) /\ Lines[e] # "broken"
    BY <1>13
  <2>2. e <= Eof /\ ~EndsIt(s, e)
    BY <2>1 DEF FailsAt, EndsIt, Methods
  <2>3. e \in 1..Eof /\ Bad(e)
    BY <1>1, <1>4, <2>1, <2>2
  <2>4. QED
    BY <1>3, <2>3 DEF HTTPWrong
<1>14. QED
  BY <1>5, <1>6, <1>10, <1>11, <1>12, <1>13 DEF CallSound

(* A call of the HTTP targeter.                                            *)
LEMMA HTTPCall ==
  ASSUME input \in Inputs, CommentsClear, input.format = "http", NEW n, Boundary(n)
  PROVE  CallSound(HTTPTargeter(n), n)
<1> DEFINE s == FirstOf(n, Kinds \ {"blank", "comment"})
           d == HTTPTargeter(n)
<1>1. n \in 1..(Eof + 1) /\ Eof \in Nat /\ \A k \in 1..Eof : Lines[k] \in Kinds
  BY LinesFacts DEF Boundary
<1>2. /\ s \in n..(Eof + 1)
      /\ \A k \in n..(s - 1) : Lines[k] \notin Kinds \ {"blank", "comment"}
      /\ s <= Eof => Lines[s] \in Kinds \ {"blank", "comment"}
  BY <1>1, FirstOfFacts
<1>3. d = IF Ended(s) THEN Fail("ErrNoTargets", s)
          ELSE IF Lines[s] \notin Starts THEN Fail("badTarget", s + 1)
          ELSE IF Ended(s + 1) \/ Lines[s + 1] \in {"blank"} \cup Methods
            THEN [err |-> "nil", tgt |-> [NoTarget EXCEPT !.line = s],
                  own |-> <<>>,
                  next |-> IF ~Ended(s + 1) /\ Lines[s + 1] = "blank"
                           THEN s + 2 ELSE s + 1]
          ELSE Section(s)
  BY DEF HTTPTargeter
<1> HIDE DEF s, d
<1>4. \A k \in n..(s - 1) : Lines[k] \in {"blank", "comment"}
  <2> SUFFICES ASSUME NEW k \in n..(s - 1) PROVE Lines[k] \in {"blank", "comment"}
    OBVIOUS
  <2>1. k \in 1..Eof
    BY <1>1, <1>2
  <2>2. QED
    BY <1>1, <1>2, <2>1
<1>5. s <= Eof => Lines[s] \notin {"blank", "comment"}
  BY <1>2
<1>6. CASE Ended(s)
  BY <1>2, <1>3, <1>4, <1>6, FailedCall DEF d
<1>7. CASE ~Ended(s) /\ Lines[s] \notin Starts
  <2>1. Lines[s] \notin Starts \cup {"blank", "comment"}
    BY <1>1, <1>2, <1>5, <1>7 DEF Ended
  <2>2. CallSound(Fail("badTarget", s + 1), n)
    BY <1>2, <1>4, <1>7, <2>1, FailedCall
  <2>3. QED
    BY <1>3, <1>7, <2>2 DEF d
<1>8. CASE ~Ended(s) /\ Lines[s] \in Starts
  <2>1. s \in 1..Eof /\ s + 1 \in (s + 1)..(Eof + 1) /\ s + 1 \in 1..(Eof + 1)
    <3>1. s \in 1..Eof
      BY <1>1, <1>2, <1>8 DEF Ended
    <3>2. QED
      BY <1>1, <3>1
  <2>2. Mode[s] \in {"out", "fresh"}
    <3>1. Ended(s) \/ Mode[s] = "out" \/ (Mode[s] = "fresh" /\ Lines[s] \in Methods)
      BY <1>2, <1>4, PassedOver
    <3>2. QED
      BY <1>8, <3>1
  <2>3. CASE Ended(s + 1) \/ Lines[s + 1] \in {"blank"} \cup Methods
    <3> DEFINE e == s + 1
               v == Len(<<>>) <= Spare
    <3>1. Covers(s, e)
      <4>1. \A k \in (s + 1)..(e - 1) : FALSE
        BY <2>1
      <4>2. e <= Eof => Lines[e] \in Enders \cup Methods
        BY <1>1, <2>1, <2>3 DEF Ended, Enders
      <4>3. QED
        BY <1>8, <2>1, <2>2, <4>1, <4>2 DEF Covers
    <3>2. OwnValues(s) = <<>> /\ OwnBody(s) = 0
      <4>1. /\ OwnValues(s) = HeaderLines(s, e)
            /\ OwnBody(s) = IF e <= Eof /\ Lines[e] = "body" THEN e ELSE 0
        BY <3>1, SectionFacts
      <4>2. {k \in (s + 1)..(e - 1) : Lines[k] # "comment"} = {}
        BY <2>1
      <4>3. HeaderLines(s, e) = <<>>
        BY <4>2, InOrderFacts, FS_EmptySet DEF HeaderLines
      <4>4. ~(e <= Eof /\ Lines[e] = "body")
        BY <1>1, <2>1, <2>3 DEF Ended, Methods
      <4>5. QED
        BY <4>1, <4>3, <4>4
    <3>3. /\ d.err = "nil"
          /\ d.tgt = [NoTarget EXCEPT !.line = s]
          /\ d.next = IF ~Ended(s + 1) /\ Lines[s + 1] = "blank" THEN s + 2 ELSE s + 1
      BY <1>3, <1>8, <2>3
    <3>4. d.tgt = [line |-> s, header |-> [own |-> OwnValues(s), view |-> v],
                   body |-> OwnBody(s)]
      BY <3>2, <3>3 DEF NoTarget, Header
    <3>5. d.next = IF Ended(e) \/ EndsIt(s, e) THEN e ELSE e + 1
      <4>1. CASE Ended(s + 1)
        BY <3>3, <4>1
      <4>2. CASE ~Ended(s + 1) /\ Lines[s + 1] = "blank"
        BY <2>1, <3>3, <4>2 DEF EndsIt, Methods
      <4>3. CASE ~Ended(s + 1) /\ Lines[s + 1] \in Methods
        BY <3>3, <4>3 DEF EndsIt, Methods
      <4>4. QED
        BY <2>3, <4>1, <4>2, <4>3
    <3>6. d.err = IF ~FailsAt(s, e) THEN "nil"
                  ELSE IF Lines[e] = "broken" THEN "ErrNoTargets" ELSE "badHeader"
      <4>1. ~FailsAt(s, e)
        BY <1>1, <2>1, <2>3 DEF Ended, FailsAt, Methods
      <4>2. d.err = "nil"
        BY <3>3
      <4>3. QED
        BY <4>1, <4>2
    <3>7. v \in BOOLEAN
      OBVIOUS
    <3> HIDE DEF e, v
    <3>8. CallSound(d, n)
      BY <1>2, <1>4, <3>1, <3>2, <3>4, <3>5, <3>6, <3>7, ReadCall
    <3>9. QED
      BY <3>8 DEF d
  <2>4. CASE ~(Ended(s + 1) \/ Lines[s + 1] \in {"blank"} \cup Methods)
    <3> DEFINE e == FirstOf(s + 1, Enders)
               own == HeaderLines(s, e)
               v == Len(own) <= Spare
    <3>1. /\ e \in (s + 1)..(Eof + 1)
          /\ \A k \in (s + 1)..(e - 1) : Lines[k] \notin Enders
          /\ e <= Eof => Lines[e] \in Enders
      BY <2>1, FirstOfFacts
    <3>2. /\ d.err = IF e > Eof \/ Lines[e] \in {"blank", "body"} THEN "nil"
                     ELSE IF Lines[e] = "broken" THEN "ErrNoTargets" ELSE "badHeader"
          /\ d.next = IF Ended(e) THEN e ELSE e + 1
          /\ d.tgt = [line |-> s, header |-> Header(own),
                      body |-> IF e <= Eof /\ Lines[e] = "body" THEN e ELSE 0]
      BY <1>3, <1>8, <2>4 DEF Section, Enders
    <3> HIDE DEF e
    <3>3. Covers(s, e)
      <4>1. \A k \in (s + 1)..(e - 1) : Lines[k] \in Headers
        <5> SUFFICES ASSUME NEW k \in (s + 1)..(e - 1) PROVE Lines[k] \in Headers
          OBVIOUS
        <5>1. k \in 1..Eof
          BY <1>1, <2>1, <3>1
        <5>2. QED
          BY <1>1, <3>1, <5>1, TargetsAssumption DEF Enders, NoHeader, Headers
      <4>2. QED
        BY <1>8, <2>1, <2>2, <2>4, <3>1, <4>1 DEF Covers
    <3>4. OwnValues(s) = own /\ OwnBody(s) = IF e <= Eof /\ Lines[e] = "body" THEN e ELSE 0
      BY <3>3, SectionFacts
    <3>5. v => Spare # 0 \/ OwnValues(s) = <<>>
      <4> DEFINE S == {k \in (s + 1)..(e - 1) : Lines[k] # "comment"}
      <4>1. IsFiniteSet(S)
        <5>1. IsFiniteSet((s + 1)..(e - 1))
          BY <1>1, <2>1, <3>1, FS_Interval
        <5>2. S \subseteq (s + 1)..(e - 1)
          OBVIOUS
        <5>3. QED
          BY <5>1, <5>2, FS_Subset
      <4>2. own = InOrder(S)
        BY DEF HeaderLines
      <4> HIDE DEF S
      <4>3. Len(own) \in Nat /\ (Len(own) = 0 => own = <<>>)
        BY <4>1, <4>2, InOrderFacts
      <4> HIDE DEF own
      <4>4. CASE Spare = 0
        BY <3>4, <4>3, <4>4
      <4>5. QED
        BY <4>4
    <3>6. d.tgt = [line |-> s, header |-> [own |-> OwnValues(s), view |-> v],
                   body |-> OwnBody(s)]
      BY <3>2, <3>4 DEF Header
    <3>7. d.next = IF Ended(e) \/ EndsIt(s, e) THEN e ELSE e + 1
      <4>1. ~Ended(e) => ~EndsIt(s, e)
        BY <2>4 DEF EndsIt
      <4>2. d.next = IF Ended(e) THEN e ELSE e + 1
        BY <3>2
      <4>3. QED
        BY <4>1, <4>2
    <3>8. d.err = IF ~FailsAt(s, e) THEN "nil"
                  ELSE IF Lines[e] = "broken" THEN "ErrNoTargets" ELSE "badHeader"
      <4>1. e = s + 1 => Lines[e] # "broken" /\ Lines[e] \notin Methods
        BY <2>4 DEF Ended
      <4>2. ~(e > Eof) <=> e <= Eof
        BY <1>1, <2>1, <3>1
      <4>3. FailsAt(s, e) <=> ~(e > Eof \/ Lines[e] \in {"blank", "body"})
        BY <3>1, <4>1, <4>2 DEF FailsAt, Enders, NoHeader, Methods
      <4>4. QED
        BY <3>2, <4>3
    <3>9. v \in BOOLEAN
      OBVIOUS
    <3> HIDE DEF v, own
    <3>10. CallSound(d, n)
      BY <1>2, <1>4, <3>3, <3>5, <3>6, <3>7, <3>8, <3>9, ReadCall
    <3>11. QED
      BY <3>10 DEF d
  <2>5. QED
    BY <2>3, <2>4
<1>9. QED
  BY <1>6, <1>7, <1>8

(* A call of the JSON targeter.                                            *)
LEMMA JSONCall ==
  ASSUME input \in Inputs, input.format = "json", NEW n, Boundary(n)
  PROVE  CallSound(JSONTargeter(n), n)
<1> DEFINE s == FirstOf(n, Kinds \ {"blank"})
           d == JSONTargeter(n)
<1>1. /\ n \in 1..(Eof + 1) /\ Eof \in Nat
      /\ \A k \in 1..Eof : Lines[k] \in Kinds
      /\ \A k \in 1..(n - 1) : Lines[k] # "broken"
  BY LinesFacts DEF Boundary
<1>2. /\ s \in n..(Eof + 1)
      /\ \A k \in n..(s - 1) : Lines[k] \notin Kinds \ {"blank"}
      /\ s <= Eof => Lines[s] \in Kinds \ {"blank"}
  BY <1>1, FirstOfFacts
<1>3. d = IF s > Eof \/ (s = Eof /\ ~input.eol /\ Lines[s] # "broken")
            THEN Fail("ErrNoTargets", Eof + 1)
          ELSE IF Lines[s] = "broken" THEN Fail("readError", s)
          ELSE IF Lines[s] # "target" THEN Fail("badTarget", s + 1)
          ELSE [err |-> "nil", next |-> s + 1, own |-> <<>>,
                tgt |-> [line |-> s, body |-> s,
                         header |-> [own |-> <<s>>, view |-> FALSE]]]
  BY DEF JSONTargeter
<1> HIDE DEF s
<1>4. \A k \in n..(s - 1) : Lines[k] = "blank"
  <2> SUFFICES ASSUME NEW k \in n..(s - 1) PROVE Lines[k] = "blank"
    OBVIOUS
  <2>1. k \in 1..Eof
    BY <1>1, <1>2
  <2>2. QED
    BY <1>1, <1>2, <2>1
<1>5. /\ \A k : WrongAt(k) <=> \/ k \in Readable /\ Lines[k] \notin {"blank", "target"}
                               \/ Lines[k] = "broken"
      /\ Given = JSONGiven
      /\ Wrong <=> JSONWrong
  BY DEF WrongAt, Given, Wrong
<1>6. \A k \in 1..(s - 1) : Lines[k] # "broken"
  <2> SUFFICES ASSUME NEW k \in 1..(s - 1) PROVE Lines[k] # "broken"
    OBVIOUS
  <2>1. k \in 1..(n - 1) \/ k \in n..(s - 1)
    BY <1>1, <1>2
  <2>2. QED
    BY <1>1, <1>4, <2>1
<1>7. \A k \in n..(s - 1) : k \notin Given /\ ~WrongAt(k)
  BY <1>4, <1>5 DEF JSONGiven
<1>8. \A x : Boundary(x) <=> x \in 1..(Eof + 1) /\ \A k \in 1..(x - 1) : Lines[k] # "broken"
  BY DEF Boundary
<1>9. s \in 1..(Eof + 1) /\ \A k \in n..(Eof + 1) : k \in n..(s - 1) \/ k \in s..(Eof + 1)
  BY <1>1, <1>2
<1>10. CASE s > Eof \/ (s = Eof /\ ~input.eol /\ Lines[s] # "broken")
  <2>1. d.err = "ErrNoTargets" /\ d.next = Eof + 1
    BY <1>3, <1>10 DEF Fail
  <2> HIDE DEF d
  <2>2. \A k \in n..Eof : k \notin Given /\ ~WrongAt(k)
    <3> SUFFICES ASSUME NEW k \in n..Eof PROVE k \notin Given /\ ~WrongAt(k)
      OBVIOUS
    <3>1. CASE k \in n..(s - 1)
      BY <1>7, <3>1
    <3>2. CASE k \notin n..(s - 1)
      <4>1. k = s /\ s = Eof /\ ~input.eol /\ Lines[s] # "broken"
        BY <1>1, <1>2, <1>10, <3>2
      <4>2. k \notin Readable
        BY <1>1, <4>1 DEF Readable
      <4>3. QED
        BY <1>5, <4>1, <4>2 DEF JSONGiven
    <3>3. QED
      BY <3>1, <3>2
  <2>3. \A k \in 1..((Eof + 1) - 1) : Lines[k] # "broken"
    <3> SUFFICES ASSUME NEW k \in 1..((Eof + 1) - 1) PROVE Lines[k] # "broken"
      OBVIOUS
    <3>1. k \in 1..(s - 1) \/ k = s
      BY <1>1, <1>9, <1>10
    <3>2. k = s => Lines[s] # "broken"
      BY <1>1, <1>9, <1>10
    <3>3. QED
      BY <1>6, <3>1, <3>2
  <2>4. Boundary(Eof + 1) /\ Eof + 1 \in n..(Eof + 1) /\ Ended(Eof + 1)
    BY <1>1, <1>8, <2>3 DEF Ended
  <2>5. \A k \in n..((Eof + 1) - 1) : k \in n..Eof
    BY <1>1
  <2>6. CallSound(d, n)
    BY <2>1, <2>2, <2>4, <2>5 DEF CallSound
  <2>7. QED
    BY <2>6 DEF d
<1>11. CASE ~(s > Eof \/ (s = Eof /\ ~input.eol /\ Lines[s] # "broken"))
  <2>1. s \in 1..Eof /\ s \in n..Eof /\ Lines[s] # "blank"
    BY <1>1, <1>2, <1>9, <1>11
  <2>2. CASE Lines[s] = "broken"
    <3>1. d.err = "readError" /\ d.next = s
      BY <1>3, <1>11, <2>2 DEF Fail
    <3> HIDE DEF d
    <3>2. Boundary(s)
      BY <1>6, <1>8, <1>9
    <3>3. Wrong
      BY <1>5, <2>1, <2>2 DEF JSONWrong
    <3>4. CallSound(d, n)
      BY <1>2, <1>7, <3>1, <3>2, <3>3 DEF CallSound
    <3>5. QED
      BY <3>4 DEF d
  <2>3. CASE Lines[s] # "broken"
    <3>1. \A j \in 1..s : Lines[j] # "broken"
      <4> SUFFICES ASSUME NEW j \in 1..s PROVE Lines[j] # "broken"
        OBVIOUS
      <4>1. j \in 1..(s - 1) \/ j = s
        BY <2>1
      <4>2. QED
        BY <1>6, <2>3, <4>1
    <3>2. s \in Readable
      <4>1. s < Eof \/ input.eol
        BY <1>1, <1>11, <2>1, <2>3
      <4>2. QED
        BY <2>1, <3>1, <4>1 DEF Readable
    <3>3. /\ s + 1 \in n..(Eof + 1) /\ s + 1 \in 1..(Eof + 1)
          /\ (s + 1) - 1 = s
          /\ \A k \in n..s : k \in n..(s - 1) \/ k = s
          /\ s \in n..s
      BY <1>1, <2>1
    <3>4. Boundary(s + 1)
      BY <1>8, <3>1, <3>3
    <3>5. CASE Lines[s] # "target"
      <4>1. d.err = "badTarget" /\ d.next = s + 1
        BY <1>3, <1>11, <2>3, <3>5 DEF Fail
      <4> HIDE DEF d
      <4>2. Wrong
        BY <1>5, <2>1, <3>2, <3>5 DEF JSONWrong
      <4>3. s \notin Given
        BY <1>5, <3>5 DEF JSONGiven
      <4>4. \A k \in n..((s + 1) - 1) : k \notin Given
        BY <1>7, <3>3, <4>3
      <4>5. CallSound(d, n)
        BY <3>3, <3>4, <4>1, <4>2, <4>4 DEF CallSound
      <4>6. QED
        BY <4>5 DEF d
    <3>6. CASE Lines[s] = "target"
      <4>1. /\ d.err = "nil" /\ d.next = s + 1
            /\ d.tgt = [line |-> s, body |-> s,
                        header |-> [own |-> <<s>>, view |-> FALSE]]
        BY <1>3, <1>11, <2>3, <3>6
      <4> HIDE DEF d
      <4>2. s \in Given /\ ~WrongAt(s)
        BY <1>5, <2>3, <3>2, <3>6 DEF JSONGiven
      <4>3. d.tgt = TargetAt(s, FALSE)
        BY <4>1 DEF TargetAt, OwnOf, BodyOf
      <4>4. d.tgt.line = s /\ d.tgt.header.view = FALSE
        BY <4>1
      <4>5. d.tgt \in GivenTargets
        <5>1. PICK v \in BOOLEAN : v = FALSE
          OBVIOUS
        <5>2. d.tgt = TargetAt(s, v) /\ d.tgt.header.view = v
          BY <4>3, <4>4, <5>1
        <5>3. d.tgt \in {TargetAt(x, w) : x \in Given, w \in BOOLEAN}
          BY <4>2, <5>2
        <5>4. ~d.tgt.header.view
          BY <5>1, <5>2
        <5>5. QED
          BY <5>3, <5>4 DEF GivenTargets
      <4>6. \A k \in n..((s + 1) - 1) : (k \in Given => k = s) /\ ~WrongAt(k)
        BY <1>7, <3>3, <4>2
      <4>7. CallSound(d, n)
        BY <3>3, <3>4, <4>1, <4>4, <4>5, <4>6 DEF CallSound
      <4>8. QED
        BY <4>7 DEF d
    <3>7. QED
      BY <3>5, <3>6
  <2>4. QED
    BY <2>2, <2>3
<1>12. QED
  BY <1>10, <1>11

(* A call of either.                                                       *)
LEMMA Call ==
  ASSUME input \in Inputs, CommentsClear, NEW n, Boundary(n)
  PROVE  CallSound(Targeter(n), n)
<1>1. input.format = "http" \/ input.format = "json"
  BY LinesFacts
<1>2. QED
  BY <1>1, HTTPCall, JSONCall DEF Targeter

(* Where a reader found the end, nothing more is given.                    *)
LEMMA GivenBefore ==
  ASSUME input \in Inputs, NEW n \in 1..(Eof + 1), Ended(n)
  PROVE  {s \in Given : s < n} = Given
<1>1. Eof \in Nat /\ (input.format = "http" \/ input.format = "json")
  BY LinesFacts
<1>2. \A s \in Given : s \in 1..Eof
  BY DEF Given, HTTPGiven, JSONGiven, Readable
<1>3. \A s \in n..Eof : s \notin Given
  <2> SUFFICES ASSUME NEW s \in n..Eof PROVE s \notin Given
    OBVIOUS
  <2>1. CASE input.format = "http"
    BY <2>1, NothingAfter DEF Given
  <2>2. CASE input.format = "json"
    <3>1. Lines[n] = "broken" /\ n \in 1..s
      BY <1>1 DEF Ended
    <3>2. s \notin Readable
      BY <3>1 DEF Readable
    <3>3. QED
      BY <2>2, <3>2 DEF Given, JSONGiven
  <2>3. QED
    BY <1>1, <2>1, <2>2
<1>4. \A s \in Given : s < n
  <2> SUFFICES ASSUME NEW s \in Given PROVE s < n
    OBVIOUS
  <2>1. s \in 1..Eof /\ s \notin n..Eof
    BY <1>2, <1>3
  <2>2. QED
    BY <1>1, <2>1
<1>5. QED
  BY <1>4

(* The file is wrong at one of its lines.                                  *)
LEMMA WrongSomewhere ==
  ASSUME input \in Inputs, \A k \in 1..Eof : ~WrongAt(k)
  PROVE  ~Wrong
<1>1. input.format = "http" \/ input.format = "json"
  BY LinesFacts
<1>2. CASE input.format = "http"
  BY <1>2 DEF Wrong, WrongAt, HTTPWrong
<1>3. CASE input.format = "json"
  <2>1. \A k \in Readable : k \in 1..Eof
    BY DEF Readable
  <2>2. QED
    BY <1>3, <2>1 DEF Wrong, WrongAt, JSONWrong
<1>4. QED
  BY <1>1, <1>2, <1>3

(* A line read after the others keeps a list in order.                     *)
LEMMA ListsAppend ==
  ASSUME NEW S \in SUBSET Int, NEW x \in Int, NEW ls \in Seq(Int), Lists(ls, S),
         \A y \in S : y < x
  PROVE  Lists(Append(ls, x), S \cup {x})
<1> DEFINE m == Append(ls, x)
<1>1. /\ Len(ls) \in Nat /\ DOMAIN ls = 1..Len(ls)
      /\ DOMAIN m = 1..(Len(ls) + 1)
      /\ \A k \in 1..Len(ls) : m[k] = ls[k]
      /\ m[Len(ls) + 1] = x
  OBVIOUS
<1>2. \A k \in 1..Len(ls) : ls[k] \in S
  BY <1>1 DEF Lists, ToSet
<1>3. \A y \in S : \E k \in 1..Len(ls) : ls[k] = y
  BY <1>1 DEF Lists, ToSet
<1> HIDE DEF m
<1>4. ToSet(m) = S \cup {x}
  <2>1. \A k \in DOMAIN m : m[k] \in S \cup {x}
    <3> SUFFICES ASSUME NEW k \in DOMAIN m PROVE m[k] \in S \cup {x}
      OBVIOUS
    <3>1. k \in 1..Len(ls) \/ k = Len(ls) + 1
      BY <1>1
    <3>2. QED
      BY <1>1, <1>2, <3>1
  <2>2. \A y \in S : \E k \in DOMAIN m : m[k] = y
    <3> SUFFICES ASSUME NEW y \in S PROVE \E k \in DOMAIN m : m[k] = y
      OBVIOUS
    <3>1. PICK k \in 1..Len(ls) : ls[k] = y
      BY <1>3
    <3>2. k \in DOMAIN m /\ m[k] = y
      BY <1>1, <3>1
    <3>3. QED
      BY <3>2
  <2>3. Len(ls) + 1 \in DOMAIN m /\ m[Len(ls) + 1] = x
    BY <1>1
  <2>4. QED
    BY <2>1, <2>2, <2>3 DEF ToSet
<1>5. \A j, k \in DOMAIN m : j < k => m[j] < m[k]
  <2> SUFFICES ASSUME NEW j \in DOMAIN m, NEW k \in DOMAIN m, j < k PROVE m[j] < m[k]
    OBVIOUS
  <2>1. j \in 1..Len(ls)
    BY <1>1
  <2>2. CASE k \in 1..Len(ls)
    <3>1. ls[j] < ls[k]
      BY <1>1, <2>1, <2>2 DEF Lists
    <3>2. QED
      BY <1>1, <2>1, <2>2, <3>1
  <2>3. CASE k = Len(ls) + 1
    BY <1>1, <1>2, <2>1, <2>3
  <2>4. QED
    BY <1>1, <2>2, <2>3
<1>6. Lists(m, S \cup {x})
  BY <1>4, <1>5 DEF Lists
<1>7. QED
  BY <1>6 DEF m

-----------------------------------------------------------------------------
(* The lines of the targets read, as TargetsInOrder has them.              *)
ReadLines(ts) == [k \in DOMAIN ts |-> ts[k].line]

(* A reader that is at line n has read what is given before it.            *)
GivenUpTo(n) == {s \in Given : s < n}

(* What is in hand: places of the reader, targets of the file.             *)
HandsInv ==
  /\ input \in Inputs
  /\ CommentsClear
  /\ Boundary(next)
  /\ phase \in {"reading", "attacking", "refused"}
  /\ tgts \in Seq(GivenTargets)
  /\ handed \in Seq(Int)
  /\ pc \in [Hits -> {"ready", "picked", "failed", "made"}]
  /\ tgt \in [Hits -> GivenTargets \cup {NoTarget}]
  /\ \A h \in Hits : pc[h] = "picked" => tgt[h] \in GivenTargets
  /\ Spare = 0 => spare = <<>>

(* With -lazy the hits share the reader: what it has passed is handed out. *)
LazyInv ==
  input.lazy => phase = "attacking" /\ Lists(handed, GivenUpTo(next))

(* ReadAllTargets comes first: it has read the targets it has passed and   *)
(* passed no error; the static targeter then counts what it hands out.     *)
EagerInv ==
  ~input.lazy =>
    /\ i = Len(handed) - 1
    /\ phase = "reading" =>
         /\ handed = <<>>
         /\ Lists(ReadLines(tgts), GivenUpTo(next))
         /\ \A k \in 1..(next - 1) : ~WrongAt(k)
    /\ phase = "attacking" =>
         /\ tgts # <<>>
         /\ Lists(ReadLines(tgts), Given)
         /\ ~Wrong
         /\ \A n \in DOMAIN handed :
              handed[n] = tgts[((n - 1) % Len(tgts)) + 1].line
    /\ phase = "refused" => Wrong \/ Given = {}

(* Every request is for a given target and has its body; it has its header *)
(* too where no two targets share an array of values.                      *)
MadeInv ==
  \A r \in made :
    /\ r.line \in Given
    /\ r.body = BodyOf(r.line)
    /\ Spare = 0 \/ input.format = "json" => r.values = OwnOf(r.line)

TargetsInv == HandsInv /\ LazyInv /\ EagerInv /\ MadeInv

(* It holds of every file whose comments are clear.                        *)
FileInv == input \in Inputs /\ (CommentsClear => TargetsInv)

-----------------------------------------------------------------------------
(* Only the file decides what it says, and no step changes the file.       *)
ModeOf(lines) ==
  LET mode[k \in 1..(Len(lines) + 1)] ==
        IF k = 1 THEN "out" ELSE After(mode[k - 1], lines[k - 1])
  IN mode

LEMMA SameFile ==
  ASSUME input' = input
  PROVE  /\ Lines' = Lines /\ Eof' = Eof /\ Mode' = Mode
         /\ Given' = Given /\ Wrong' = Wrong
         /\ CommentsClear' = CommentsClear
         /\ GivenTargets' = GivenTargets
         /\ \A k : WrongAt(k)' = WrongAt(k)
         /\ \A s : OwnOf(s)' = OwnOf(s) /\ BodyOf(s)' = BodyOf(s)
<1>1. Lines' = Lines
  BY DEF Lines
<1>2. Eof' = Eof
  BY <1>1 DEF Eof
<1>3. Mode' = Mode
  <2>1. Mode = ModeOf(Lines)
    BY DEF Mode, ModeOf, Eof
  <2>2. Mode' = ModeOf(Lines')
    BY DEF Mode, ModeOf, Eof
  <2>3. QED
    BY <1>1, <2>1, <2>2
<1>4. \A k : StartOf(k)' = StartOf(k)
  <2> TAKE k
  <2> DEFINE S == {s \in 1..(k - 1) : Lines[s] \in Starts /\ Mode[s] # "in"}
  <2>1. S' = S
    BY <1>1, <1>3
  <2>2. StartOf(k) = IF \/ Mode[k] \in {"out", "lost"}
                        \/ Mode[k] = "fresh" /\ Lines[k] \in Methods
                     THEN 0 ELSE Max(S)
    BY DEF StartOf
  <2>3. StartOf(k)' = IF \/ Mode'[k] \in {"out", "lost"}
                         \/ Mode'[k] = "fresh" /\ Lines'[k] \in Methods
                      THEN 0 ELSE Max(S')
    BY DEF StartOf
  <2> HIDE DEF S
  <2>4. QED
    BY <1>1, <1>3, <2>1, <2>2, <2>3
<1>5. \A s : Belonging(s)' = Belonging(s)
  BY <1>2, <1>4 DEF Belonging
<1>6. \A s : OwnValues(s)' = OwnValues(s)
  <2> TAKE s
  <2> DEFINE A == {k \in Belonging(s) : Lines[k] \in {"header", "target", "badurl"}}
  <2>1. A' = A
    BY <1>1, <1>5
  <2>2. OwnValues(s) = InOrder(A) /\ OwnValues(s)' = InOrder(A')
    BY DEF OwnValues
  <2> HIDE DEF A
  <2>3. QED
    BY <2>1, <2>2
<1>7. \A s : OwnBody(s)' = OwnBody(s)
  <2> TAKE s
  <2> DEFINE A == {k \in Belonging(s) : Lines[k] = "body"}
  <2>1. A' = A
    BY <1>1, <1>5
  <2>2. /\ OwnBody(s) = IF A = {} THEN 0 ELSE Max(A)
        /\ OwnBody(s)' = IF A' = {} THEN 0 ELSE Max(A')
    BY DEF OwnBody
  <2> HIDE DEF A
  <2>3. QED
    BY <2>1, <2>2
<1>8. \A k : Bad(k)' = Bad(k)
  BY <1>1, <1>3 DEF Bad
<1>9. HTTPGiven' = HTTPGiven
  BY <1>1, <1>2, <1>3, <1>5, <1>8 DEF HTTPGiven
<1>10. HTTPWrong' = HTTPWrong
  BY <1>2, <1>8 DEF HTTPWrong
<1>11. Readable' = Readable
  BY <1>1, <1>2 DEF Readable
<1>12. JSONGiven' = JSONGiven
  BY <1>1, <1>11 DEF JSONGiven
<1>13. JSONWrong' = JSONWrong
  BY <1>1, <1>2, <1>11 DEF JSONWrong
<1>14. Given' = Given /\ Wrong' = Wrong
  BY <1>9, <1>10, <1>12, <1>13 DEF Given, Wrong
<1>15. \A k : WrongAt(k)' = WrongAt(k)
  BY <1>1, <1>8, <1>11 DEF WrongAt
<1>16. \A s : OwnOf(s)' = OwnOf(s) /\ BodyOf(s)' = BodyOf(s)
  BY <1>6, <1>7 DEF OwnOf, BodyOf
<1>17. GivenTargets' = GivenTargets
  <2>1. \A s, v : TargetAt(s, v)' = TargetAt(s, v)
    BY <1>16 DEF TargetAt
  <2> DEFINE A == {TargetAt(s, v) : s \in Given, v \in BOOLEAN}
  <2>2. A' = A
    BY <1>14, <2>1
  <2>3. GivenTargets = {t \in A : t.header.view =>
                          input.format = "http" /\ (Spare = 0 => t.header.own = <<>>)}
    BY DEF GivenTargets
  <2>4. GivenTargets' = {t \in A' : t.header.view =>
                           input'.format = "http" /\ (Spare = 0 => t.header.own = <<>>)}
    BY DEF GivenTargets
  <2> HIDE DEF A
  <2>5. QED
    BY <2>2, <2>3, <2>4
<1>18. CommentsClear' = CommentsClear
  BY <1>1, <1>2, <1>3 DEF CommentsClear
<1>19. QED
  BY <1>1, <1>2, <1>3, <1>14, <1>15, <1>16, <1>17, <1>18

(* The lines of the targets read grow with them.                           *)
LEMMA ReadLinesFacts ==
  ASSUME NEW T, \A t \in T : t.line \in Int, NEW ts \in Seq(T)
  PROVE  /\ ReadLines(ts) \in Seq(Int)
         /\ Len(ReadLines(ts)) = Len(ts)
         /\ \A k \in 1..Len(ts) : ReadLines(ts)[k] = ts[k].line
         /\ \A t \in T : ReadLines(Append(ts, t)) = Append(ReadLines(ts), t.line)
<1>1. Len(ts) \in Nat /\ DOMAIN ts = 1..Len(ts) /\ \A k \in 1..Len(ts) : ts[k] \in T
  OBVIOUS
<1>2. ReadLines(ts) = [k \in 1..Len(ts) |-> ts[k].line]
  BY <1>1 DEF ReadLines
<1>3. /\ ReadLines(ts) \in Seq(Int)
      /\ Len(ReadLines(ts)) = Len(ts)
      /\ \A k \in 1..Len(ts) : ReadLines(ts)[k] = ts[k].line
  BY <1>1, <1>2
<1>4. ASSUME NEW t \in T
      PROVE  ReadLines(Append(ts, t)) = Append(ReadLines(ts), t.line)
  <2> DEFINE us == Append(ts, t)
             rs == ReadLines(us)
             ws == Append(ReadLines(ts), t.line)
  <2>1. /\ DOMAIN us = 1..(Len(ts) + 1)
        /\ us[Len(ts) + 1] = t
        /\ \A k \in 1..Len(ts) : us[k] = ts[k]
    BY <1>1
  <2>2. rs = [k \in DOMAIN us |-> us[k].line]
    BY DEF ReadLines
  <2>3. /\ ws \in Seq(Int)
        /\ DOMAIN ws = 1..(Len(ts) + 1)
        /\ ws[Len(ts) + 1] = t.line
        /\ \A k \in 1..Len(ts) : ws[k] = ts[k].line
    BY <1>1, <1>3
  <2> HIDE DEF us, rs, ws
  <2>4. \A k \in 1..(Len(ts) + 1) : rs[k] = ws[k]
    <3> SUFFICES ASSUME NEW k \in 1..(Len(ts) + 1) PROVE rs[k] = ws[k]
      OBVIOUS
    <3>1. k \in 1..Len(ts) \/ k = Len(ts) + 1
      BY <1>1
    <3>2. rs[k] = us[k].line
      BY <2>1, <2>2
    <3>3. QED
      BY <2>1, <2>3, <3>1, <3>2
  <2>5. rs = ws
    <3>1. ws = [k \in 1..(Len(ts) + 1) |-> ws[k]]
      BY <2>3
    <3>2. rs = [k \in 1..(Len(ts) + 1) |-> rs[k]]
      BY <2>1, <2>2
    <3>3. QED
      BY <2>4, <3>1, <3>2
  <2>6. QED
    BY <2>5 DEF us, rs, ws
<1>5. QED
  BY <1>3, <1>4

LEMMA GivenTargetsFacts ==
  ASSUME input \in Inputs, NEW t \in GivenTargets
  PROVE  /\ t.line \in Given /\ t.line \in Int
         /\ t.header.own = OwnOf(t.line) /\ t.body = BodyOf(t.line)
         /\ t.header.view => input.format = "http" /\ (Spare = 0 => OwnOf(t.line) = <<>>)
<1>1. PICK s \in Given, v \in BOOLEAN : t = TargetAt(s, v)
  BY DEF GivenTargets
<1>2. t.line = s /\ t.header.own = OwnOf(s) /\ t.body = BodyOf(s)
  BY <1>1 DEF TargetAt
<1>3. t.header.view => input.format = "http" /\ (Spare = 0 => t.header.own = <<>>)
  BY DEF GivenTargets
<1>4. \A x \in Given : x \in Int
  BY DEF Given, HTTPGiven, JSONGiven, Readable
<1>5. QED
  BY <1>2, <1>3, <1>4

(* What a call passes is what it returns.                                  *)
LEMMA NextGiven ==
  ASSUME input \in Inputs, NEW n, Boundary(n), NEW d, CallSound(d, n)
  PROVE  /\ d.err = "nil" => /\ GivenUpTo(d.next) = GivenUpTo(n) \cup {d.tgt.line}
                             /\ \A s \in GivenUpTo(n) : s < d.tgt.line
         /\ d.err # "nil" => GivenUpTo(d.next) = GivenUpTo(n)
         /\ GivenUpTo(n) \in SUBSET Int
<1>1. /\ n \in 1..(Eof + 1) /\ Eof \in Nat /\ d.next \in n..(Eof + 1)
      /\ \A s \in Given : s \in Int
  BY LinesFacts DEF Boundary, CallSound, Given, HTTPGiven, JSONGiven, Readable
<1>2. ASSUME NEW s \in Given PROVE s < d.next <=> s < n \/ s \in n..(d.next - 1)
  BY <1>1
<1>3. ASSUME d.err = "nil"
      PROVE  /\ GivenUpTo(d.next) = GivenUpTo(n) \cup {d.tgt.line}
             /\ \A s \in GivenUpTo(n) : s < d.tgt.line
  <2>1. /\ d.tgt \in GivenTargets
        /\ d.tgt.line \in n..(d.next - 1)
        /\ \A s \in n..(d.next - 1) : s \in Given => s = d.tgt.line
    BY <1>3 DEF CallSound
  <2>2. d.tgt.line \in Given
    BY <2>1, GivenTargetsFacts
  <2>3. \A s \in Given : s < d.next <=> s < n \/ s = d.tgt.line
    BY <1>2, <2>1
  <2>4. GivenUpTo(d.next) = GivenUpTo(n) \cup {d.tgt.line}
    BY <2>2, <2>3 DEF GivenUpTo
  <2>5. \A s \in GivenUpTo(n) : s < d.tgt.line
    BY <1>1, <2>1 DEF GivenUpTo
  <2>6. QED
    BY <2>4, <2>5
<1>4. ASSUME d.err # "nil" PROVE GivenUpTo(d.next) = GivenUpTo(n)
  <2>1. \A s \in n..(d.next - 1) : s \notin Given
    BY <1>4 DEF CallSound
  <2>2. \A s \in Given : s < d.next <=> s < n
    BY <1>2, <2>1
  <2>3. QED
    BY <2>2 DEF GivenUpTo
<1>5. GivenUpTo(n) \in SUBSET Int
  BY <1>1 DEF GivenUpTo
<1>6. QED
  BY <1>3, <1>4, <1>5

-----------------------------------------------------------------------------
(* The inductive step, one lemma per action.                               *)
LEMMA InitTargets == Init /\ CommentsClear => TargetsInv
<1> SUFFICES ASSUME Init, CommentsClear PROVE TargetsInv
  OBVIOUS
<1> USE DEF Init
<1>1. Eof \in Nat
  BY LinesFacts
<1>2. Boundary(next)
  <2>1. Mode[1] = "out"
    BY ModeFacts
  <2>2. 1 \in 1..(Eof + 1) /\ \A k \in 1..(1 - 1) : FALSE
    BY <1>1
  <2>3. QED
    BY <2>1, <2>2 DEF Boundary
<1>3. HandsInv
  <2>1. Spare = 0 => spare = <<>>
    OBVIOUS
  <2>2. phase \in {"reading", "attacking", "refused"}
    OBVIOUS
  <2>3. tgts \in Seq(GivenTargets) /\ handed \in Seq(Int)
    OBVIOUS
  <2>4. /\ pc \in [Hits -> {"ready", "picked", "failed", "made"}]
        /\ tgt \in [Hits -> GivenTargets \cup {NoTarget}]
        /\ \A h \in Hits : pc[h] = "picked" => tgt[h] \in GivenTargets
    OBVIOUS
  <2>5. QED
    BY <1>2, <2>1, <2>2, <2>3, <2>4 DEF HandsInv
<1>4. Lists(<<>>, GivenUpTo(next))
  <2>1. \A s \in Given : s \in 1..Eof
    BY DEF Given, HTTPGiven, JSONGiven, Readable
  <2>2. GivenUpTo(next) = {}
    BY <1>1, <2>1 DEF GivenUpTo
  <2>3. ToSet(<<>>) = {} /\ DOMAIN <<>> = {}
    BY DEF ToSet
  <2>4. QED
    BY <2>2, <2>3 DEF Lists
<1>5. LazyInv
  BY <1>4 DEF LazyInv
<1>6. EagerInv
  <2>1. ReadLines(<<>>) = <<>>
    BY DEF ReadLines
  <2>2. \A k \in 1..(next - 1) : ~WrongAt(k)
    OBVIOUS
  <2>3. Len(handed) = 0
    OBVIOUS
  <2>4. QED
    BY <1>4, <2>1, <2>2, <2>3 DEF EagerInv
<1>7. MadeInv
  BY DEF MadeInv
<1>8. QED
  BY <1>3, <1>5, <1>6, <1>7 DEF TargetsInv

(* What a step that calls the targeter has of it.                          *)
LEMMA CallStep ==
  ASSUME HandsInv, NEW d, d = Targeter(next), input' = input, next' = d.next,
         spare' = Written(d.own)
  PROVE  /\ CallSound(d, next)
         /\ Boundary(next)'
         /\ Spare = 0 => spare' = <<>>
         /\ d.err = "nil" => /\ d.tgt \in GivenTargets /\ d.tgt.line \in Int
                             /\ GivenUpTo(next)' = GivenUpTo(next) \cup {d.tgt.line}
                             /\ \A s \in GivenUpTo(next) : s < d.tgt.line
         /\ d.err # "nil" => GivenUpTo(next)' = GivenUpTo(next)
         /\ GivenUpTo(next) \in SUBSET Int
<1>1. input \in Inputs /\ CommentsClear /\ Boundary(next)
  BY DEF HandsInv
<1>2. CallSound(d, next)
  BY <1>1, Call
<1>3. Boundary(d.next)
  BY <1>2 DEF CallSound
<1>4. Boundary(next)'
  <2>1. Lines' = Lines /\ Eof' = Eof /\ Mode' = Mode
    BY SameFile
  <2>2. QED
    BY <1>3, <2>1 DEF Boundary, Ended
<1>5. GivenUpTo(next)' = GivenUpTo(d.next)
  BY SameFile DEF GivenUpTo
<1>6. Spare = 0 => spare' = <<>>
  BY DEF Written
<1>7. d.err = "nil" => d.tgt \in GivenTargets
  BY <1>2 DEF CallSound
<1>8. d.err = "nil" => d.tgt.line \in Int
  BY <1>1, <1>7, GivenTargetsFacts
<1>9. QED
  BY <1>1, <1>2, <1>4, <1>5, <1>6, <1>7, <1>8, NextGiven

(* What a step that leaves them alone keeps.                               *)
LEMMA MadeKept ==
  ASSUME MadeInv, input' = input, made' = made
  PROVE  MadeInv'
<1>1. /\ Given' = Given /\ input'.format = input.format
      /\ \A s : OwnOf(s)' = OwnOf(s) /\ BodyOf(s)' = BodyOf(s)
  BY SameFile
<1>2. QED
  BY <1>1 DEF MadeInv

LEMMA ReadStep ==
  ASSUME TargetsInv, ReadAllTargets
  PROVE  TargetsInv'
<1> DEFINE d == Targeter(next)
<1>1. /\ phase = "reading"
      /\ next' = d.next
      /\ spare' = Written(d.own)
      /\ tgts' = IF d.err = "nil" THEN Append(tgts, d.tgt) ELSE tgts
      /\ phase' = CASE d.err = "nil" -> "reading"
                    [] d.err = "ErrNoTargets" /\ tgts # <<>> -> "attacking"
                    [] OTHER -> "refused"
      /\ UNCHANGED <<input, i, pc, tgt, handed, made>>
  BY DEF ReadAllTargets
<1>2. HandsInv /\ LazyInv /\ EagerInv /\ MadeInv
  BY DEF TargetsInv
<1> HIDE DEF d
<1>3. /\ CallSound(d, next)
      /\ Boundary(next)'
      /\ Spare = 0 => spare' = <<>>
      /\ d.err = "nil" => /\ d.tgt \in GivenTargets /\ d.tgt.line \in Int
                          /\ GivenUpTo(next)' = GivenUpTo(next) \cup {d.tgt.line}
                          /\ \A s \in GivenUpTo(next) : s < d.tgt.line
      /\ d.err # "nil" => GivenUpTo(next)' = GivenUpTo(next)
      /\ GivenUpTo(next) \in SUBSET Int
  BY <1>1, <1>2, CallStep DEF d
<1>4. /\ Eof' = Eof /\ Given' = Given /\ Wrong' = Wrong
      /\ CommentsClear' = CommentsClear
      /\ GivenTargets' = GivenTargets
      /\ \A k : WrongAt(k)' = WrongAt(k)
  BY <1>1, SameFile
<1>5. /\ input \in Inputs /\ tgts \in Seq(GivenTargets) /\ Eof \in Nat
      /\ next \in 1..(Eof + 1)
  BY <1>2, LinesFacts DEF HandsInv, Boundary
<1>6. HandsInv'
  <2>1. tgts' \in Seq(GivenTargets)
    BY <1>1, <1>3, <1>5
  <2>2. phase' \in {"reading", "attacking", "refused"}
    BY <1>1
  <2>3. QED
    BY <1>1, <1>2, <1>3, <1>4, <2>1, <2>2 DEF HandsInv
<1>7. LazyInv'
  <2>1. ~input.lazy
    BY <1>1, <1>2 DEF LazyInv
  <2>2. QED
    BY <1>1, <2>1 DEF LazyInv
<1>8. EagerInv'
  <2>1. /\ ~input.lazy /\ i = Len(handed) - 1 /\ handed = <<>>
        /\ Lists(ReadLines(tgts), GivenUpTo(next))
        /\ \A k \in 1..(next - 1) : ~WrongAt(k)
    BY <1>1, <1>2 DEF LazyInv, EagerInv
  <2>2. i' = Len(handed') - 1 /\ handed' = <<>> /\ ~input'.lazy
    BY <1>1, <2>1
  <2>3. \A t \in GivenTargets : t.line \in Int
    BY <1>5, GivenTargetsFacts
  <2>4. CASE d.err = "nil"
    <3>1. phase' = "reading" /\ tgts' = Append(tgts, d.tgt)
      BY <1>1, <2>4
    <3>2. Lists(ReadLines(tgts'), GivenUpTo(next)')
      <4>1. ReadLines(tgts) \in Seq(Int)
        BY <1>5, <2>3, ReadLinesFacts
      <4>2. ReadLines(tgts') = Append(ReadLines(tgts), d.tgt.line)
        BY <1>3, <1>5, <2>3, <2>4, <3>1, ReadLinesFacts
      <4>3. Lists(Append(ReadLines(tgts), d.tgt.line), GivenUpTo(next) \cup {d.tgt.line})
        BY <1>3, <2>1, <2>4, <4>1, ListsAppend
      <4>4. QED
        BY <1>3, <2>4, <4>2, <4>3
    <3>3. \A k \in 1..(next' - 1) : ~WrongAt(k)'
      <4> SUFFICES ASSUME NEW k \in 1..(next' - 1) PROVE ~WrongAt(k)
        BY <1>4
      <4>1. d.next \in next..(Eof + 1) /\ \A x \in next..(d.next - 1) : ~WrongAt(x)
        BY <1>3, <2>4 DEF CallSound
      <4>2. k \in 1..(next - 1) \/ k \in next..(d.next - 1)
        BY <1>1, <1>5, <4>1
      <4>3. QED
        BY <2>1, <4>1, <4>2
    <3>4. QED
      BY <2>2, <3>1, <3>2, <3>3 DEF EagerInv
  <2>5. CASE d.err = "ErrNoTargets"
    <3>1. phase' = (IF tgts # <<>> THEN "attacking" ELSE "refused") /\ tgts' = tgts
      BY <1>1, <2>5
    <3>2. Ended(d.next) /\ d.next \in 1..(Eof + 1) /\ \A k \in next..Eof : ~WrongAt(k)
      BY <1>3, <1>5, <2>5 DEF CallSound
    <3>3. Lists(ReadLines(tgts), Given)
      <4>1. {s \in Given : s < d.next} = Given
        BY <1>5, <3>2, GivenBefore
      <4>2. GivenUpTo(next)' = {s \in Given' : s < next'}
        BY DEF GivenUpTo
      <4>3. GivenUpTo(next) = Given
        BY <1>1, <1>3, <1>4, <2>5, <4>1, <4>2
      <4>4. QED
        BY <2>1, <4>3
    <3>4. ~Wrong
      <4>1. \A k \in 1..Eof : k \in 1..(next - 1) \/ k \in next..Eof
        BY <1>5
      <4>2. \A k \in 1..Eof : ~WrongAt(k)
        BY <2>1, <3>2, <4>1
      <4>3. QED
        BY <1>5, <4>2, WrongSomewhere
    <3>5. tgts = <<>> => Given = {}
      <4>1. ReadLines(<<>>) = <<>> /\ ToSet(<<>>) = {}
        BY DEF ReadLines, ToSet
      <4>2. QED
        BY <3>3, <4>1 DEF Lists
    <3>6. QED
      BY <1>4, <2>2, <3>1, <3>3, <3>4, <3>5 DEF EagerInv
  <2>6. CASE d.err \notin {"nil", "ErrNoTargets"}
    <3>1. phase' = "refused"
      BY <1>1, <2>6
    <3>2. Wrong
      BY <1>3, <2>6 DEF CallSound
    <3>3. QED
      BY <1>4, <2>2, <3>1, <3>2 DEF EagerInv
  <2>7. QED
    BY <2>4, <2>5, <2>6
<1>9. MadeInv'
  BY <1>1, <1>2, MadeKept
<1>10. QED
  BY <1>6, <1>7, <1>8, <1>9 DEF TargetsInv

LEMMA DecodeStep ==
  ASSUME TargetsInv, NEW h \in Hits, phase = "attacking", Decode(h),
         UNCHANGED <<input, phase, tgts, made>>
  PROVE  TargetsInv'
<1> DEFINE d == Targeter(next)
<1>1. /\ input.lazy /\ next' = d.next
      /\ spare' = Written(d.own)
      /\ pc' = [pc EXCEPT ![h] = IF d.err = "nil" THEN "picked" ELSE "failed"]
      /\ tgt' = [tgt EXCEPT ![h] = IF d.err = "nil" THEN d.tgt ELSE NoTarget]
      /\ handed' = IF d.err = "nil" THEN Append(handed, d.tgt.line) ELSE handed
      /\ i' = i
  BY DEF Decode
<1>2. HandsInv /\ LazyInv /\ EagerInv /\ MadeInv
  BY DEF TargetsInv
<1> HIDE DEF d
<1>3. /\ Boundary(next)'
      /\ Spare = 0 => spare' = <<>>
      /\ d.err = "nil" => /\ d.tgt \in GivenTargets /\ d.tgt.line \in Int
                          /\ GivenUpTo(next)' = GivenUpTo(next) \cup {d.tgt.line}
                          /\ \A s \in GivenUpTo(next) : s < d.tgt.line
      /\ d.err # "nil" => GivenUpTo(next)' = GivenUpTo(next)
      /\ GivenUpTo(next) \in SUBSET Int
  BY <1>1, <1>2, CallStep DEF d
<1>4. GivenTargets' = GivenTargets /\ CommentsClear' = CommentsClear
  BY SameFile
<1>5. HandsInv'
  <2>1. handed' \in Seq(Int)
    BY <1>1, <1>2, <1>3 DEF HandsInv
  <2>2. /\ pc' \in [Hits -> {"ready", "picked", "failed", "made"}]
        /\ tgt' \in [Hits -> GivenTargets \cup {NoTarget}]
        /\ \A g \in Hits : pc'[g] = "picked" => tgt'[g] \in GivenTargets
    BY <1>1, <1>2, <1>3 DEF HandsInv
  <2>3. QED
    BY <1>2, <1>3, <1>4, <2>1, <2>2 DEF HandsInv
<1>6. LazyInv'
  <2>1. Lists(handed, GivenUpTo(next)) /\ handed \in Seq(Int)
    BY <1>1, <1>2 DEF LazyInv, HandsInv
  <2>2. Lists(handed', GivenUpTo(next)')
    <3>1. CASE d.err = "nil"
      <4>1. Lists(Append(handed, d.tgt.line), GivenUpTo(next) \cup {d.tgt.line})
        BY <1>3, <2>1, <3>1, ListsAppend
      <4>2. QED
        BY <1>1, <1>3, <3>1, <4>1
    <3>2. CASE d.err # "nil"
      BY <1>1, <1>3, <2>1, <3>2
    <3>3. QED
      BY <3>1, <3>2
  <2>3. QED
    BY <2>2 DEF LazyInv
<1>7. EagerInv'
  BY <1>1 DEF EagerInv
<1>8. MadeInv'
  BY <1>2, MadeKept
<1>9. QED
  BY <1>5, <1>6, <1>7, <1>8 DEF TargetsInv

LEMMA StaticStep ==
  ASSUME TargetsInv, NEW h \in Hits, phase = "attacking", StaticTargeter(h),
         UNCHANGED <<input, phase, tgts, made>>
  PROVE  TargetsInv'
<1> DEFINE t == tgts[((i + 1) % Len(tgts)) + 1]
<1>1. /\ ~input.lazy /\ i' = i + 1
      /\ pc' = [pc EXCEPT ![h] = "picked"]
      /\ tgt' = [tgt EXCEPT ![h] = t]
      /\ handed' = Append(handed, t.line)
      /\ next' = next /\ spare' = spare
  BY DEF StaticTargeter
<1>2. HandsInv /\ LazyInv /\ EagerInv /\ MadeInv
  BY DEF TargetsInv
<1>3. /\ Lines' = Lines /\ Eof' = Eof /\ Mode' = Mode
      /\ Given' = Given /\ Wrong' = Wrong /\ GivenTargets' = GivenTargets
      /\ CommentsClear' = CommentsClear
  BY SameFile
<1>4. /\ input \in Inputs /\ tgts \in Seq(GivenTargets) /\ handed \in Seq(Int)
      /\ i = Len(handed) - 1 /\ tgts # <<>>
      /\ Lists(ReadLines(tgts), Given) /\ ~Wrong
      /\ \A n \in DOMAIN handed : handed[n] = tgts[((n - 1) % Len(tgts)) + 1].line
  BY <1>1, <1>2 DEF HandsInv, EagerInv
<1>5. i \in Int /\ i + 1 = Len(handed) /\ Len(handed) \in Nat /\ Len(tgts) \in Nat /\ Len(tgts) > 0
  BY <1>4
<1>6. ((i + 1) % Len(tgts)) + 1 \in 1..Len(tgts)
  <2>1. \A a \in Nat, b \in Nat : b > 0 => (a % b) + 1 \in 1..b
    OBVIOUS
  <2>2. QED
    BY <1>5, <2>1
<1>7. t \in GivenTargets
  BY <1>4, <1>6
<1>8. t.line \in Int
  BY <1>4, <1>7, GivenTargetsFacts
<1> HIDE DEF t
<1>9. HandsInv'
  <2>1. Boundary(next)'
    BY <1>1, <1>2, <1>3 DEF HandsInv, Boundary, Ended
  <2>2. handed' \in Seq(Int)
    BY <1>1, <1>4, <1>8
  <2>3. /\ pc' \in [Hits -> {"ready", "picked", "failed", "made"}]
        /\ tgt' \in [Hits -> GivenTargets \cup {NoTarget}]
        /\ \A g \in Hits : pc'[g] = "picked" => tgt'[g] \in GivenTargets
    BY <1>1, <1>2, <1>7 DEF HandsInv
  <2>4. QED
    BY <1>1, <1>2, <1>3, <2>1, <2>2, <2>3 DEF HandsInv
<1>10. LazyInv'
  BY <1>1 DEF LazyInv
<1>11. EagerInv'
  <2>1. /\ Len(handed') = Len(handed) + 1
        /\ DOMAIN handed' = 1..(Len(handed) + 1)
        /\ DOMAIN handed = 1..Len(handed)
        /\ \A n \in 1..Len(handed) : handed'[n] = handed[n]
        /\ handed'[Len(handed) + 1] = t.line
    BY <1>1, <1>4, <1>8
  <2>2. i' = Len(handed') - 1
    BY <1>1, <1>5, <2>1
  <2>3. ASSUME NEW n \in DOMAIN handed'
        PROVE  handed'[n] = tgts[((n - 1) % Len(tgts)) + 1].line
    <3>1. CASE n \in 1..Len(handed)
      BY <1>4, <2>1, <3>1
    <3>2. CASE n = Len(handed) + 1
      <4>1. n - 1 = i + 1
        BY <1>5, <3>2
      <4>2. t.line = tgts[((n - 1) % Len(tgts)) + 1].line
        BY <4>1 DEF t
      <4>3. QED
        BY <2>1, <3>2, <4>2
    <3>3. QED
      BY <1>5, <2>1, <3>1, <3>2
  <2>4. tgts' = tgts /\ phase' = "attacking"
    OBVIOUS
  <2>5. QED
    BY <1>3, <1>4, <2>2, <2>3, <2>4 DEF EagerInv
<1>12. MadeInv'
  BY <1>2, MadeKept
<1>13. QED
  BY <1>9, <1>10, <1>11, <1>12 DEF TargetsInv

LEMMA RequestStep ==
  ASSUME TargetsInv, NEW h \in Hits, Request(h)
  PROVE  TargetsInv'
<1> DEFINE t == tgt[h]
           vs == IF t.header.view THEN SubSeq(spare, 1, Len(t.header.own))
                 ELSE t.header.own
           r == [line |-> t.line, values |-> vs, body |-> t.body]
<1>1. /\ pc[h] = "picked"
      /\ made' = made \cup {r}
      /\ pc' = [pc EXCEPT ![h] = "made"]
      /\ tgt' = [tgt EXCEPT ![h] = NoTarget]
      /\ UNCHANGED <<input, next, phase, tgts, i, spare, handed>>
  BY DEF Request
<1>2. HandsInv /\ LazyInv /\ EagerInv /\ MadeInv
  BY DEF TargetsInv
<1>3. /\ Lines' = Lines /\ Eof' = Eof /\ Mode' = Mode
      /\ Given' = Given /\ Wrong' = Wrong /\ GivenTargets' = GivenTargets
      /\ CommentsClear' = CommentsClear
      /\ \A k : WrongAt(k)' = WrongAt(k)
      /\ \A s : OwnOf(s)' = OwnOf(s) /\ BodyOf(s)' = BodyOf(s)
  BY <1>1, SameFile
<1>4. t \in GivenTargets /\ input \in Inputs /\ (Spare = 0 => spare = <<>>)
  BY <1>1, <1>2 DEF HandsInv
<1>5. HandsInv'
  <2>1. Boundary(next)'
    BY <1>1, <1>2, <1>3 DEF HandsInv, Boundary, Ended
  <2>2. /\ pc' \in [Hits -> {"ready", "picked", "failed", "made"}]
        /\ tgt' \in [Hits -> GivenTargets \cup {NoTarget}]
        /\ \A g \in Hits : pc'[g] = "picked" => tgt'[g] \in GivenTargets
    BY <1>1, <1>2 DEF HandsInv
  <2>3. QED
    BY <1>1, <1>2, <1>3, <2>1, <2>2 DEF HandsInv
<1>6. GivenUpTo(next)' = GivenUpTo(next)
  BY <1>1, <1>3 DEF GivenUpTo
<1>7. LazyInv'
  BY <1>1, <1>2, <1>6 DEF LazyInv
<1>8. EagerInv'
  BY <1>1, <1>2, <1>3, <1>6 DEF EagerInv
<1>9. MadeInv'
  <2>1. /\ t.line \in Given
        /\ t.header.own = OwnOf(t.line) /\ t.body = BodyOf(t.line)
        /\ t.header.view => input.format = "http" /\ (Spare = 0 => OwnOf(t.line) = <<>>)
    BY <1>4, GivenTargetsFacts
  <2>2. /\ r.line = t.line /\ r.body = t.body /\ r.values = vs
    OBVIOUS
  <2>3. Spare = 0 \/ input.format = "json" => vs = OwnOf(t.line)
    <3>1. CASE ~t.header.view
      BY <2>1, <3>1
    <3>2. CASE t.header.view
      <4> SUFFICES ASSUME Spare = 0 PROVE vs = OwnOf(t.line)
        BY <2>1, <3>2
      <4>1. OwnOf(t.line) = <<>> /\ t.header.own = <<>> /\ spare = <<>>
        BY <1>4, <2>1, <3>2
      <4>2. Len(t.header.own) = 0
        BY <4>1
      <4>3. vs = SubSeq(spare, 1, 0)
        BY <3>2, <4>2
      <4>4. SubSeq(<<>>, 1, 0) = <<>>
        OBVIOUS
      <4>5. QED
        BY <4>1, <4>3, <4>4
    <3>3. QED
      BY <3>1, <3>2
  <2> HIDE DEF t, vs, r
  <2>4. /\ r.line \in Given
        /\ r.body = BodyOf(r.line)
        /\ Spare = 0 \/ input.format = "json" => r.values = OwnOf(r.line)
    BY <2>1, <2>2, <2>3
  <2>5. \A q \in made' : q \in made \/ q = r
    BY <1>1
  <2>6. QED
    BY <1>1, <1>2, <1>3, <2>4, <2>5 DEF MadeInv
<1>10. QED
  BY <1>5, <1>7, <1>8, <1>9 DEF TargetsInv

LEMMA IdleStep ==
  ASSUME TargetsInv, UNCHANGED vars
  PROVE  TargetsInv'
<1>1. UNCHANGED <<input, next, phase, tgts, i, spare, pc, tgt, handed, made>>
  BY DEF vars
<1>2. HandsInv /\ LazyInv /\ EagerInv /\ MadeInv
  BY DEF TargetsInv
<1>3. /\ Lines' = Lines /\ Eof' = Eof /\ Mode' = Mode
      /\ Given' = Given /\ Wrong' = Wrong /\ GivenTargets' = GivenTargets
      /\ CommentsClear' = CommentsClear
      /\ \A k : WrongAt(k)' = WrongAt(k)
  BY <1>1, SameFile
<1>4. GivenUpTo(next)' = GivenUpTo(next)
  BY <1>1, <1>3 DEF GivenUpTo
<1>5. HandsInv'
  <2>1. Boundary(next)'
    BY <1>1, <1>2, <1>3 DEF HandsInv, Boundary, Ended
  <2>2. QED
    BY <1>1, <1>2, <1>3, <2>1 DEF HandsInv
<1>6. LazyInv' /\ EagerInv'
  BY <1>1, <1>2, <1>3, <1>4 DEF LazyInv, EagerInv
<1>7. MadeInv'
  BY <1>1, <1>2, MadeKept
<1>8. QED
  BY <1>5, <1>6, <1>7 DEF TargetsInv

(* NewHTTPTargeter, NewJSONTargeter, ReadAllTargets and NewStaticTargeter  *)
(* keep the inductive invariant: the shared reader stands between targets, *)
(* what it has passed is what was read or handed out, and every target in  *)
(* hand is one of the file's.                                              *)
THEOREM TargetsInvariant == Spec => []FileInv
<1>1. TargetsInv /\ [Next]_vars => TargetsInv'
  <2> SUFFICES ASSUME TargetsInv, [Next]_vars PROVE TargetsInv'
    OBVIOUS
  <2>1. CASE ReadAllTargets
    BY <2>1, ReadStep
  <2>2. ASSUME NEW h \in Hits, Pick(h) PROVE TargetsInv'
    <3>1. phase = "attacking" /\ UNCHANGED <<input, phase, tgts, made>>
      BY <2>2 DEF Pick
    <3>2. CASE Decode(h)
      BY <3>1, <3>2, DecodeStep
    <3>3. CASE StaticTargeter(h)
      BY <3>1, <3>3, StaticStep
    <3>4. QED
      BY <2>2, <3>2, <3>3 DEF Pick
  <2>3. ASSUME NEW h \in Hits, Request(h) PROVE TargetsInv'
    BY <2>3, RequestStep
  <2>4. CASE UNCHANGED vars
    BY <2>4, IdleStep
  <2>5. QED
    BY <2>1, <2>2, <2>3, <2>4 DEF Next, Finished
<1>2. [Next]_vars => input' = input
  BY DEF Next, ReadAllTargets, Pick, Request, Finished, vars
<1>3. Init => FileInv
  BY InitTargets DEF Init, FileInv
<1>4. FileInv /\ [Next]_vars => FileInv'
  <2> SUFFICES ASSUME FileInv, [Next]_vars PROVE FileInv'
    OBVIOUS
  <2>1. input' = input /\ CommentsClear' = CommentsClear
    BY <1>2, SameFile
  <2>2. CommentsClear => TargetsInv'
    BY <1>1 DEF FileInv
  <2>3. QED
    BY <2>1, <2>2 DEF FileInv
<1>5. QED
  BY <1>3, <1>4, PTL DEF Spec

(* For every file whose comments are clear, default header and set of      *)
(* hits: with -lazy the hits are handed the targets that the file says, in *)
(* its order and each once; read eagerly by ReadAllTargets they are handed *)
(* out in turn by NewStaticTargeter, and a file is refused exactly for an  *)
(* error or for want of a target.                                          *)
THEOREM TargetsHandedInOrder == Spec => []TargetsInOrder
<1>1. FileInv => TargetsInOrder
  <2> SUFFICES ASSUME FileInv, CommentsClear PROVE CommentsIgnored
    BY DEF TargetsInOrder
  <2>1. HandsInv /\ LazyInv /\ EagerInv
    BY DEF FileInv, TargetsInv
  <2>2. /\ input \in Inputs /\ next \in 1..(Eof + 1)
        /\ tgts \in Seq(GivenTargets) /\ handed \in Seq(Int)
    BY <2>1 DEF HandsInv, Boundary
  <2>3. ASSUME input.lazy
        PROVE  /\ \E n \in 1..(Eof + 1) : Lists(handed, {s \in Given : s < n})
               /\ Ended(next) => Lists(handed, Given)
    <3>1. Lists(handed, {s \in Given : s < next})
      BY <2>1, <2>3 DEF LazyInv, GivenUpTo
    <3>2. Ended(next) => {s \in Given : s < next} = Given
      BY <2>2, GivenBefore
    <3>3. QED
      BY <2>2, <3>1, <3>2
  <2>4. ASSUME ~input.lazy, phase = "attacking"
        PROVE  LET read == [k \in DOMAIN tgts |-> tgts[k].line]
               IN /\ ~Wrong
                  /\ Lists(read, Given)
                  /\ \A n \in DOMAIN handed :
                       handed[n] = read[((n - 1) % Len(read)) + 1]
    <3> DEFINE read == [k \in DOMAIN tgts |-> tgts[k].line]
    <3>1. /\ ~Wrong /\ Lists(ReadLines(tgts), Given) /\ tgts # <<>>
          /\ \A n \in DOMAIN handed : handed[n] = tgts[((n - 1) % Len(tgts)) + 1].line
      BY <2>1, <2>4 DEF EagerInv
    <3>2. read = ReadLines(tgts)
      BY DEF ReadLines
    <3> HIDE DEF read
    <3>3. \A t \in GivenTargets : t.line \in Int
      BY <2>2, GivenTargetsFacts
    <3>4. Len(read) = Len(tgts) /\ \A k \in 1..Len(tgts) : read[k] = tgts[k].line
      BY <2>2, <3>2, <3>3, ReadLinesFacts
    <3>5. ASSUME NEW n \in DOMAIN handed
          PROVE  handed[n] = read[((n - 1) % Len(read)) + 1]
      <4>1. n - 1 \in Nat /\ Len(tgts) \in Nat /\ Len(tgts) > 0
        <5>1. n - 1 \in Nat
          BY <2>2
        <5>2. tgts # <<>>
          BY <3>1
        <5>3. Len(tgts) \in Nat /\ Len(tgts) > 0
          BY <2>2, <5>2
        <5>4. QED
          BY <5>1, <5>3
      <4>2. \A a \in Nat, b \in Nat : b > 0 => (a % b) + 1 \in 1..b
        OBVIOUS
      <4>3. ((n - 1) % Len(tgts)) + 1 \in 1..Len(tgts)
        BY <4>1, <4>2
      <4>4. QED
        BY <3>1, <3>4, <4>3
    <3>6. QED
      BY <3>1, <3>2, <3>5 DEF read
  <2>5. ~input.lazy /\ phase = "refused" => Wrong \/ Given = {}
    BY <2>1 DEF EagerInv
  <2>6. QED
    BY <2>3, <2>4, <2>5 DEF CommentsIgnored
<1>2. QED
  BY <1>1, TargetsInvariant, PTL

(* Target.Request builds requests only for targets that the file says,     *)
(* each with the body of its own; and with its own header values too, if   *)
(* the append in NewHTTPTargeter never finds room in the array that the    *)
(* targets share (the JSON targeter shares none), whatever other hits      *)
(* decode meanwhile.                                                       *)
THEOREM RequestsRight ==
  Spec => /\ [](CommentsClear =>
                  \A r \in made : r.line \in Given /\ r.body = BodyOf(r.line))
          /\ [](Spare = 0 \/ input.format = "json" => RequestsFaithful)
<1>1. FileInv => (CommentsClear =>
                   \A r \in made : r.line \in Given /\ r.body = BodyOf(r.line))
  BY DEF FileInv, TargetsInv, MadeInv
<1>2. FileInv => (Spare = 0 \/ input.format = "json" => RequestsFaithful)
  BY DEF FileInv, TargetsInv, MadeInv, RequestsFaithful, OwnOf, BodyOf
<1>3. QED
  BY <1>1, <1>2, TargetsInvariant, PTL

=============================================================================
