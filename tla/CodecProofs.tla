---------------------------- MODULE CodecProofs -----------------------------
(***************************************************************************)
(* The wire formats for every packet, handshake and reply: any 64-bit      *)
(* value, names and bodies of any length, any widths of bytes and words;   *)
(* client ids with hashes of any length and host names of any parts.       *)
(***************************************************************************)
EXTENDS MCCodec, SequenceTheorems, FiniteSetTheorems, NaturalsInduction, WellFoundedInduction, TLAPS

(* Induction up to n, for the members of a set. *)
LEMMA UpTo ==
  ASSUME NEW n \in Nat, NEW S, 0 \in S, \A i \in 0..(n - 1) : i \in S => i + 1 \in S
  PROVE  \A i \in 0..n : i \in S
<1> DEFINE T == {i \in 0..n : i \notin S}
           R == OpToRel(<, Nat)
<1> SUFFICES ASSUME T # {}
             PROVE  FALSE
  OBVIOUS
<1>1. PICK x \in T : \A y \in T : ~(<<y, x>> \in R)
  <2>1. T # {} /\ T \subseteq Nat
    OBVIOUS
  <2>2. IsWellFoundedOn(R, Nat)
    BY NatLessThanWellFounded, Zenon
  <2> HIDE DEF T, R
  <2> QED
    BY <2>1, <2>2, WFMin
<1>2. x - 1 \in T /\ x \in Nat /\ x - 1 \in Nat
  OBVIOUS
<1>3. <<x - 1, x>> \in R
  BY <1>2 DEF OpToRel
<1> QED
  BY <1>1, <1>2, <1>3

(* A set of numbers has a least one. *)
LEMMA MinIs ==
  ASSUME NEW S \in SUBSET Nat, S # {}
  PROVE  Min(S) \in S /\ \A y \in S : Min(S) <= y
<1> DEFINE R == OpToRel(<, Nat)
<1>1. IsWellFoundedOn(R, Nat)
  BY NatLessThanWellFounded, Zenon
<1>2. PICK x \in S : \A y \in S : ~(<<y, x>> \in R)
  <2> HIDE DEF R
  <2> QED
    BY <1>1, WFMin
<1>3. ASSUME NEW y \in S
      PROVE  x <= y
  <2>1. y < x => <<y, x>> \in R
    BY DEF OpToRel
  <2> HIDE DEF R
  <2> QED
    BY <1>2, <2>1
<1> QED
  BY <1>2, <1>3, Zenon DEF Min

LEMMA MaxIs ==
  ASSUME NEW S \in SUBSET Nat, NEW x \in S, \A y \in S : y <= x
  PROVE  Max(S) = x
<1>1. Max(S) \in S /\ \A y \in S : Max(S) >= y
  <2>1. \E z \in S : \A y \in S : z >= y
    OBVIOUS
  <2> QED
    BY <2>1, Zenon DEF Max
<1>2. Max(S) \in Nat /\ x \in Nat /\ Max(S) <= x /\ Max(S) >= x
  BY <1>1
<1> QED
  BY <1>2

(* A number is what its division leaves. *)
LEMMA DivMod ==
  ASSUME NEW x \in Nat, NEW b \in Nat \ {0}
  PROVE  x = b * (x \div b) + (x % b) /\ x \div b \in Nat /\ x % b \in 0..(b - 1)
<1>1. x \in Int /\ b \in Int /\ b > 0
  OBVIOUS
<1>2. x = b * (x \div b) + (x % b)
  BY ONLY <1>1, Z3
<1> QED
  BY <1>2

(* step takes an index and the value before it to the value there. *)
IsStep(step, n, S) == step \in [(1..n) \X S -> S]

(* f goes through n steps from base. *)
Runs(f, n, S, base, step) ==
  /\ f \in [0..n -> S]
  /\ f[0] = base
  /\ \A i \in 1..n : f[i] = step[<<i, f[i - 1]>>]

(* A function may be defined by a step from each index to the next. *)
LEMMA StepsExist ==
  ASSUME NEW n \in Nat, NEW S, NEW base \in S, NEW step, IsStep(step, n, S)
  PROVE  \E f : Runs(f, n, S, base, step)
<1> DEFINE T == {m \in 0..n : \E f : Runs(f, m, S, base, step)}
<1>1. 0 \in T
  <2> DEFINE f == [i \in 0..0 |-> base]
  <2>1. Runs(f, 0, S, base, step)
    BY DEF Runs
  <2> HIDE DEF f
  <2> QED
    BY <2>1
<1>2. ASSUME NEW m \in 0..(n - 1), m \in T
      PROVE  m + 1 \in T
  <2>1. PICK f : Runs(f, m, S, base, step)
    BY <1>2
  <2> DEFINE e == [i \in 0..(m + 1) |-> IF i = m + 1 THEN step[<<m + 1, f[m]>>] ELSE f[i]]
  <2>2. step[<<m + 1, f[m]>>] \in S
    <3>1. <<m + 1, f[m]>> \in (1..n) \X S
      BY <2>1 DEF Runs
    <3> QED
      BY <3>1 DEF IsStep
  <2>3. e \in [0..(m + 1) -> S]
    BY <2>1, <2>2 DEF Runs
  <2>4. /\ \A i \in 0..m : e[i] = f[i]
        /\ e[m + 1] = step[<<m + 1, f[m]>>]
    OBVIOUS
  <2> HIDE DEF e
  <2>5. e[0] = base
    BY <2>1, <2>4 DEF Runs
  <2>6. ASSUME NEW i \in 1..(m + 1)
        PROVE  e[i] = step[<<i, e[i - 1]>>]
    <3>1. CASE i = m + 1
      BY <2>4, <3>1
    <3>2. CASE i # m + 1
      BY <2>1, <2>4, <3>2 DEF Runs
    <3> QED
      BY <3>1, <3>2
  <2>7. Runs(e, m + 1, S, base, step)
    BY <2>3, <2>5, <2>6 DEF Runs
  <2> QED
    BY <2>7
<1> HIDE DEF T
<1>3. n \in T
  BY <1>1, <1>2, UpTo
<1> QED
  BY <1>3 DEF T

(* f folds seq with step from base, over the sets of its indices up to n.  *)
Folds(f, n, S, base, seq, step) ==
  /\ f \in [SUBSET (1..n) -> S]
  /\ f[{}] = base
  /\ \A s \in SUBSET (1..n) : s # {} => f[s] = step[<<f[s \ {Max(s)}], seq[Max(s)]>>]

(* There is such a fold: each is made from the one before. *)
LEMMA FoldExists ==
  ASSUME NEW n \in Nat, NEW S, NEW base \in S, NEW T, NEW seq \in [1..n -> T],
         NEW step \in [S \X T -> S]
  PROVE  \E f : Folds(f, n, S, base, seq, step)
<1> DEFINE I == {i \in 0..n : \E f : Folds(f, i, S, base, seq, step)}
<1>1. 0 \in I
  <2> DEFINE f == [s \in SUBSET (1..0) |-> base]
  <2>1. \A s \in SUBSET (1..0) : s = {}
    OBVIOUS
  <2>2. Folds(f, 0, S, base, seq, step)
    BY <2>1 DEF Folds
  <2> HIDE DEF f
  <2> QED
    BY <2>2
<1>2. ASSUME NEW i \in 0..(n - 1), i \in I
      PROVE  i + 1 \in I
  <2>1. PICK f : Folds(f, i, S, base, seq, step)
    BY <1>2
  <2> DEFINE e == [s \in SUBSET (1..(i + 1)) |->
                     IF i + 1 \in s THEN step[<<f[s \ {i + 1}], seq[i + 1]>>] ELSE f[s]]
  <2>2. \A s \in SUBSET (1..i) : s \in SUBSET (1..(i + 1)) /\ i + 1 \notin s
    OBVIOUS
  <2>3. \A s \in SUBSET (1..i) : e[s] = f[s]
    BY <2>2
  <2>4. \A s \in SUBSET (1..(i + 1)) : s \ {i + 1} \in SUBSET (1..i)
    OBVIOUS
  <2>5. \A s \in SUBSET (1..(i + 1)) : i + 1 \notin s => s \in SUBSET (1..i)
    <3> SUFFICES ASSUME NEW s \in SUBSET (1..(i + 1)), i + 1 \notin s, NEW j \in s
                 PROVE  j \in 1..i
      OBVIOUS
    <3>1. j \in 1..(i + 1) /\ j # i + 1
      OBVIOUS
    <3> QED
      BY <3>1
  <2>6. e \in [SUBSET (1..(i + 1)) -> S]
    <3>1. ASSUME NEW s \in SUBSET (1..(i + 1)), i + 1 \in s
          PROVE  step[<<f[s \ {i + 1}], seq[i + 1]>>] \in S
      <4>1. f[s \ {i + 1}] \in S /\ seq[i + 1] \in T
        BY <2>1, <2>4 DEF Folds
      <4> QED
        BY <4>1
    <3>2. ASSUME NEW s \in SUBSET (1..(i + 1)), i + 1 \notin s
          PROVE  f[s] \in S
      BY <2>1, <2>5, <3>2 DEF Folds
    <3> QED
      BY <3>1, <3>2
  <2>7. ASSUME NEW s \in SUBSET (1..(i + 1)), i + 1 \in s
        PROVE  e[s] = step[<<f[s \ {i + 1}], seq[i + 1]>>]
    BY <2>7
  <2> HIDE DEF e
  <2>8. ASSUME NEW s \in SUBSET (1..(i + 1)), s # {}
        PROVE  e[s] = step[<<e[s \ {Max(s)}], seq[Max(s)]>>]
    <3>1. CASE i + 1 \in s
      <4>1. Max(s) = i + 1
        BY <3>1, MaxIs
      <4> QED
        BY <2>3, <2>4, <2>7, <3>1, <4>1
    <3>2. CASE i + 1 \notin s
      <4>1. s \in SUBSET (1..i)
        BY <2>5, <3>2
      <4>2. s \ {Max(s)} \in SUBSET (1..i)
        BY <4>1
      <4> QED
        BY <2>1, <2>3, <2>8, <4>1, <4>2 DEF Folds
    <3> QED
      BY <3>1, <3>2
  <2>9. {} \in SUBSET (1..i)
    OBVIOUS
  <2>10. Folds(e, i + 1, S, base, seq, step)
    BY <2>1, <2>3, <2>6, <2>8, <2>9 DEF Folds
  <2> QED
    BY <2>10
<1> HIDE DEF I
<1>3. \A i \in 0..n : i \in I
  BY <1>1, <1>2, UpTo
<1>4. n \in I
  BY <1>3
<1> QED
  BY <1>4 DEF I

(* Sets of first indices, through which a fold goes. *)
LEMMA FirstIndices ==
  ASSUME NEW n \in Nat, NEW i \in 1..n
  PROVE  /\ 1..i \in SUBSET (1..n) /\ 1..i # {} /\ Max(1..i) = i
         /\ (1..i) \ {i} = 1..(i - 1)
<1>1. 1..i \in SUBSET (1..n) /\ i \in 1..i /\ 1..i \in SUBSET Nat /\ \A j \in 1..i : j <= i
  OBVIOUS
<1>2. Max(1..i) = i
  BY <1>1, MaxIs
<1>3. (1..i) \ {i} = 1..(i - 1)
  OBVIOUS
<1> QED
  BY <1>1, <1>2, <1>3

(* The largest of some indices is one of them. *)
LEMMA MaxOf ==
  ASSUME NEW n \in Nat, NEW s \in SUBSET (1..n), s # {}
  PROVE  Max(s) \in s
<1> DEFINE D == {n - i : i \in s}
<1>1. D \in SUBSET Nat /\ D # {}
  <2>1. \A i \in s : n - i \in Nat
    OBVIOUS
  <2> QED
    BY <2>1
<1>2. Min(D) \in D /\ \A d \in D : Min(D) <= d
  <2> HIDE DEF D
  <2> QED
    BY <1>1, MinIs
<1>3. PICK x \in s : Min(D) = n - x
  BY <1>2
<1>4. \A y \in s : n - x <= n - y
  BY <1>2, <1>3
<1>5. \A y \in s : y <= x
  BY <1>4
<1> QED
  BY <1>5, MaxIs

(* g folds seq with step as long as its values are in S. *)
Follows(g, n, S, base, seq, step) ==
  /\ g[{}] = base
  /\ \A s \in SUBSET (1..n) : s # {} /\ g[s \ {Max(s)}] \in S =>
       g[s] = step[<<g[s \ {Max(s)}], seq[Max(s)]>>]

(* st goes through the elements of seq, from base to the result of a fold. *)
Goes(st, n, S, base, seq, step, result) ==
  /\ st \in [0..n -> S]
  /\ st[0] = base
  /\ \A i \in 1..n : st[i] = step[<<st[i - 1], seq[i]>>]
  /\ st[n] = result

LEMMA FoldGoes ==
  ASSUME NEW n \in Nat, NEW S, NEW base \in S, NEW T, NEW seq \in [1..n -> T],
         NEW step \in [S \X T -> S], NEW g, Follows(g, n, S, base, seq, step)
  PROVE  \E st : Goes(st, n, S, base, seq, step, g[1..n])
<1> DEFINE st == [i \in 0..n |-> g[1..i]]
           I == {i \in 0..n : g[1..i] \in S}
<1>1. 0 \in I /\ g[1..0] = base
  <2>1. 1..0 = {} /\ 0 \in 0..n
    OBVIOUS
  <2> QED
    BY <2>1 DEF Follows
<1>2. ASSUME NEW i \in 1..n, g[1..(i - 1)] \in S
      PROVE  g[1..i] = step[<<g[1..(i - 1)], seq[i]>>] /\ g[1..i] \in S
  <2>1. /\ 1..i \in SUBSET (1..n) /\ 1..i # {} /\ Max(1..i) = i
        /\ (1..i) \ {i} = 1..(i - 1)
    BY FirstIndices
  <2>2. g[1..i] = step[<<g[1..(i - 1)], seq[i]>>]
    BY <1>2, <2>1 DEF Follows
  <2> QED
    BY <1>2, <2>2
<1>3. ASSUME NEW i \in 0..(n - 1), i \in I
      PROVE  i + 1 \in I
  <2>1. i + 1 \in 1..n /\ (i + 1) - 1 = i /\ i + 1 \in 0..n
    OBVIOUS
  <2> QED
    BY <1>2, <1>3, <2>1
<1>4. \A i \in 0..n : g[1..i] \in S
  <2> HIDE DEF I
  <2>1. \A i \in 0..n : i \in I
    BY <1>1, <1>3, UpTo
  <2> QED
    BY <2>1 DEF I
<1>5. \A i \in 1..n : st[i] = step[<<st[i - 1], seq[i]>>]
  BY <1>2, <1>4
<1>6. st \in [0..n -> S] /\ st[0] = base /\ st[n] = g[1..n]
  BY <1>1, <1>4
<1> HIDE DEF st
<1>7. Goes(st, n, S, base, seq, step, g[1..n])
  BY <1>5, <1>6 DEF Goes
<1> QED
  BY <1>7
----------------------------------------------------------------------------
(***************************************************************************)
(* Varints.                                                                *)
(***************************************************************************)

(* Shifting drops the lowest group, once for each index. *)
LEMMA ShiftedIs ==
  ASSUME NEW v \in Nat
  PROVE  /\ Shifted(v) \in [0..MaxGroups -> Nat]
         /\ Shifted(v)[0] = v
         /\ \A i \in 1..MaxGroups : Shifted(v)[i] = Shifted(v)[i - 1] \div Base
<1> DEFINE Is(g) == g = [n \in 0..MaxGroups |-> IF n = 0 THEN v ELSE g[n - 1] \div Base]
           step == [p \in (1..MaxGroups) \X Nat |-> p[2] \div Base]
<1>1. MaxGroups \in Nat /\ Base \in Nat \ {0}
  BY WireAssumption
<1>2. IsStep(step, MaxGroups, Nat)
  BY <1>1 DEF IsStep
<1>3. PICK f : Runs(f, MaxGroups, Nat, v, step)
  <2> HIDE DEF step
  <2> QED
    BY <1>1, <1>2, StepsExist
<1>4. ASSUME NEW i \in 1..MaxGroups
      PROVE  f[i] = f[i - 1] \div Base
  <2>1. <<i, f[i - 1]>> \in (1..MaxGroups) \X Nat
    BY <1>1, <1>3 DEF Runs
  <2> QED
    BY <1>3, <2>1 DEF Runs
<1>5. Is(f)
  BY <1>1, <1>3, <1>4 DEF Runs
<1>6. Shifted(v) = CHOOSE g : Is(g)
  BY DEF Shifted
<1>7. Is(Shifted(v))
  BY <1>5, <1>6
<1> DEFINE g == Shifted(v)
           T == {i \in 0..MaxGroups : g[i] \in Nat}
<1> HIDE DEF g
<1>8. /\ DOMAIN g = 0..MaxGroups /\ g[0] = v
      /\ \A i \in 1..MaxGroups : g[i] = g[i - 1] \div Base
      /\ g = [i \in 0..MaxGroups |-> g[i]]
  BY <1>1, <1>7 DEF g
<1>9. \A i \in 0..MaxGroups : i \in T
  <2>1. 0 \in T
    BY <1>1, <1>8
  <2>2. ASSUME NEW i \in 0..(MaxGroups - 1), i \in T
        PROVE  i + 1 \in T
    <3>1. i + 1 \in 1..MaxGroups /\ (i + 1) - 1 = i
      BY <1>1
    <3>2. g[i + 1] = g[i] \div Base
      BY <1>8, <3>1
    <3>3. g[i] \in Nat
      BY <2>2
    <3>4. \A x \in Nat : x \div Base \in Nat
      BY <1>1
    <3> QED
      BY <1>1, <3>1, <3>2, <3>3, <3>4
  <2> HIDE DEF T
  <2> QED
    BY <1>1, <2>1, <2>2, UpTo
<1>10. g \in [0..MaxGroups -> Nat]
  BY <1>8, <1>9
<1> QED
  BY <1>8, <1>10 DEF g

(* MaxGroups groups hold every 64-bit value, for they hold the largest. *)
LEMMA WordFits ==
  ASSUME NEW v \in 0..(Word - 1)
  PROVE  Shifted(v)[MaxGroups] = 0
<1> DEFINE g == Shifted(v)
           h == Shifted(Word - 1)
           T == {i \in 0..MaxGroups : g[i] <= h[i]}
<1>1. MaxGroups \in Nat /\ Base \in Nat \ {0} /\ v \in Nat /\ Word - 1 \in Nat /\ h[MaxGroups] = 0
  BY WireAssumption
<1>2. /\ g \in [0..MaxGroups -> Nat] /\ h \in [0..MaxGroups -> Nat]
      /\ g[0] = v /\ h[0] = Word - 1
      /\ \A i \in 1..MaxGroups : g[i] = g[i - 1] \div Base /\ h[i] = h[i - 1] \div Base
  BY <1>1, ShiftedIs
<1> HIDE DEF g, h
<1>3. 0 \in T
  BY <1>1, <1>2
<1>4. ASSUME NEW i \in 0..(MaxGroups - 1), i \in T
      PROVE  i + 1 \in T
  <2>1. g[i] \in Nat /\ h[i] \in Nat /\ g[i] <= h[i]
    BY <1>1, <1>2, <1>4
  <2>2. g[i + 1] = g[i] \div Base /\ h[i + 1] = h[i] \div Base
    BY <1>1, <1>2
  <2>3. \A a, b \in Nat : a <= b => a \div Base <= b \div Base
    BY <1>1
  <2> QED
    BY <1>1, <2>1, <2>2, <2>3
<1>5. MaxGroups \in T
  <2> HIDE DEF T
  <2> QED
    BY <1>1, <1>3, <1>4, UpTo
<1> QED
  BY <1>1, <1>2, <1>5 DEF g

(* A byte adds its group below those of the bytes after it. *)
Sums(sum, buf, first, last) ==
  /\ sum \in [0..(last - first + 1) -> Nat]
  /\ sum[0] = 0
  /\ \A n \in 1..(last - first + 1) :
       sum[n] = Base * sum[n - 1] + (buf[last - n + 1] % Base)
  /\ Grouped(buf, first, last) = sum[last - first + 1]

LEMMA GroupedIs ==
  ASSUME NEW buf \in Seq(Nat), NEW first \in Nat \ {0}, NEW last \in first..Len(buf)
  PROVE  \E sum : Sums(sum, buf, first, last)
<1> DEFINE m == last - first + 1
           Is(g) == g = [n \in 0..(last - first + 1) |->
                          IF n = 0 THEN 0 ELSE Base * g[n - 1] + (buf[last - n + 1] % Base)]
           step == [p \in (1..m) \X Nat |-> Base * p[2] + (buf[last - p[1] + 1] % Base)]
<1>1. m \in Nat /\ Base \in Nat \ {0}
  BY WireAssumption
<1>2. IsStep(step, m, Nat)
  <2>1. ASSUME NEW i \in 1..m, NEW x \in Nat
        PROVE  Base * x + (buf[last - i + 1] % Base) \in Nat
    <3>1. last - i + 1 \in 1..Len(buf)
      OBVIOUS
    <3>3. buf[last - i + 1] \in Nat
      BY <3>1
    <3>2. \A b \in Nat : b % Base \in Nat
      BY <1>1
    <3>4. buf[last - i + 1] % Base \in Nat
      BY <3>2, <3>3
    <3> QED
      BY <1>1, <3>4
  <2> HIDE DEF m
  <2> QED
    BY <2>1 DEF IsStep
<1>3. PICK f : Runs(f, m, Nat, 0, step)
  <2> HIDE DEF step, m
  <2> QED
    BY <1>1, <1>2, StepsExist
<1>4. ASSUME NEW i \in 1..m
      PROVE  f[i] = Base * f[i - 1] + (buf[last - i + 1] % Base)
  <2>1. <<i, f[i - 1]>> \in (1..m) \X Nat
    BY <1>1, <1>3 DEF Runs
  <2> QED
    BY <1>3, <2>1 DEF Runs
<1>5. Is(f)
  <2>1. f = [i \in 0..m |-> f[i]] /\ f[0] = 0
    BY <1>3, Zenon DEF Runs
  <2>2. ASSUME NEW i \in 0..m
        PROVE  f[i] = IF i = 0 THEN 0 ELSE Base * f[i - 1] + (buf[last - i + 1] % Base)
    <3>1. CASE i = 0
      BY <2>1, <3>1
    <3>2. CASE i # 0
      <4>1. i \in 1..m
        BY <1>1, <3>2
      <4> HIDE DEF m
      <4> QED
        BY <1>4, <3>2, <4>1
    <3> QED
      BY <3>1, <3>2
  <2> QED
    BY <2>1, <2>2, Zenon
<1> DEFINE G == CHOOSE g : Is(g)
<1>6. Grouped(buf, first, last) = G[m]
  BY DEF Grouped
<1>7. Is(G)
  BY <1>5
<1> HIDE DEF G
<1> DEFINE T == {i \in 0..m : G[i] = f[i]}
<1>8. /\ G[0] = 0
      /\ \A i \in 1..m : G[i] = Base * G[i - 1] + (buf[last - i + 1] % Base)
  BY <1>1, <1>7
<1>9. m \in T
  <2>1. 0 \in T
    BY <1>1, <1>3, <1>8 DEF Runs
  <2>2. ASSUME NEW i \in 0..(m - 1), i \in T
        PROVE  i + 1 \in T
    <3>1. i + 1 \in 1..m /\ (i + 1) - 1 = i
      BY <1>1
    <3>2. G[i + 1] = Base * G[i] + (buf[last - (i + 1) + 1] % Base)
      BY <1>8, <3>1
    <3>3. f[i + 1] = Base * f[i] + (buf[last - (i + 1) + 1] % Base)
      BY <1>4, <3>1
    <3> QED
      BY <2>2, <3>1, <3>2, <3>3
  <2> HIDE DEF T, m
  <2>3. \A i \in 0..m : i \in T
    BY <1>1, <2>1, <2>2, UpTo, Zenon
  <2> QED
    BY <1>1, <2>3
<1> QED
  <2>1. Sums(f, buf, first, last)
    BY <1>1, <1>3, <1>4, <1>6, <1>9 DEF Runs, Sums
  <2> QED
    BY <2>1

(* What is read is a 64-bit value, and reading goes on behind it. *)
LEMMA ReadFacts ==
  ASSUME NEW buf \in Seq(Nat), NEW pos \in Nat \ {0}, NEW r \in ReadUvarint(buf, pos)
  PROVE  /\ r.v \in 0..(Word - 1)
         /\ r.next \in (pos + 1)..(Len(buf) + 1)
         /\ ReadUvarint(buf, pos) = {r}
<1> DEFINE ends == {i \in pos..Len(buf) : buf[i] < Base}
           last == Min(ends)
           v == Grouped(buf, pos, last)
<1>1. /\ ends # {} /\ ~(v >= Word)
      /\ r = [v |-> v, next |-> last + 1]
      /\ ReadUvarint(buf, pos) = {[v |-> v, next |-> last + 1]}
  BY Zenon DEF ReadUvarint
<1>2. last \in pos..Len(buf)
  <2>1. ends \in SUBSET Nat
    OBVIOUS
  <2>2. last \in ends
    <3> HIDE DEF ends
    <3> QED
      BY <1>1, <2>1, MinIs
  <2> HIDE DEF last
  <2> QED
    BY <2>2
<1>3. v \in Nat
  <2> HIDE DEF last
  <2>1. PICK sum : Sums(sum, buf, pos, last)
    BY <1>2, GroupedIs
  <2>2. last - pos + 1 \in Nat
    BY <1>2
  <2> QED
    BY <2>1, <2>2 DEF Sums
<1> HIDE DEF v, last
<1>4. Word \in Nat
  BY WireAssumption
<1> QED
  BY <1>1, <1>2, <1>3, <1>4

(* A varint has up to MaxGroups bytes, and only the last is below Base. *)
LEMMA UvarintIs ==
  ASSUME NEW v \in 0..(Word - 1)
  PROVE  /\ Uvarint(v) \in Seq(Nat)
         /\ Len(Uvarint(v)) \in 1..MaxGroups
         /\ Shifted(v)[Len(Uvarint(v))] = 0
         /\ \A i \in 1..Len(Uvarint(v)) :
              /\ Uvarint(v)[i] % Base = Shifted(v)[i - 1] % Base
              /\ Uvarint(v)[i] < Base <=> i = Len(Uvarint(v))
<1> DEFINE ks == {k \in 1..MaxGroups : Shifted(v)[k] = 0}
           n == Min(ks)
<1>1. MaxGroups \in Nat \ {0} /\ Base \in Nat \ {0} /\ v \in Nat
  BY WireAssumption
<1>2. n \in ks
  <2>1. ks \in SUBSET Nat
    BY <1>1
  <2>2. MaxGroups \in ks
    BY <1>1, WordFits
  <2> HIDE DEF ks
  <2> QED
    BY <2>1, <2>2, MinIs
<1>3. n \in 1..MaxGroups /\ Shifted(v)[n] = 0
  <2> HIDE DEF n
  <2> QED
    BY <1>2
<1>4. Uvarint(v) = [i \in 1..n |-> (Shifted(v)[i - 1] % Base) + (IF i < n THEN Base ELSE 0)]
  BY DEF Uvarint
<1> HIDE DEF n
<1>5. ASSUME NEW i \in 1..n
      PROVE  Shifted(v)[i - 1] % Base \in 0..(Base - 1)
  <2>1. Shifted(v)[i - 1] \in Nat
    <3>1. i - 1 \in 0..MaxGroups
      BY <1>1, <1>3
    <3>2. Shifted(v) \in [0..MaxGroups -> Nat]
      BY <1>1, ShiftedIs
    <3> HIDE DEF n
    <3> QED
      BY <3>1, <3>2
  <2>2. \A x \in Nat : x % Base \in 0..(Base - 1)
    BY <1>1
  <2> QED
    BY <2>1, <2>2
<1>6. \A i \in 1..n : Uvarint(v)[i] \in Nat
  BY <1>1, <1>4, <1>5
<1>7. Uvarint(v) \in Seq(Nat) /\ Len(Uvarint(v)) = n
  BY <1>3, <1>4, <1>6
<1>8. ASSUME NEW i \in 1..n
      PROVE  /\ Uvarint(v)[i] % Base = Shifted(v)[i - 1] % Base
             /\ Uvarint(v)[i] < Base <=> i = n
  <2>1. \A x \in 0..(Base - 1) : x % Base = x /\ (x + Base) % Base = x /\ ~(x + Base < Base)
    BY <1>1
  <2> QED
    BY <1>1, <1>3, <1>4, <1>5, <2>1
<1> QED
  BY <1>3, <1>7, <1>8

(* A varint is read back, wherever it stands. *)
LEMMA ReadsBack ==
  ASSUME NEW v \in 0..(Word - 1), NEW buf \in Seq(Nat), NEW pos \in Nat \ {0},
         pos + Len(Uvarint(v)) <= Len(buf) + 1,
         \A i \in 1..Len(Uvarint(v)) : buf[pos + i - 1] = Uvarint(v)[i]
  PROVE  ReadUvarint(buf, pos) = {[v |-> v, next |-> pos + Len(Uvarint(v))]}
<1> DEFINE u == Uvarint(v)
           n == Len(u)
           s == Shifted(v)
           last == pos + n - 1
           ends == {i \in pos..Len(buf) : buf[i] < Base}
<1>1. MaxGroups \in Nat \ {0} /\ Base \in Nat \ {0} /\ v \in Nat
  BY WireAssumption
<1>2. /\ u \in Seq(Nat) /\ n \in 1..MaxGroups /\ s[n] = 0
      /\ \A i \in 1..n : u[i] % Base = s[i - 1] % Base /\ (u[i] < Base <=> i = n)
  BY UvarintIs
<1>3. /\ s \in [0..MaxGroups -> Nat] /\ s[0] = v
      /\ \A i \in 1..MaxGroups : s[i] = s[i - 1] \div Base
  BY <1>1, ShiftedIs
<1>4. /\ pos + n <= Len(buf) + 1
      /\ \A i \in 1..n : buf[pos + i - 1] = u[i]
  OBVIOUS
<1> HIDE DEF u, s
<1>5. n \in Nat
  BY <1>2
<1> HIDE DEF n
<1>6. last \in ends /\ \A i \in ends : last <= i
  <2>1. last \in ends
    <3>1. buf[pos + n - 1] = u[n] /\ u[n] < Base
      BY <1>2, <1>4
    <3>2. pos + n - 1 \in pos..Len(buf)
      BY <1>2, <1>4
    <3> QED
      BY <3>1, <3>2
  <2>2. ASSUME NEW i \in ends, i < last
        PROVE  FALSE
    <3>1. i - pos + 1 \in 1..n /\ i - pos + 1 # n
      BY <1>2, <2>2
    <3>2. buf[pos + (i - pos + 1) - 1] = u[i - pos + 1]
      BY <1>4, <3>1
    <3>3. pos + (i - pos + 1) - 1 = i
      OBVIOUS
    <3> QED
      BY <1>2, <3>1, <3>2, <3>3
  <2> QED
    BY <1>5, <2>1, <2>2
<1>7. Min(ends) = last
  <2>1. ends \in SUBSET Nat /\ ends # {}
    BY <1>6
  <2> HIDE DEF ends
  <2>2. Min(ends) \in ends /\ Min(ends) <= last
    BY <1>6, <2>1, MinIs
  <2>3. last <= Min(ends) /\ Min(ends) \in Nat /\ last \in Nat
    BY <1>6, <2>1, <2>2
  <2> QED
    BY <2>2, <2>3
<1>8. PICK sum : Sums(sum, buf, pos, last)
  <2>1. last \in pos..Len(buf)
    BY <1>6
  <2> HIDE DEF last
  <2> QED
    BY <2>1, GroupedIs
<1>9. /\ sum \in [0..n -> Nat] /\ sum[0] = 0
      /\ \A i \in 1..n : sum[i] = Base * sum[i - 1] + (buf[last - i + 1] % Base)
      /\ Grouped(buf, pos, last) = sum[n]
  <2>1. last - pos + 1 = n
    BY <1>5
  <2> HIDE DEF last
  <2> QED
    BY <1>8, <2>1 DEF Sums
<1> DEFINE T == {i \in 0..n : sum[i] = s[n - i]}
<1>10. 0 \in T
  BY <1>2, <1>9
<1>11. ASSUME NEW i \in 0..(n - 1), i \in T
       PROVE  i + 1 \in T
  <2>1. /\ n - i \in 1..n /\ i + 1 \in 1..n /\ (i + 1) - 1 = i /\ (n - i) - 1 = n - (i + 1)
        /\ n - i \in 1..MaxGroups /\ n - (i + 1) \in 0..MaxGroups
    BY <1>1, <1>2, <1>5
  <2>2. buf[last - (i + 1) + 1] = u[n - i]
    <3>1. last - (i + 1) + 1 = pos + (n - i) - 1
      BY <1>5
    <3> QED
      BY <1>4, <2>1, <3>1
  <2>3. sum[i + 1] = Base * sum[i] + (u[n - i] % Base)
    BY <1>9, <2>1, <2>2
  <2>4. s[n - (i + 1)] \in Nat
    BY <1>3, <2>1
  <2>5. s[n - i] = s[n - (i + 1)] \div Base /\ u[n - i] % Base = s[n - (i + 1)] % Base
    BY <1>2, <1>3, <2>1
  <2>6. s[n - (i + 1)] = Base * (s[n - (i + 1)] \div Base) + (s[n - (i + 1)] % Base)
    BY <1>1, <2>4, DivMod
  <2>7. sum[i] = s[n - i]
    BY <1>11
  <2>8. sum[i + 1] = s[n - (i + 1)]
    BY <2>3, <2>5, <2>6, <2>7
  <2> QED
    BY <1>5, <2>1, <2>8
<1>12. sum[n] = v
  <2> HIDE DEF T
  <2>1. \A i \in 0..n : i \in T
    BY <1>5, <1>10, <1>11, UpTo
  <2>2. n \in T
    BY <1>5, <2>1
  <2> USE DEF T
  <2> QED
    BY <1>3, <1>5, <2>2
<1>13. ReadUvarint(buf, pos)
         = IF ends = {} THEN {}
           ELSE IF Min(ends) - pos >= MaxGroups \/ Grouped(buf, pos, Min(ends)) >= Word THEN {}
           ELSE {[v |-> Grouped(buf, pos, Min(ends)), next |-> Min(ends) + 1]}
  BY Zenon DEF ReadUvarint
<1>14. ends # {}
  BY <1>6
<1>15. ~(last - pos >= MaxGroups) /\ ~(v >= Word) /\ last + 1 = pos + n
  BY <1>1, <1>2, WireAssumption
<1>16. Grouped(buf, pos, Min(ends)) = v
  <2> HIDE DEF ends
  <2> QED
    BY <1>7, <1>9, <1>12
<1> HIDE DEF ends, last
<1>17. ReadUvarint(buf, pos) = {[v |-> v, next |-> last + 1]}
  BY <1>7, <1>13, <1>14, <1>15, <1>16, Zenon
<1> QED
  BY <1>15, <1>17 DEF n, u
----------------------------------------------------------------------------
(***************************************************************************)
(* Names and messages.                                                     *)
(***************************************************************************)

(* part stands in buf at pos. *)
At(part, buf, pos) ==
  /\ pos + Len(part) <= Len(buf) + 1
  /\ \A i \in 1..Len(part) : buf[pos + i - 1] = part[i]

(* What stands in s stands at the same place in buf. *)
Keeps(buf, s) ==
  \A part \in Seq(Nat), pos \in Nat \ {0} : At(part, s, pos) => At(part, buf, pos)

(* What stands in a buffer stays there when bytes are appended, and they   *)
(* stand behind it.                                                        *)
LEMMA Appended ==
  ASSUME NEW s \in Seq(Nat), NEW t \in Seq(Nat)
  PROVE  /\ s \o t \in Seq(Nat) /\ Len(s \o t) = Len(s) + Len(t)
         /\ At(s, s \o t, 1)
         /\ At(t, s \o t, Len(s) + 1)
         /\ Keeps(s \o t, s)
<1>1. /\ s \o t \in Seq(Nat) /\ Len(s \o t) = Len(s) + Len(t)
      /\ \A i \in 1..(Len(s) + Len(t)) : (s \o t)[i] = IF i <= Len(s) THEN s[i] ELSE t[i - Len(s)]
  BY ConcatProperties
<1>2. Len(s) \in Nat /\ Len(t) \in Nat
  OBVIOUS
<1> DEFINE st == s \o t
<1> HIDE DEF st
<1>3. At(s, st, 1)
  BY <1>1, <1>2 DEF At, st
<1>4. At(t, st, Len(s) + 1)
  BY <1>1, <1>2 DEF At, st
<1>5. ASSUME NEW part \in Seq(Nat), NEW pos \in Nat \ {0}, At(part, s, pos)
      PROVE  At(part, st, pos)
  <2>1. ASSUME NEW i \in 1..Len(part)
        PROVE  pos + i - 1 \in 1..Len(s) /\ s[pos + i - 1] = part[i]
    <3>1. Len(part) \in Nat /\ pos + Len(part) <= Len(s) + 1 /\ s[pos + i - 1] = part[i]
      BY <1>5 DEF At
    <3> QED
      BY <1>2, <3>1
  <2>2. \A i \in 1..Len(s) : st[i] = s[i]
    BY <1>1, <1>2 DEF st
  <2>3. pos + Len(part) <= Len(st) + 1
    BY <1>1, <1>2, <1>5 DEF At, st
  <2> QED
    BY <2>1, <2>2, <2>3 DEF At
<1> QED
  BY <1>1, <1>3, <1>4, <1>5 DEF st, Keeps

(* Bytes cut out of a buffer. *)
LEMMA Cut ==
  ASSUME NEW buf \in Seq(Nat), NEW from \in Nat \ {0}, NEW len \in Nat,
         from + len <= Len(buf) + 1
  PROVE  /\ SubSeq(buf, from, from + len - 1) \in Seq(Nat)
         /\ Len(SubSeq(buf, from, from + len - 1)) = len
         /\ \A i \in 1..len : SubSeq(buf, from, from + len - 1)[i] = buf[from + i - 1]
<1>1. \A i \in from..(from + len - 1) : buf[i] \in Nat
  OBVIOUS
<1>2. from \in Int /\ from + len - 1 \in Int /\ (from + len - 1) - from + 1 = len
  OBVIOUS
<1>3. (IF from <= from + len - 1 THEN (from + len - 1) - from + 1 ELSE 0) = len
  OBVIOUS
<1> QED
  BY <1>1, <1>2, <1>3, SubSeqProperties

(* A part is what SubSeq cuts out of the place where it stands. *)
LEMMA CutOut ==
  ASSUME NEW part \in Seq(Nat), NEW buf \in Seq(Nat), NEW pos \in Nat \ {0}, At(part, buf, pos)
  PROVE  SubSeq(buf, pos, pos + Len(part) - 1) = part
<1> DEFINE cut == SubSeq(buf, pos, pos + Len(part) - 1)
<1>1. Len(part) \in Nat /\ pos + Len(part) <= Len(buf) + 1
  BY DEF At
<1>2. /\ cut \in Seq(Nat) /\ Len(cut) = Len(part)
      /\ \A i \in 1..Len(part) : cut[i] = buf[pos + i - 1]
  BY <1>1, Cut
<1> HIDE DEF cut
<1>3. \A i \in 1..Len(cut) : cut[i] = part[i]
  BY <1>2 DEF At
<1>4. cut = part
  BY <1>2, <1>3, SeqEqual
<1> QED
  BY <1>4 DEF cut

(* The characters of a name that was parsed: text, or what replaces it. *)
Characters == 0..(Base - 1) \cup {Replacement}

(* A name that a parser accepted. *)
IsName(name) == name \in Seq(Characters) /\ Len(name) <= MaxName

(* A name without replaced characters. *)
IsText(name) == \A i \in DOMAIN name : name[i] # Replacement

(* A name that is text is its own encoding. *)
LEMMA TextIs ==
  ASSUME NEW name \in Seq(Nat), IsText(name)
  PROVE  Text(name) = name
<1> DEFINE n == Len(name)
           parts == [i \in DOMAIN name |-> <<name[i]>>]
           Is(f) == f = [i \in 1..Len(parts) |-> IF i = 1 THEN parts[i] ELSE f[i - 1] \o parts[i]]
           G == CHOOSE f : Is(f)
           F == [i \in 1..n |-> SubSeq(name, 1, i)]
<1>1. n \in Nat /\ DOMAIN name = 1..n /\ Len(parts) = n /\ name \in [1..n -> Nat]
  OBVIOUS
<1>2. Text(name) = FlattenSeq(parts)
  <2>1. \A i \in DOMAIN name : name[i] # Replacement
    BY DEF IsText
  <2>2. [i \in DOMAIN name |->
            IF name[i] = Replacement THEN <<Base, Base, Base>> ELSE <<name[i]>>] = parts
    BY <2>1
  <2> HIDE DEF parts
  <2> QED
    BY <2>2 DEF Text
<1>3. FlattenSeq(parts) = IF Len(parts) = 0 THEN parts ELSE G[Len(parts)]
  BY DEF FlattenSeq
<1>4. CASE n = 0
  <2>1. parts = <<>> /\ name = <<>>
    BY <1>1, <1>4
  <2> QED
    BY <1>1, <1>2, <1>3, <1>4, <2>1
<1>5. CASE n # 0
  <2>1. Is(F)
    <3>1. ASSUME NEW i \in 1..n
          PROVE  F[i] = IF i = 1 THEN parts[i] ELSE F[i - 1] \o parts[i]
      <4>1. CASE i = 1
        <5>1. F[1] = SubSeq(name, 1, 1) /\ parts[1] = <<name[1]>>
          BY <1>1, <4>1
        <5>2. SubSeq(name, 1, 1) = <<name[1]>> \o SubSeq(name, 2, 1)
          BY <1>1, <4>1, SubSeqRecursiveFirst
        <5>3. SubSeq(name, 2, 1) = <<>> /\ name[1] \in Nat
          BY <1>1, <4>1, SubSeqEmpty
        <5>4. <<name[1]>> \in Seq(Nat) /\ <<name[1]>> \o <<>> = <<name[1]>>
          BY <5>3, ConcatEmptySeq
        <5> QED
          BY <4>1, <5>1, <5>2, <5>3, <5>4
      <4>2. CASE i # 1
        <5>1. F[i] = SubSeq(name, 1, i) /\ F[i - 1] = SubSeq(name, 1, i - 1)
          BY <1>1, <4>2
        <5>2. SubSeq(name, 1, i) = SubSeq(name, 1, i - 1) \o <<name[i]>>
          BY <1>1, <4>2, SubSeqRecursiveSecond
        <5> QED
          BY <1>1, <4>2, <5>1, <5>2
      <4> QED
        BY <4>1, <4>2
    <3>2. F = [i \in 1..n |-> F[i]]
      OBVIOUS
    <3> HIDE DEF F, parts, n
    <3> QED
      BY <1>1, <3>1, <3>2
  <2>2. Is(G)
    BY <2>1
  <2> HIDE DEF G
  <2> DEFINE T == {i \in 0..n : i = 0 \/ G[i] = F[i]}
  <2>3. \A i \in 1..n : G[i] = IF i = 1 THEN parts[i] ELSE G[i - 1] \o parts[i]
    BY <1>1, <2>2
  <2>4. \A i \in 1..n : F[i] = IF i = 1 THEN parts[i] ELSE F[i - 1] \o parts[i]
    <3> HIDE DEF F, parts, n
    <3> QED
      BY <1>1, <2>1
  <2>5. 0 \in T
    BY <1>1
  <2>6. ASSUME NEW i \in 0..(n - 1), i \in T
        PROVE  i + 1 \in T
    <3> HIDE DEF F, parts, n
    <3>1. i + 1 \in 1..n /\ (i + 1) - 1 = i /\ (i + 1 = 1 <=> i = 0)
      BY <1>1
    <3> QED
      BY <1>1, <2>3, <2>4, <2>6, <3>1
  <2>7. G[n] = F[n]
    <3> HIDE DEF T, F
    <3>1. \A i \in 0..n : i \in T
      BY <1>1, <2>5, <2>6, UpTo
    <3>2. n \in T
      BY <1>1, <3>1
    <3> QED
      BY <1>5, <3>2 DEF T
  <2>8. F[n] = name
    BY <1>1, <1>5, SubSeqFull
  <2> QED
    BY <1>1, <1>2, <1>3, <1>5, <2>7, <2>8
<1> QED
  BY <1>4, <1>5

(* Every reading of a name gives a name of the length it states, and only  *)
(* one.                                                                    *)
LEMMA NameFacts ==
  ASSUME NEW buf \in Seq(Nat), NEW pos \in Nat \ {0}, NEW size \in Sizes,
         NEW name \in ReadName(buf, pos, size)
  PROVE  /\ IsName(name.v)
         /\ name.next \in (pos + 1)..(Len(buf) + 1)
         /\ ReadName(buf, pos, size) = {name}
         /\ \A r \in ReadUvarint(buf, pos) :
              r.v % size = Len(name.v) /\ (size = Word => r.v = Len(name.v))
<1> DEFINE NameAt(r) ==
             [v |-> Lossy(SubSeq(buf, r.next, r.next + (r.v % size) - 1)),
              next |-> r.next + (r.v % size)]
           Short(r) == r.v % size <= MaxName /\ r.v % size <= Len(buf) - (r.next - 1)
<1>1. PICK r \in ReadUvarint(buf, pos) : Short(r) /\ name = NameAt(r)
  BY DEF ReadName
<1>2. /\ r.v \in 0..(Word - 1) /\ r.next \in (pos + 1)..(Len(buf) + 1)
      /\ ReadUvarint(buf, pos) = {r}
  BY ReadFacts
<1>3. ReadName(buf, pos, size) = {name}
  BY <1>1, <1>2 DEF ReadName
<1> DEFINE len == r.v % size
           bytes == SubSeq(buf, r.next, r.next + len - 1)
<1>4. size \in Nat \ {0} /\ MaxName \in Nat /\ Base \in Nat \ {0} /\ Word \in Nat
  BY WireAssumption
<1>5. len \in Nat /\ len <= MaxName /\ len <= Len(buf) - (r.next - 1)
  <2>1. \A x \in Nat : x % size \in Nat
    BY <1>4
  <2>2. r.v \in Nat
    BY <1>2, <1>4
  <2> QED
    BY <1>1, <2>1, <2>2
<1> HIDE DEF len
<1>10. r.next \in Nat /\ pos + 1 <= r.next /\ r.next + len - 1 <= Len(buf) /\ Len(buf) \in Nat
  BY <1>2, <1>5
<1>6. bytes \in Seq(Nat) /\ Len(bytes) = len
  <2>1. r.next \in Nat \ {0} /\ r.next + len <= Len(buf) + 1
    BY <1>5, <1>10
  <2> QED
    BY <1>5, <2>1, Cut
<1> HIDE DEF bytes
<1>7. IsName(Lossy(bytes)) /\ Len(Lossy(bytes)) = len
  <2>1. \A i \in 1..len : (IF bytes[i] < Base THEN bytes[i] ELSE Replacement) \in Characters
    BY <1>4, <1>5, <1>6 DEF Characters
  <2>2. Lossy(bytes) = [i \in 1..len |-> IF bytes[i] < Base THEN bytes[i] ELSE Replacement]
    BY <1>6 DEF Lossy
  <2> QED
    BY <1>5, <2>1, <2>2 DEF IsName
<1>8. name.v = Lossy(bytes) /\ name.next = r.next + len
  BY <1>1 DEF bytes, len
<1>9. size = Word => r.v = len
  <2>1. \A x \in 0..(Word - 1) : x % Word = x
    BY <1>4
  <2> QED
    BY <1>2, <2>1 DEF len
<1>11. name.next \in (pos + 1)..(Len(buf) + 1)
  BY <1>5, <1>8, <1>10
<1>12. IsName(name.v) /\ len = Len(name.v)
  BY <1>7, <1>8
<1> QED
  BY <1>2, <1>3, <1>9, <1>11, <1>12 DEF len

(* A name that is text is read back behind its length. *)
LEMMA NameReadsBack ==
  ASSUME NEW name, IsName(name), IsText(name), NEW size \in Sizes,
         NEW buf \in Seq(Nat), NEW pos \in Nat \ {0},
         At(Uvarint(Len(name)), buf, pos), At(name, buf, pos + Len(Uvarint(Len(name))))
  PROVE  /\ Len(name) \in 0..(Word - 1) /\ name \in Seq(Nat) /\ Lossy(name) = name
         /\ ReadName(buf, pos, size)
              = {[v |-> name, next |-> pos + Len(Uvarint(Len(name))) + Len(name)]}
<1> DEFINE n == Len(name)
           u == Uvarint(n)
           r == [v |-> n, next |-> pos + Len(u)]
<1>1. /\ MaxName \in Nat /\ Base \in Nat \ {0} /\ Word \in Nat \ {0}
      /\ size \in Nat \ {0} /\ size > MaxName /\ Word % size = 0
  BY WireAssumption
<1>2. name \in Seq(Characters) /\ n <= MaxName /\ n \in Nat
  BY DEF IsName
<1>3. size <= Word
  BY <1>1
<1>4. n \in 0..(Word - 1) /\ n % size = n
  <2>1. \A x \in Nat : x < size => x % size = x
    BY <1>1
  <2> HIDE DEF n
  <2>2. n < size /\ n \in 0..(Word - 1)
    BY <1>1, <1>2, <1>3
  <2> QED
    BY <1>2, <2>1, <2>2
<1>5. \A i \in 1..n : name[i] \in 0..(Base - 1)
  BY <1>2 DEF IsText, Characters
<1>6. name \in Seq(Nat)
  <2>1. Characters \subseteq Nat
    BY <1>1 DEF Characters, Replacement
  <2> QED
    BY <1>2, <2>1, SeqMonotonic
<1>7. Lossy(name) = name
  <2>1. Lossy(name) = [i \in 1..n |-> IF name[i] < Base THEN name[i] ELSE Replacement]
    BY <1>2 DEF Lossy
  <2>2. name = [i \in 1..n |-> name[i]]
    BY <1>2
  <2>3. \A i \in 1..n : name[i] < Base
    BY <1>1, <1>5
  <2> QED
    BY <2>1, <2>2, <2>3
<1>8. u \in Seq(Nat) /\ Len(u) \in Nat
  BY <1>1, <1>4, UvarintIs
<1>9. ReadUvarint(buf, pos) = {r}
  <2>1. pos + Len(u) <= Len(buf) + 1 /\ \A i \in 1..Len(u) : buf[pos + i - 1] = u[i]
    BY DEF At
  <2> QED
    BY <1>4, <2>1, ReadsBack
<1> HIDE DEF u
<1>10. SubSeq(buf, r.next, r.next + n - 1) = name
  <2>1. At(name, buf, pos + Len(u)) /\ pos + Len(u) \in Nat \ {0}
    BY <1>8 DEF u
  <2> QED
    BY <1>6, <2>1, CutOut
<1>11. n <= Len(buf) - (r.next - 1)
  <2>1. At(name, buf, pos + Len(u))
    BY DEF u
  <2> QED
    BY <1>2, <1>8, <2>1 DEF At
<1>12. ReadName(buf, pos, size)
         = {[v |-> Lossy(SubSeq(buf, r.next, r.next + (r.v % size) - 1)),
             next |-> r.next + (r.v % size)]}
  <2>1. r.v % size <= MaxName /\ r.v % size <= Len(buf) - (r.next - 1)
    BY <1>2, <1>4, <1>11
  <2> HIDE DEF r
  <2> QED
    BY <1>9, <2>1 DEF ReadName
<1>13. ReadName(buf, pos, size) = {[v |-> name, next |-> r.next + n]}
  BY <1>4, <1>7, <1>10, <1>12
<1> QED
  BY <1>4, <1>6, <1>7, <1>13 DEF u
(* A message a parser made. *)
IsMessage(m) ==
  /\ m = [message_id |-> m.message_id, flags |-> m.flags,
          recipient |-> m.recipient, sender |-> m.sender, body |-> m.body]
  /\ m.message_id \in Seq(Nat) /\ Len(m.message_id) = IdLen
  /\ m.flags \in 0..(Word - 1)
  /\ IsName(m.recipient) /\ IsName(m.sender)
  /\ m.body \in Seq(Nat)

(* Parsing has at most one result, with the id and flags of the header and *)
(* a recipient of the stated length.                                       *)
LEMMA MessageFacts ==
  ASSUME NEW buf \in Seq(Nat), NEW size \in Sizes, NEW m \in ParseMessage(buf, size)
  PROVE  /\ IsMessage(m)
         /\ ParseMessage(buf, size) = {m}
         /\ Len(buf) >= IdLen /\ m.message_id = SubSeq(buf, 1, IdLen)
         /\ \A f \in ReadUvarint(buf, IdLen + 1) :
              /\ m.flags = f.v
              /\ \A r \in ReadUvarint(buf, f.next) :
                   /\ r.v % size = Len(m.recipient)
                   /\ size = Word => r.v = Len(m.recipient)
<1> DEFINE Msg(f, r, s) ==
             [message_id |-> SubSeq(buf, 1, IdLen), flags |-> f.v, recipient |-> r.v,
              sender |-> s.v, body |-> SubSeq(buf, s.next, Len(buf))]
<1>1. /\ Len(buf) >= IdLen
      /\ ParseMessage(buf, size)
           = UNION {UNION {{Msg(f, r, s) : s \in ReadName(buf, r.next, size)} :
                      r \in ReadName(buf, f.next, size)} : f \in ReadUvarint(buf, IdLen + 1)}
  <2>1. IdLen \in Nat /\ Len(buf) \in Nat
    BY WireAssumption
  <2>2. ~(Len(buf) < IdLen)
    BY DEF ParseMessage
  <2> QED
    BY <2>1, <2>2 DEF ParseMessage
<1>2. PICK f \in ReadUvarint(buf, IdLen + 1) : \E r \in ReadName(buf, f.next, size) :
        \E s \in ReadName(buf, r.next, size) : m = Msg(f, r, s)
  BY <1>1
<1>3. PICK r \in ReadName(buf, f.next, size) :
        \E s \in ReadName(buf, r.next, size) : m = Msg(f, r, s)
  BY <1>2
<1>4. PICK s \in ReadName(buf, r.next, size) : m = Msg(f, r, s)
  BY <1>3
<1>5. IdLen \in Nat \ {0} /\ Len(buf) \in Nat
  BY WireAssumption
<1>6. /\ f.v \in 0..(Word - 1) /\ f.next \in (IdLen + 2)..(Len(buf) + 1)
      /\ ReadUvarint(buf, IdLen + 1) = {f}
  <2>1. IdLen + 1 \in Nat \ {0} /\ (IdLen + 1) + 1 = IdLen + 2
    BY <1>5
  <2> QED
    BY <2>1, ReadFacts
<1>7. f.next \in Nat \ {0}
  BY <1>5, <1>6
<1>8. /\ IsName(r.v) /\ r.next \in (f.next + 1)..(Len(buf) + 1)
      /\ ReadName(buf, f.next, size) = {r}
      /\ \A l \in ReadUvarint(buf, f.next) :
           l.v % size = Len(r.v) /\ (size = Word => l.v = Len(r.v))
  BY <1>7, NameFacts
<1>9. r.next \in Nat \ {0}
  BY <1>5, <1>7, <1>8
<1>10. /\ IsName(s.v) /\ s.next \in (r.next + 1)..(Len(buf) + 1)
       /\ ReadName(buf, r.next, size) = {s}
  BY <1>9, NameFacts
<1>11. ParseMessage(buf, size) = {m}
  <2>1. m = Msg(f, r, s)
    BY <1>4
  <2>2. /\ ReadUvarint(buf, IdLen + 1) = {f}
        /\ ReadName(buf, f.next, size) = {r} /\ ReadName(buf, r.next, size) = {s}
    BY <1>6, <1>8, <1>10
  <2>3. ParseMessage(buf, size)
          = UNION {UNION {{Msg(g, q, t) : t \in ReadName(buf, q.next, size)} :
                     q \in ReadName(buf, g.next, size)} : g \in ReadUvarint(buf, IdLen + 1)}
    BY <1>1
  <2> HIDE DEF Msg
  <2>4. {Msg(f, r, t) : t \in ReadName(buf, r.next, size)} = {m}
    BY <2>1, <2>2
  <2>5. UNION {{Msg(f, q, t) : t \in ReadName(buf, q.next, size)} :
                 q \in ReadName(buf, f.next, size)} = {m}
    BY <2>2, <2>4
  <2> QED
    BY <2>2, <2>3, <2>5
<1>12. SubSeq(buf, 1, IdLen) \in Seq(Nat) /\ Len(SubSeq(buf, 1, IdLen)) = IdLen
  <2>1. 1 + IdLen <= Len(buf) + 1 /\ (1 + IdLen) - 1 = IdLen
    BY <1>1, <1>5
  <2> QED
    BY <1>5, <2>1, Cut
<1>13. SubSeq(buf, s.next, Len(buf)) \in Seq(Nat)
  <2>1. /\ s.next \in Nat \ {0} /\ Len(buf) + 1 - s.next \in Nat
        /\ s.next + (Len(buf) + 1 - s.next) <= Len(buf) + 1
        /\ s.next + (Len(buf) + 1 - s.next) - 1 = Len(buf)
    <3>1. \A n \in Nat, a \in Nat \ {0} : \A b \in (a + 1)..(n + 1) :
            /\ b \in Nat \ {0} /\ n + 1 - b \in Nat
            /\ b + (n + 1 - b) <= n + 1 /\ b + (n + 1 - b) - 1 = n
      OBVIOUS
    <3>2. Len(buf) \in Nat
      BY <1>5
    <3> QED
      BY <1>9, <1>10, <3>1, <3>2, Zenon
  <2> HIDE DEF Msg
  <2> QED
    BY <2>1, Cut
<1>14. IsMessage(m)
  BY <1>4, <1>6, <1>8, <1>10, <1>12, <1>13 DEF IsMessage
<1>15. \A g \in ReadUvarint(buf, IdLen + 1) : g = f
  BY <1>6
<1>16. m.flags = f.v /\ m.recipient = r.v /\ m.message_id = SubSeq(buf, 1, IdLen)
  BY <1>4
<1> HIDE DEF Msg
<1> QED
  BY <1>1, <1>8, <1>11, <1>14, <1>15, <1>16

(* A message without replaced characters is read back from its bytes. *)
LEMMA MessageReadsBack ==
  ASSUME NEW m, IsMessage(m), IsText(m.recipient), IsText(m.sender), NEW size \in Sizes
  PROVE  EncodeMessage(m) \in Seq(Nat) /\ ParseMessage(EncodeMessage(m), size) = {m}
<1> DEFINE id == m.message_id
           to == m.recipient
           from == m.sender
           body == m.body
           flags == Uvarint(m.flags)
           toLen == Uvarint(Len(to))
           fromLen == Uvarint(Len(from))
           e1 == id \o flags
           e2 == e1 \o toLen
           e3 == e2 \o to
           e4 == e3 \o fromLen
           e5 == e4 \o from
           e6 == e5 \o body
<1>1. IdLen \in Nat \ {0} /\ MaxName \in Nat /\ Word \in Nat \ {0} /\ MaxGroups \in Nat
  BY WireAssumption
<1>2. /\ id \in Seq(Nat) /\ Len(id) = IdLen /\ m.flags \in 0..(Word - 1)
      /\ IsName(to) /\ IsName(from) /\ body \in Seq(Nat)
  BY DEF IsMessage
<1>3. \A name : IsName(name) =>
        name \in Seq(Nat) /\ Len(name) \in Nat /\ Len(name) \in 0..(Word - 1)
  <2> SUFFICES ASSUME NEW name, IsName(name)
               PROVE  name \in Seq(Nat) /\ Len(name) \in Nat /\ Len(name) \in 0..(Word - 1)
    OBVIOUS
  <2>1. name \in Seq(Characters) /\ Len(name) \in Nat /\ Len(name) <= MaxName
    BY DEF IsName
  <2>2. Characters \subseteq Nat
    BY WireAssumption DEF Characters, Replacement
  <2>3. size \in Nat \ {0} /\ size > MaxName /\ Word % size = 0
    BY WireAssumption
  <2>4. size <= Word
    BY <1>1, <2>3
  <2>5. name \in Seq(Nat)
    BY <2>1, <2>2, SeqMonotonic
  <2> QED
    BY <1>1, <2>1, <2>3, <2>4, <2>5
<1>4. to \in Seq(Nat) /\ from \in Seq(Nat) /\ Len(to) \in Nat /\ Len(from) \in Nat
  BY <1>2, <1>3
<1>5. /\ flags \in Seq(Nat) /\ Len(flags) \in Nat
      /\ toLen \in Seq(Nat) /\ Len(toLen) \in Nat
      /\ fromLen \in Seq(Nat) /\ Len(fromLen) \in Nat
  <2>1. ASSUME NEW v \in 0..(Word - 1)
        PROVE  Uvarint(v) \in Seq(Nat) /\ Len(Uvarint(v)) \in Nat
    BY <1>1, <2>1, UvarintIs
  <2>2. m.flags \in 0..(Word - 1) /\ Len(to) \in 0..(Word - 1) /\ Len(from) \in 0..(Word - 1)
    BY <1>2, <1>3, Zenon
  <2> QED
    BY <2>1, <2>2, Zenon
<1>6. EncodeMessage(m) = e6
  BY <1>4, TextIs DEF EncodeMessage
<1> HIDE DEF id, to, from, body, flags, toLen, fromLen
<1> DEFINE toAt == Len(id) + Len(flags) + 1
           fromAt == toAt + Len(toLen) + Len(to)
           bodyAt == fromAt + Len(fromLen) + Len(from)
<1>7. Len(id) \in Nat /\ Len(body) \in Nat
  BY <1>2
<1>8. /\ e1 \in Seq(Nat) /\ Len(e1) = Len(id) + Len(flags)
      /\ At(id, e1, 1) /\ At(flags, e1, Len(id) + 1)
  BY <1>2, <1>5, Appended, Zenon
<1> HIDE DEF e1
<1>9. /\ e2 \in Seq(Nat) /\ Len(e2) = Len(e1) + Len(toLen)
      /\ At(toLen, e2, Len(e1) + 1) /\ Keeps(e2, e1)
  BY <1>5, <1>8, Appended, Zenon
<1> HIDE DEF e2
<1>10. /\ e3 \in Seq(Nat) /\ Len(e3) = Len(e2) + Len(to)
       /\ At(to, e3, Len(e2) + 1) /\ Keeps(e3, e2)
  BY <1>4, <1>9, Appended, Zenon
<1> HIDE DEF e3
<1>11. /\ e4 \in Seq(Nat) /\ Len(e4) = Len(e3) + Len(fromLen)
       /\ At(fromLen, e4, Len(e3) + 1) /\ Keeps(e4, e3)
  BY <1>5, <1>10, Appended, Zenon
<1> HIDE DEF e4
<1>12. /\ e5 \in Seq(Nat) /\ Len(e5) = Len(e4) + Len(from)
       /\ At(from, e5, Len(e4) + 1) /\ Keeps(e5, e4)
  BY <1>4, <1>11, Appended, Zenon
<1> HIDE DEF e5
<1>13. /\ e6 \in Seq(Nat) /\ Len(e6) = Len(e5) + Len(body)
       /\ At(body, e6, Len(e5) + 1) /\ Keeps(e6, e5)
  BY <1>2, <1>12, Appended, Zenon
<1> HIDE DEF e6
<1>14. /\ toAt \in Nat \ {0} /\ fromAt \in Nat \ {0} /\ bodyAt \in Nat \ {0}
       /\ IdLen + 1 \in Nat \ {0}
  BY <1>1, <1>4, <1>5, <1>7
<1>15. /\ Len(e1) + 1 = toAt /\ Len(e2) + 1 = toAt + Len(toLen)
       /\ Len(e3) + 1 = fromAt /\ Len(e4) + 1 = fromAt + Len(fromLen)
       /\ Len(e5) + 1 = bodyAt /\ Len(e6) = bodyAt + Len(body) - 1
       /\ Len(id) + 1 \in Nat \ {0}
       /\ toAt + Len(toLen) \in Nat \ {0} /\ fromAt + Len(fromLen) \in Nat \ {0}
  <2>1. Len(e1) + 1 = toAt /\ Len(e2) + 1 = toAt + Len(toLen)
    BY <1>5, <1>7, <1>8, <1>9
  <2>2. /\ Len(e3) = Len(e2) + Len(to) /\ Len(e4) = Len(e3) + Len(fromLen)
        /\ Len(e5) = Len(e4) + Len(from) /\ Len(e6) = Len(e5) + Len(body)
    BY <1>10, <1>11, <1>12, <1>13, Zenon
  <2>3. Len(e2) \in Nat /\ Len(e3) \in Nat /\ Len(e4) \in Nat /\ Len(e5) \in Nat
    BY <1>9, <1>10, <1>11, <1>12
  <2>4. /\ Len(id) \in Nat /\ Len(to) \in Nat /\ Len(toLen) \in Nat /\ Len(from) \in Nat
        /\ Len(fromLen) \in Nat /\ Len(body) \in Nat /\ toAt \in Nat \ {0}
    BY <1>4, <1>5, <1>7, <1>14
  <2> HIDE DEF toAt
  <2>5. Len(e3) + 1 = toAt + Len(toLen) + Len(to)
    <3>1. Len(e3) + 1 = Len(e2) + 1 + Len(to)
      BY <2>2, <2>3, <2>4
    <3> QED
      BY <2>1, <3>1
  <2>6. Len(e4) + 1 = Len(e3) + 1 + Len(fromLen)
    BY <2>2, <2>3, <2>4
  <2>7. Len(e3) + 1 = fromAt /\ Len(e4) + 1 = fromAt + Len(fromLen)
    BY <2>5, <2>6
  <2> HIDE DEF fromAt
  <2>8. Len(e5) + 1 = fromAt + Len(fromLen) + Len(from)
    <3>1. Len(e5) + 1 = Len(e4) + 1 + Len(from)
      BY <2>2, <2>3, <2>4
    <3> QED
      BY <2>7, <3>1
  <2>9. Len(e6) = Len(e5) + 1 + Len(body) - 1
    BY <2>2, <2>3, <2>4
  <2>10. Len(e5) + 1 = bodyAt /\ Len(e6) = bodyAt + Len(body) - 1
    BY <2>8, <2>9
  <2> HIDE DEF bodyAt
  <2>11. toAt + Len(toLen) \in Nat \ {0}
    BY <2>4
  <2>12. fromAt + Len(fromLen) \in Nat \ {0}
    <3>1. fromAt \in Nat \ {0}
      BY <2>3, <2>7
    <3> QED
      BY <2>4, <3>1
  <2>13. Len(id) + 1 \in Nat \ {0}
    BY <2>4
  <2> QED
    BY <2>1, <2>7, <2>10, <2>11, <2>12, <2>13, Zenon
<1> HIDE DEF toAt, fromAt, bodyAt
<1>16. /\ At(id, e6, 1) /\ At(flags, e6, Len(id) + 1)
       /\ At(toLen, e6, toAt) /\ At(to, e6, toAt + Len(toLen))
       /\ At(fromLen, e6, fromAt) /\ At(from, e6, fromAt + Len(fromLen))
       /\ At(body, e6, bodyAt)
  <2>1. Keeps(e6, e5) /\ Keeps(e6, e4) /\ Keeps(e6, e3) /\ Keeps(e6, e2) /\ Keeps(e6, e1)
    <3>1. \A a, b, c : Keeps(a, b) /\ Keeps(b, c) => Keeps(a, c)
      BY Zenon DEF Keeps
    <3>2. /\ Keeps(e2, e1) /\ Keeps(e3, e2) /\ Keeps(e4, e3)
          /\ Keeps(e5, e4) /\ Keeps(e6, e5)
      BY <1>9, <1>10, <1>11, <1>12, <1>13
    <3>3. Keeps(e6, e4)
      BY <3>1, <3>2, Zenon
    <3>4. Keeps(e6, e3)
      BY <3>1, <3>2, <3>3, Zenon
    <3>5. Keeps(e6, e2)
      BY <3>1, <3>2, <3>4, Zenon
    <3>6. Keeps(e6, e1)
      BY <3>1, <3>2, <3>5, Zenon
    <3> QED
      BY <3>2, <3>3, <3>4, <3>5, <3>6
  <2>2. At(id, e6, 1)
    BY <1>2, <1>8, <2>1 DEF Keeps
  <2>3. At(flags, e6, Len(id) + 1)
    BY <1>5, <1>8, <1>15, <2>1 DEF Keeps
  <2>4. At(toLen, e6, toAt)
    BY <1>5, <1>9, <1>14, <1>15, <2>1 DEF Keeps
  <2>5. At(to, e6, toAt + Len(toLen))
    BY <1>4, <1>10, <1>15, <2>1 DEF Keeps
  <2>6. At(fromLen, e6, fromAt)
    BY <1>5, <1>11, <1>14, <1>15, <2>1 DEF Keeps
  <2>7. At(from, e6, fromAt + Len(fromLen))
    BY <1>4, <1>12, <1>15, <2>1 DEF Keeps
  <2> QED
    BY <1>13, <1>15, <2>2, <2>4, <2>5, <2>6, <2>7, <2>3
<1>17. ReadUvarint(e6, IdLen + 1) = {[v |-> m.flags, next |-> toAt]}
  <2>1. /\ (IdLen + 1) + Len(Uvarint(m.flags)) <= Len(e6) + 1
        /\ \A i \in 1..Len(Uvarint(m.flags)) : e6[(IdLen + 1) + i - 1] = Uvarint(m.flags)[i]
        /\ (IdLen + 1) + Len(Uvarint(m.flags)) = toAt
    BY <1>1, <1>2, <1>5, <1>16 DEF At, flags, toAt
  <2> QED
    BY <1>2, <1>13, <1>14, <2>1, ReadsBack
<1>18. ReadName(e6, toAt, size) = {[v |-> to, next |-> fromAt]}
  <2>1. IsText(to)
    BY DEF to
  <2>2. ReadName(e6, toAt, size)
          = {[v |-> to, next |-> toAt + Len(Uvarint(Len(to))) + Len(to)]}
    <3>1. /\ At(Uvarint(Len(to)), e6, toAt) /\ At(to, e6, toAt + Len(Uvarint(Len(to))))
          /\ IsName(to) /\ e6 \in Seq(Nat) /\ toAt \in Nat \ {0}
      BY <1>2, <1>13, <1>14, <1>16 DEF toLen
    <3> HIDE DEF e6
    <3> QED
      BY <2>1, <3>1, NameReadsBack
  <2> QED
    BY <2>2 DEF toLen, fromAt
<1>19. ReadName(e6, fromAt, size) = {[v |-> from, next |-> bodyAt]}
  <2>1. IsText(from)
    BY DEF from
  <2>2. ReadName(e6, fromAt, size)
          = {[v |-> from, next |-> fromAt + Len(Uvarint(Len(from))) + Len(from)]}
    <3>1. /\ At(Uvarint(Len(from)), e6, fromAt) /\ At(from, e6, fromAt + Len(Uvarint(Len(from))))
          /\ IsName(from) /\ e6 \in Seq(Nat) /\ fromAt \in Nat \ {0}
      BY <1>2, <1>13, <1>14, <1>16 DEF fromLen
    <3> HIDE DEF e6
    <3> QED
      BY <2>1, <3>1, NameReadsBack
  <2> QED
    BY <2>2 DEF fromLen, bodyAt
<1>20. SubSeq(e6, 1, IdLen) = id
  <2>1. 1 + Len(id) - 1 = IdLen /\ 1 \in Nat \ {0}
    BY <1>1, <1>2
  <2>2. SubSeq(e6, 1, 1 + Len(id) - 1) = id
    BY <1>2, <1>13, <1>16, <2>1, CutOut, Zenon
  <2> QED
    BY <2>1, <2>2
<1>21. SubSeq(e6, bodyAt, Len(e6)) = body
  <2>1. SubSeq(e6, bodyAt, bodyAt + Len(body) - 1) = body
    BY <1>2, <1>13, <1>14, <1>16, CutOut, Zenon
  <2> QED
    BY <1>15, <2>1
<1>22. ~(Len(e6) < IdLen)
  BY <1>1, <1>2, <1>13, <1>16 DEF At
<1>23. ParseMessage(e6, size)
         = {[message_id |-> id, flags |-> m.flags, recipient |-> to, sender |-> from,
             body |-> body]}
  <2> DEFINE Msg(f, r, s) ==
               [message_id |-> SubSeq(e6, 1, IdLen), flags |-> f.v, recipient |-> r.v,
                sender |-> s.v, body |-> SubSeq(e6, s.next, Len(e6))]
             f0 == [v |-> m.flags, next |-> toAt]
             r0 == [v |-> to, next |-> fromAt]
             s0 == [v |-> from, next |-> bodyAt]
  <2>1. ParseMessage(e6, size)
          = UNION {UNION {{Msg(f, r, s) : s \in ReadName(e6, r.next, size)} :
                     r \in ReadName(e6, f.next, size)} : f \in ReadUvarint(e6, IdLen + 1)}
    BY <1>22, Zenon DEF ParseMessage
  <2>2. f0.next = toAt /\ r0.next = fromAt
    OBVIOUS
  <2>3. Msg(f0, r0, s0) = [message_id |-> id, flags |-> m.flags, recipient |-> to,
                           sender |-> from, body |-> body]
    BY <1>20, <1>21
  <2>4. ReadUvarint(e6, IdLen + 1) = {f0} /\ ReadName(e6, toAt, size) = {r0}
        /\ ReadName(e6, fromAt, size) = {s0}
    BY <1>17, <1>18, <1>19
  <2> HIDE DEF Msg, f0, r0, s0
  <2>5. {Msg(f0, r0, s) : s \in ReadName(e6, r0.next, size)} = {Msg(f0, r0, s0)}
    BY <2>2, <2>4
  <2>6. UNION {{Msg(f0, r, s) : s \in ReadName(e6, r.next, size)} :
                 r \in ReadName(e6, f0.next, size)} = {Msg(f0, r0, s0)}
    BY <2>2, <2>4, <2>5
  <2> QED
    BY <2>1, <2>3, <2>4, <2>6
<1>24. m = [message_id |-> id, flags |-> m.flags, recipient |-> to, sender |-> from,
            body |-> body]
  BY DEF IsMessage, id, to, from, body
<1> QED
  BY <1>6, <1>13, <1>23, <1>24
(* What follows the first byte. *)
LEMMA Headed ==
  ASSUME NEW S, NEW t \in S, NEW s \in Seq(S)
  PROVE  /\ <<t>> \o s \in Seq(S) /\ <<t>> \o s # <<>>
         /\ (<<t>> \o s)[1] = t /\ Tail(<<t>> \o s) = s
<1> DEFINE ts == <<t>> \o s
<1>1. Len(s) \in Nat /\ <<t>> \in Seq(S) /\ Len(<<t>>) = 1 /\ <<t>>[1] = t
  OBVIOUS
<1>2. /\ ts \in Seq(S) /\ Len(ts) = 1 + Len(s)
      /\ \A i \in 1..(1 + Len(s)) : ts[i] = IF i <= 1 THEN t ELSE s[i - 1]
  BY <1>1, ConcatProperties
<1> HIDE DEF ts
<1>3. ts # <<>> /\ ts[1] = t
  BY <1>1, <1>2
<1>4. /\ Tail(ts) \in Seq(S) /\ Len(Tail(ts)) = Len(s)
      /\ \A i \in 1..Len(s) : Tail(ts)[i] = s[i]
  BY <1>1, <1>2, <1>3
<1>5. Tail(ts) = s
  BY <1>4, SeqEqual
<1> QED
  BY <1>2, <1>3, <1>5 DEF ts

(* A first byte that states a type states no version. *)
LEMMA TypeByte ==
  /\ Version(PING_PONG) = 0 /\ PacketType(PING_PONG) = PING_PONG
  /\ Version(HANDSHAKE) = 0 /\ PacketType(HANDSHAKE) = HANDSHAKE
  /\ Version(INSTANT_MSG) = 0 /\ PacketType(INSTANT_MSG) = INSTANT_MSG
<1>1. Base \in Nat \ {0} /\ Base > 2
  BY WireAssumption
<1>2. /\ 0 \div Base = 0 /\ 0 % Base = 0 /\ 1 \div Base = 0 /\ 1 % Base = 1
      /\ 2 \div Base = 0 /\ 2 % Base = 2
  BY <1>1
<1> QED
  BY <1>2 DEF Version, PacketType, Nibble, PING_PONG, HANDSHAKE, INSTANT_MSG

(* How a packet is read that states no version. *)
LEMMA ParsePacketIs ==
  ASSUME NEW buf, NEW size, buf # <<>>, Version(buf[1]) = 0
  PROVE  /\ PacketType(buf[1]) = PING_PONG =>
              ParsePacket(buf, TRUE, size) = {[type |-> PING_PONG, payload |-> Tail(buf)]}
         /\ PacketType(buf[1]) = INSTANT_MSG =>
              ParsePacket(buf, TRUE, size)
                = {[type |-> INSTANT_MSG, payload |-> m] : m \in ParseMessage(Tail(buf), size)}
         /\ PacketType(buf[1]) \notin {PING_PONG, INSTANT_MSG, HANDSHAKE} =>
              ParsePacket(buf, TRUE, size) = {}
<1> DEFINE t == PacketType(buf[1])
           ping == {[type |-> PING_PONG, payload |-> Tail(buf)]}
           hello == {[type |-> HANDSHAKE, payload |-> RequestFromCbor(Tail(buf))]}
           msg == {[type |-> INSTANT_MSG, payload |-> m] : m \in ParseMessage(Tail(buf), size)}
<1>1. PING_PONG # INSTANT_MSG /\ PING_PONG # HANDSHAKE /\ INSTANT_MSG # HANDSHAKE
  BY DEF PING_PONG, HANDSHAKE, INSTANT_MSG
<1>2. ParsePacket(buf, TRUE, size)
        = CASE t = PING_PONG -> ping [] t = HANDSHAKE -> hello
            [] t = INSTANT_MSG -> msg [] OTHER -> {}
  BY Zenon DEF ParsePacket
<1> HIDE DEF t, ping, hello, msg
<1>3. /\ t = PING_PONG => ParsePacket(buf, TRUE, size) = ping
      /\ t = INSTANT_MSG => ParsePacket(buf, TRUE, size) = msg
      /\ t \notin {PING_PONG, INSTANT_MSG, HANDSHAKE} => ParsePacket(buf, TRUE, size) = {}
  BY <1>1, <1>2
<1> QED
  BY <1>3 DEF t, ping, msg

(* A peer that parses bytes and encodes what it found has not changed it. *)
LEMMA PacketsReadBack ==
  ASSUME NEW buf \in Seq(Nat)
  PROVE  RelayKeepsPackets(buf)
<1> SUFFICES ASSUME NEW size \in Sizes,
                    buf # <<>> => PacketType(buf[1]) # HANDSHAKE,
                    NEW pkt \in ParsePacket(buf, TRUE, size),
                    pkt.type = INSTANT_MSG => Readable(pkt.payload)
             PROVE  ParsePacket(EncodePacket(pkt), TRUE, size) = {pkt}
  BY DEF RelayKeepsPackets
<1>1. buf # <<>> /\ Version(buf[1]) = 0
  BY DEF ParsePacket
<1>2. Tail(buf) \in Seq(Nat)
  BY <1>1
<1>3. PING_PONG = 0 /\ HANDSHAKE = 1 /\ INSTANT_MSG = 2
  BY DEF PING_PONG, HANDSHAKE, INSTANT_MSG
<1>4. CASE PacketType(buf[1]) = PING_PONG
  <2>1. pkt = [type |-> PING_PONG, payload |-> Tail(buf)]
    BY <1>1, <1>4, ParsePacketIs
  <2>2. EncodePacket(pkt) = <<PING_PONG>> \o Tail(buf)
    BY <2>1 DEF EncodePacket
  <2> DEFINE e == <<PING_PONG>> \o Tail(buf)
  <2>3. e # <<>> /\ e[1] = PING_PONG /\ Tail(e) = Tail(buf)
    BY <1>2, <1>3, Headed
  <2> HIDE DEF e
  <2>4. ParsePacket(e, TRUE, size) = {[type |-> PING_PONG, payload |-> Tail(buf)]}
    BY <2>3, TypeByte, ParsePacketIs
  <2> QED
    BY <2>1, <2>2, <2>4 DEF e
<1>5. CASE PacketType(buf[1]) = INSTANT_MSG
  <2>1. PICK m \in ParseMessage(Tail(buf), size) : pkt = [type |-> INSTANT_MSG, payload |-> m]
    <3>1. ParsePacket(buf, TRUE, size)
            = {[type |-> INSTANT_MSG, payload |-> m] : m \in ParseMessage(Tail(buf), size)}
      BY <1>1, <1>5, ParsePacketIs
    <3> QED
      BY <3>1
  <2>2. IsMessage(m)
    BY <1>2, MessageFacts
  <2>3. IsText(m.recipient) /\ IsText(m.sender)
    BY <2>1 DEF Readable, IsText
  <2> DEFINE s == EncodeMessage(m)
             e == <<INSTANT_MSG>> \o s
  <2>4. s \in Seq(Nat) /\ ParseMessage(s, size) = {m}
    BY <2>2, <2>3, MessageReadsBack
  <2>5. EncodePacket(pkt) = e
    BY <1>3, <2>1 DEF EncodePacket
  <2> HIDE DEF s
  <2>6. e # <<>> /\ e[1] = INSTANT_MSG /\ Tail(e) = s
    BY <1>3, <2>4, Headed
  <2> HIDE DEF e
  <2>7. ParsePacket(e, TRUE, size)
          = {[type |-> INSTANT_MSG, payload |-> k] : k \in ParseMessage(s, size)}
    BY <2>6, TypeByte, ParsePacketIs
  <2> QED
    BY <2>1, <2>4, <2>5, <2>7
<1>6. PacketType(buf[1]) \in {PING_PONG, INSTANT_MSG}
  BY <1>1, ParsePacketIs
<1> QED
  BY <1>4, <1>5, <1>6

(* Names keep to the limit and to the length that is stated. *)
LEMMA NamesKeepToTheLimit ==
  ASSUME NEW buf \in Seq(Nat)
  PROVE  NamesAreBounded(buf)
<1> SUFFICES ASSUME NEW size \in Sizes, NEW m \in ParseMessage(buf, size)
             PROVE  /\ Len(m.recipient) <= MaxName /\ Len(m.sender) <= MaxName
                    /\ \A f \in ReadUvarint(buf, IdLen + 1) :
                         \A r \in ReadUvarint(buf, f.next) :
                           /\ r.v % size = Len(m.recipient)
                           /\ size = Word => r.v = Len(m.recipient)
  BY DEF NamesAreBounded
<1>1. IsName(m.recipient) /\ IsName(m.sender)
  BY MessageFacts DEF IsMessage
<1> QED
  BY <1>1, MessageFacts DEF IsName
----------------------------------------------------------------------------
(***************************************************************************)
(* The two forms of a message.                                             *)
(***************************************************************************)

(* A flag word survives the i64 of a header. *)
LEMMA FlagsSurvive ==
  ASSUME NEW w \in 0..(Word - 1)
  PROVE  AsU64(AsI64(w)) = w /\ AsU64(0) = 0
<1>1. Word \in Nat \ {0} /\ w \in Nat /\ w < Word
  BY WireAssumption
<1>2. w % Word = w /\ 0 % Word = 0
  BY <1>1
<1>3. (w - Word) % Word = w
  BY <1>1
<1> QED
  BY <1>2, <1>3 DEF AsU64, AsI64

(* What a header that may be left out says: the value, or the default that *)
(* made it left out.                                                       *)
LEMMA HeaderIs ==
  ASSUME NEW v, NEW default
  PROVE  HeaderOr({v}, default) = v /\ HeaderOr({}, default) = default
<1>1. (CHOOSE x \in {v} : TRUE) = v
  OBVIOUS
<1> QED
  BY <1>1 DEF HeaderOr

(* The bottle of a message decodes to the message. *)
LEMMA BottleDecodes ==
  ASSUME NEW m, IsMessage(m)
  PROVE  Decode(Bottle(m)) = {m}
<1> DEFINE b == Bottle(m)
           Msg(mid) ==
             [message_id |-> [i \in 1..IdLen |-> IF i <= Len(mid) THEN mid[i] ELSE 0],
              flags |-> AsU64(HeaderOr(b.flg, 0)),
              recipient |-> HeaderOr(b.dst, <<>>), sender |-> HeaderOr(b.rto, <<>>),
              body |-> b.body]
<1>1. IdLen \in Nat
  BY WireAssumption
<1>2. /\ b.body = m.body /\ b.mid = {m.message_id}
      /\ b.flg = IF m.flags = 0 THEN {} ELSE {AsI64(m.flags)}
      /\ b.dst = {m.recipient} \ {<<>>} /\ b.rto = {m.sender} \ {<<>>}
  BY DEF Bottle
<1>3. AsU64(HeaderOr(b.flg, 0)) = m.flags
  <2>1. m.flags \in 0..(Word - 1)
    BY DEF IsMessage
  <2>2. AsU64(AsI64(m.flags)) = m.flags /\ AsU64(0) = 0
    BY <2>1, FlagsSurvive
  <2>3. CASE m.flags = 0
    BY <1>2, <2>2, <2>3, HeaderIs
  <2>4. CASE m.flags # 0
    BY <1>2, <2>2, <2>4, HeaderIs
  <2> QED
    BY <2>3, <2>4
<1>4. ASSUME NEW name
      PROVE  HeaderOr({name} \ {<<>>}, <<>>) = name
  <2>1. CASE name = <<>>
    <3>1. {name} \ {<<>>} = {}
      BY <2>1
    <3> QED
      BY <2>1, <3>1, HeaderIs
  <2>2. CASE name # <<>>
    <3>1. {name} \ {<<>>} = {name}
      BY <2>2
    <3> QED
      BY <3>1, HeaderIs
  <2> QED
    BY <2>1, <2>2
<1>5. HeaderOr(b.dst, <<>>) = m.recipient /\ HeaderOr(b.rto, <<>>) = m.sender
  BY <1>2, <1>4
<1>6. [i \in 1..IdLen |-> IF i <= Len(m.message_id) THEN m.message_id[i] ELSE 0]
        = m.message_id
  <2> DEFINE id == m.message_id
  <2>1. id \in Seq(Nat) /\ Len(id) = IdLen
    BY DEF IsMessage
  <2> HIDE DEF id
  <2>2. [i \in 1..IdLen |-> IF i <= Len(id) THEN id[i] ELSE 0] = id
    BY <1>1, <2>1
  <2> QED
    BY <2>2 DEF id
<1>7. Decode(b) = {Msg(mid) : mid \in b.mid}
  BY DEF Decode
<1> HIDE DEF b
<1>8. Msg(m.message_id) = m
  <2>1. Msg(m.message_id)
          = [message_id |-> m.message_id, flags |-> m.flags, recipient |-> m.recipient,
             sender |-> m.sender, body |-> m.body]
    BY <1>2, <1>3, <1>5, <1>6
  <2> QED
    BY <2>1 DEF IsMessage
<1> HIDE DEF Msg
<1>9. Decode(b) = {m}
  BY <1>2, <1>7, <1>8
<1> QED
  BY <1>9 DEF b

(* Every message that was parsed keeps its parts in either form. *)
LEMMA MessageFormsAgree ==
  ASSUME NEW buf \in Seq(Nat)
  PROVE  FormsAgree(buf)
<1> SUFFICES ASSUME NEW size \in Sizes, NEW m \in ParseMessage(buf, size)
             PROVE  /\ Decode(Bottle(m)) = {m}
                    /\ \A h \in ReadHeader(buf) : h.id = m.message_id /\ h.flags = m.flags
  BY DEF FormsAgree
<1>1. /\ IsMessage(m) /\ m.message_id = SubSeq(buf, 1, IdLen)
      /\ \A f \in ReadUvarint(buf, IdLen + 1) : m.flags = f.v
  BY MessageFacts
<1>2. ASSUME NEW h \in ReadHeader(buf)
      PROVE  h.id = m.message_id /\ h.flags = m.flags
  <2>1. PICK f \in ReadUvarint(buf, IdLen + 1) :
          h = [id |-> SubSeq(buf, 1, IdLen), flags |-> f.v, next |-> f.next]
    BY DEF ReadHeader
  <2> QED
    BY <1>1, <2>1
<1> QED
  BY <1>1, <1>2, BottleDecodes
----------------------------------------------------------------------------
(***************************************************************************)
(* Replies.                                                                *)
(***************************************************************************)

(* Bytes give a number. *)
LEMMA BigEndianIs ==
  ASSUME NEW b \in Seq(Nat)
  PROVE  BigEndian(b) \in Nat
<1> DEFINE n == Len(b)
           Is(f) == f = [s \in SUBSET (DOMAIN b) |->
                           IF s = {} THEN 0 ELSE TimeBase * f[s \ {Max(s)}] + b[Max(s)]]
           step == [p \in Nat \X Nat |-> TimeBase * p[1] + p[2]]
           g == CHOOSE f : Is(f)
<1>1. n \in Nat /\ DOMAIN b = 1..n /\ b \in [1..n -> Nat] /\ TimeBase \in Nat
  BY EncodingAssumption
<1>2. BigEndian(b) = g[DOMAIN b]
  BY DEF BigEndian, FoldLeft, MapThenFoldSet
<1>3. step \in [Nat \X Nat -> Nat]
  <2>1. \A x, y \in Nat : TimeBase * x + y \in Nat
    BY <1>1
  <2> QED
    BY <2>1
<1>4. \A x, y \in Nat : step[<<x, y>>] = TimeBase * x + y
  OBVIOUS
<1> HIDE DEF step, n
<1>5. PICK f : Folds(f, n, Nat, 0, b, step)
  BY <1>1, <1>3, FoldExists
<1>6. ASSUME NEW s \in SUBSET (1..n), s # {}
      PROVE  f[s] = TimeBase * f[s \ {Max(s)}] + b[Max(s)]
  <2>1. Max(s) \in s /\ s \ {Max(s)} \in SUBSET (1..n)
    BY <1>1, <1>6, MaxOf
  <2>2. f[s \ {Max(s)}] \in Nat /\ b[Max(s)] \in Nat
    BY <1>1, <1>5, <2>1 DEF Folds
  <2> QED
    BY <1>4, <1>5, <1>6, <2>2 DEF Folds
<1>7. Is(f)
  <2>1. f = [s \in SUBSET (1..n) |-> f[s]] /\ f[{}] = 0
    BY <1>5 DEF Folds
  <2>2. \A s \in SUBSET (1..n) :
          f[s] = IF s = {} THEN 0 ELSE TimeBase * f[s \ {Max(s)}] + b[Max(s)]
    BY <1>6, <2>1
  <2> QED
    BY <1>1, <2>1, <2>2, Zenon
<1>8. Is(g)
  BY <1>7
<1> HIDE DEF g
<1>9. Follows(g, n, Nat, 0, b, step)
  <2>1. ASSUME NEW s \in SUBSET (1..n), s # {}, g[s \ {Max(s)}] \in Nat
        PROVE  g[s] = step[<<g[s \ {Max(s)}], b[Max(s)]>>]
    <3>1. b[Max(s)] \in Nat
      BY <1>1, <2>1, MaxOf
    <3> QED
      BY <1>1, <1>4, <1>8, <2>1, <3>1
  <2>2. g[{}] = 0
    BY <1>1, <1>8
  <2> QED
    BY <2>1, <2>2 DEF Follows
<1>10. PICK st : Goes(st, n, Nat, 0, b, step, g[1..n])
  BY <1>1, <1>3, <1>9, FoldGoes
<1>11. g[1..n] \in Nat
  BY <1>1, <1>10 DEF Goes
<1> QED
  BY <1>1, <1>2, <1>11

(* Seconds and nanoseconds are carried as in their sum. *)
LEMMA Carry ==
  ASSUME NEW s \in Nat, NEW n \in Nat, NEW max \in Nat, NEW b \in Nat \ {0}
  PROVE  /\ (s * b + n) \div b = s + (n \div b)
         /\ (s * b + n) % b = n % b
         /\ s * b + n >= max * b <=> s + (n \div b) >= max
<1>1. s \in Int /\ n \in Int /\ max \in Int /\ b \in Int /\ b > 0 /\ s >= 0 /\ n >= 0 /\ max >= 0
  OBVIOUS
<1>2. (s * b + n) \div b = s + (n \div b) /\ (s * b + n) % b = n % b
  BY ONLY <1>1, Z3
<1>3. s * b + n >= max * b <=> s + (n \div b) >= max
  BY ONLY <1>1, Z3
<1> QED
  BY <1>2, <1>3

(* The server's time is taken over exactly. *)
LEMMA TimesAreExact ==
  ASSUME NEW res \in Seq(Nat)
  PROVE  TimeIsExact(res)
<1> DEFINE secs == BigEndian(SubSeq(res, 1, SecLen))
           nanos == BigEndian(SubSeq(res, SecLen + 1, SecLen + NanoLen))
           stated == secs * Billion + nanos
<1> SUFFICES ASSUME NEW t \in ParseServerTime(res)
             PROVE  IF stated >= MaxSecs * Billion THEN t = Panic
                    ELSE t = <<stated \div Billion, stated % Billion>>
  BY Zenon DEF TimeIsExact
<1>1. /\ SecLen \in Nat \ {0} /\ NanoLen \in Nat \ {0}
      /\ Billion \in Nat \ {0} /\ MaxSecs \in Nat /\ Len(res) \in Nat
  BY EncodingAssumption
<1>2. /\ ~(Len(res) < SecLen + NanoLen)
      /\ t = IF secs + nanos \div Billion >= MaxSecs THEN Panic
             ELSE <<secs + nanos \div Billion, nanos % Billion>>
  BY DEF ParseServerTime
<1>3. secs \in Nat
  <2>1. 1 + SecLen <= Len(res) + 1 /\ (1 + SecLen) - 1 = SecLen
    BY <1>1, <1>2
  <2>2. SubSeq(res, 1, SecLen) \in Seq(Nat)
    BY <1>1, <2>1, Cut
  <2> QED
    BY <2>2, BigEndianIs
<1>4. nanos \in Nat
  <2>1. /\ SecLen + 1 \in Nat \ {0} /\ (SecLen + 1) + NanoLen <= Len(res) + 1
        /\ (SecLen + 1) + NanoLen - 1 = SecLen + NanoLen
    BY <1>1, <1>2
  <2>2. SubSeq(res, SecLen + 1, SecLen + NanoLen) \in Seq(Nat)
    BY <1>1, <2>1, Cut
  <2> QED
    BY <2>2, BigEndianIs
<1> HIDE DEF secs, nanos
<1>5. /\ stated \div Billion = secs + (nanos \div Billion)
      /\ stated % Billion = nanos % Billion
      /\ stated >= MaxSecs * Billion <=> secs + (nanos \div Billion) >= MaxSecs
  BY <1>1, <1>3, <1>4, Carry
<1> QED
  BY <1>2, <1>5

(* What is left of a list is a list. *)
LEMMA TextsOfIs ==
  ASSUME NEW T, NEW list \in Seq(T)
  PROVE  TextsOf(list) \in Seq(T)
<1> DEFINE n == Len(list)
           S == Seq(T)
           Is(f) == f = [s \in SUBSET (DOMAIN list) |->
                           IF s = {} THEN <<>>
                           ELSE IF list[Max(s)] = NoText THEN f[s \ {Max(s)}]
                           ELSE Append(f[s \ {Max(s)}], list[Max(s)])]
           step == [p \in S \X T |-> IF p[2] = NoText THEN p[1] ELSE Append(p[1], p[2])]
           g == CHOOSE f : Is(f)
<1>1. n \in Nat /\ DOMAIN list = 1..n /\ list \in [1..n -> T] /\ <<>> \in S
  OBVIOUS
<1>2. TextsOf(list) = g[DOMAIN list]
  BY DEF TextsOf, FoldLeft, MapThenFoldSet
<1>3. step \in [S \X T -> S]
  <2>1. \A x \in S, y \in T : Append(x, y) \in S
    OBVIOUS
  <2> HIDE DEF S
  <2> QED
    BY <2>1
<1>4. \A x \in S, y \in T : step[<<x, y>>] = IF y = NoText THEN x ELSE Append(x, y)
  OBVIOUS
<1> HIDE DEF step, n, S
<1>5. PICK f : Folds(f, n, S, <<>>, list, step)
  BY <1>1, <1>3, FoldExists
<1>6. ASSUME NEW s \in SUBSET (1..n), s # {}
      PROVE  f[s] = IF list[Max(s)] = NoText THEN f[s \ {Max(s)}]
                    ELSE Append(f[s \ {Max(s)}], list[Max(s)])
  <2>1. Max(s) \in s /\ s \ {Max(s)} \in SUBSET (1..n)
    BY <1>1, <1>6, MaxOf
  <2>2. f[s \ {Max(s)}] \in S /\ list[Max(s)] \in T
    BY <1>1, <1>5, <2>1 DEF Folds
  <2> QED
    BY <1>4, <1>5, <1>6, <2>2 DEF Folds
<1>7. Is(f)
  <2>1. f = [s \in SUBSET (1..n) |-> f[s]] /\ f[{}] = <<>>
    BY <1>5 DEF Folds
  <2>2. \A s \in SUBSET (1..n) :
          f[s] = IF s = {} THEN <<>>
                 ELSE IF list[Max(s)] = NoText THEN f[s \ {Max(s)}]
                 ELSE Append(f[s \ {Max(s)}], list[Max(s)])
    BY <1>6, <2>1
  <2> QED
    BY <1>1, <2>1, <2>2, Zenon
<1>8. Is(g)
  BY <1>7
<1> HIDE DEF g
<1>9. Follows(g, n, S, <<>>, list, step)
  <2>1. ASSUME NEW s \in SUBSET (1..n), s # {}, g[s \ {Max(s)}] \in S
        PROVE  g[s] = step[<<g[s \ {Max(s)}], list[Max(s)]>>]
    <3>1. list[Max(s)] \in T
      BY <1>1, <2>1, MaxOf
    <3>2. g[s] = IF list[Max(s)] = NoText THEN g[s \ {Max(s)}]
                 ELSE Append(g[s \ {Max(s)}], list[Max(s)])
      BY <1>1, <1>8, <2>1
    <3> QED
      BY <1>4, <2>1, <3>1, <3>2
  <2>2. g[{}] = <<>>
    BY <1>1, <1>8
  <2> QED
    BY <2>1, <2>2 DEF Follows
<1>10. PICK st : Goes(st, n, S, <<>>, list, step, g[1..n])
  BY <1>1, <1>3, <1>9, FoldGoes
<1>11. g[1..n] \in S
  BY <1>1, <1>10 DEF Goes
<1> QED
  BY <1>1, <1>2, <1>11 DEF S

(* A threshold that the hosts can meet, whatever number is asked for. *)
LEMMA ThresholdsFit ==
  ASSUME NEW T, NEW reply, reply.hosts \in Seq(T), reply.min_conn \in Nat
  PROVE  ThresholdFits(reply)
<1> SUFFICES ASSUME NEW p \in ParseHosts(reply)
             PROVE  LET t == Threshold(p.hosts, p.min_conn)
                    IN  /\ t \in (IF p.hosts = <<>> THEN {0} ELSE 1..Len(p.hosts))
                        /\ reply.min_conn < U32 =>
                             t = (IF reply.min_conn \in 1..Len(p.hosts) THEN reply.min_conn
                                  ELSE Len(p.hosts))
  BY Zenon DEF ThresholdFits
<1>1. p.hosts = TextsOf(reply.hosts) /\ p.min_conn = reply.min_conn % U32
  BY DEF ParseHosts
<1>2. p.hosts \in Seq(T)
  BY <1>1, TextsOfIs
<1>3. U32 \in Nat \ {0}
  BY EncodingAssumption
<1>4. /\ reply.min_conn % U32 \in Nat
      /\ reply.min_conn < U32 => reply.min_conn % U32 = reply.min_conn
  BY <1>3
<1> DEFINE n == Len(p.hosts)
           k == reply.min_conn
           w == k % U32
<1>5. n \in Nat /\ (p.hosts = <<>> <=> n = 0)
  BY <1>2
<1>6. Threshold(p.hosts, p.min_conn) = IF w = 0 \/ w > n THEN n ELSE w
  BY <1>1 DEF Threshold
<1>7. k \in Nat /\ w \in Nat /\ (k < U32 => w = k)
  BY <1>4
<1> HIDE DEF n, w, k
<1> DEFINE t == Threshold(p.hosts, p.min_conn)
<1>8. t \in (IF p.hosts = <<>> THEN {0} ELSE 1..n)
  BY <1>5, <1>6, <1>7
<1>9. k < U32 => t = (IF k \in 1..n THEN k ELSE n)
  BY <1>5, <1>6, <1>7
<1> QED
  BY <1>8, <1>9 DEF n, k
----------------------------------------------------------------------------
(***************************************************************************)
(* Handshakes.                                                             *)
(***************************************************************************)

(* Only byte strings are kept, and all of them in their order. *)
LEMMA BytesOnlyIs ==
  ASSUME NEW L, NEW items \in Seq(L)
  PROVE  /\ BytesOnly(items) \in Seq(L \ {"text"})
         /\ items \in Seq(L \ {"text"}) => BytesOnly(items) = items
<1> DEFINE n == Len(items)
           B == L \ {"text"}
           S == Seq(B)
           Is(f) == f = [s \in SUBSET (DOMAIN items) |->
                           IF s = {} THEN <<>>
                           ELSE IF items[Max(s)] = "text" THEN f[s \ {Max(s)}]
                           ELSE Append(f[s \ {Max(s)}], items[Max(s)])]
           step == [p \in S \X L |-> IF p[2] = "text" THEN p[1] ELSE Append(p[1], p[2])]
           g == CHOOSE f : Is(f)
<1>1. n \in Nat /\ DOMAIN items = 1..n /\ items \in [1..n -> L] /\ <<>> \in S
  OBVIOUS
<1>2. BytesOnly(items) = g[DOMAIN items]
  BY DEF BytesOnly, FoldLeft, MapThenFoldSet
<1>3. step \in [S \X L -> S]
  <2>1. \A x \in S, y \in L : y # "text" => Append(x, y) \in S
    OBVIOUS
  <2> HIDE DEF S
  <2> QED
    BY <2>1
<1>4. \A x \in S, y \in L : step[<<x, y>>] = IF y = "text" THEN x ELSE Append(x, y)
  OBVIOUS
<1> HIDE DEF step, n, S
<1>5. PICK f : Folds(f, n, S, <<>>, items, step)
  BY <1>1, <1>3, FoldExists
<1>6. ASSUME NEW s \in SUBSET (1..n), s # {}
      PROVE  f[s] = IF items[Max(s)] = "text" THEN f[s \ {Max(s)}]
                    ELSE Append(f[s \ {Max(s)}], items[Max(s)])
  <2>1. Max(s) \in s /\ s \ {Max(s)} \in SUBSET (1..n)
    BY <1>1, <1>6, MaxOf
  <2>2. f[s \ {Max(s)}] \in S /\ items[Max(s)] \in L
    BY <1>1, <1>5, <2>1 DEF Folds
  <2> QED
    BY <1>4, <1>5, <1>6, <2>2 DEF Folds
<1>7. Is(f)
  <2>1. f = [s \in SUBSET (1..n) |-> f[s]] /\ f[{}] = <<>>
    BY <1>5 DEF Folds
  <2>2. \A s \in SUBSET (1..n) :
          f[s] = IF s = {} THEN <<>>
                 ELSE IF items[Max(s)] = "text" THEN f[s \ {Max(s)}]
                 ELSE Append(f[s \ {Max(s)}], items[Max(s)])
    BY <1>6, <2>1
  <2> QED
    BY <1>1, <2>1, <2>2, Zenon
<1>8. Is(g)
  BY <1>7
<1> HIDE DEF g
<1>9. Follows(g, n, S, <<>>, items, step)
  <2>1. ASSUME NEW s \in SUBSET (1..n), s # {}, g[s \ {Max(s)}] \in S
        PROVE  g[s] = step[<<g[s \ {Max(s)}], items[Max(s)]>>]
    <3>1. items[Max(s)] \in L
      BY <1>1, <2>1, MaxOf
    <3>2. g[s] = IF items[Max(s)] = "text" THEN g[s \ {Max(s)}]
                 ELSE Append(g[s \ {Max(s)}], items[Max(s)])
      BY <1>1, <1>8, <2>1
    <3> QED
      BY <1>4, <2>1, <3>1, <3>2
  <2>2. g[{}] = <<>>
    BY <1>1, <1>8
  <2> QED
    BY <2>1, <2>2 DEF Follows
<1>10. PICK st : Goes(st, n, S, <<>>, items, step, g[1..n])
  BY <1>1, <1>3, <1>9, FoldGoes
<1>11. BytesOnly(items) = st[n] /\ st[n] \in S
  BY <1>1, <1>2, <1>10 DEF Goes
<1>12. ASSUME items \in S
       PROVE  st[n] = items
  <2> DEFINE I == {i \in 0..n : st[i] = SubSeq(items, 1, i)}
  <2>1. items \in Seq(B) /\ Len(items) = n
    BY <1>12 DEF S, n
  <2>2. 0 \in I
    <3>1. SubSeq(items, 1, 0) = <<>>
      BY <2>1, SubSeqEmpty
    <3> QED
      BY <1>1, <1>10, <3>1 DEF Goes
  <2>3. ASSUME NEW i \in 0..(n - 1), i \in I
        PROVE  i + 1 \in I
    <3>1. i + 1 \in 1..n /\ (i + 1) - 1 = i /\ i + 1 \in 0..n /\ 1 <= i + 1 /\ i + 1 <= n
      BY <1>1
    <3>2. items[i + 1] \in L /\ items[i + 1] # "text" /\ st[i] \in S
      BY <1>1, <1>10, <2>1, <3>1 DEF Goes
    <3>3. st[i + 1] = Append(st[i], items[i + 1])
      BY <1>4, <1>10, <3>1, <3>2 DEF Goes
    <3>4. SubSeq(items, 1, i + 1) = Append(SubSeq(items, 1, i), items[i + 1])
      BY <1>1, <2>1, <3>1
    <3> QED
      BY <2>3, <3>1, <3>3, <3>4
  <2> HIDE DEF I
  <2>4. \A i \in 0..n : i \in I
    BY <1>1, <2>2, <2>3, UpTo
  <2>5. st[n] = SubSeq(items, 1, n)
    BY <1>1, <2>4 DEF I
  <2> QED
    BY <2>1, <2>5, SubSeqFull
<1> QED
  BY <1>11, <1>12 DEF S
(* Entries of a map: keys and types are names in N, known ones or not;     *)
(* texts and bytes are in V, the elements of arrays in L.                  *)
EntriesOf(N, V, L) ==
  {e \in [key : N, type : N, val : V \cup BOOLEAN \cup Seq(L)] :
     /\ e.type \in {"text", "bytes"} => e.val \in V
     /\ e.type = "bool" => e.val \in BOOLEAN
     /\ e.type = "array" => e.val \in Seq(L)}

LEMMA EntryIs ==
  ASSUME NEW N, NEW V, NEW L, NEW key \in N, NEW type \in N, NEW val,
         val \in V \/ val \in BOOLEAN \/ val \in Seq(L),
         type \in {"text", "bytes"} => val \in V,
         type = "bool" => val \in BOOLEAN,
         type = "array" => val \in Seq(L)
  PROVE  Entry(key, type, val) \in EntriesOf(N, V, L)
<1> DEFINE e == Entry(key, type, val)
<1>1. e \in [key : N, type : N, val : V \cup BOOLEAN \cup Seq(L)]
  BY DEF Entry
<1>2. e.type = type /\ e.val = val
  BY DEF Entry
<1> HIDE DEF e
<1>3. e \in EntriesOf(N, V, L)
  BY <1>1, <1>2, Zenon DEF EntriesOf
<1> QED
  BY <1>3 DEF e

(* The names of the protocol, and the text that stands for none. *)
HasEmpty(V) == "" \in V
HasNames(N) ==
  {"rdy", "srv", "cid", "rnd", "grp", "id", "key", "sig",
   "bool", "text", "bytes", "array", "null"} \subseteq N

LEMMA EntriesAre ==
  ASSUME NEW N, NEW V, NEW L, HasNames(N)
  PROVE  /\ Entry("rdy", "bool", TRUE) \in EntriesOf(N, V, L)
         /\ \A v \in V : /\ Entry("srv", "text", v) \in EntriesOf(N, V, L)
                        /\ Entry("cid", "text", v) \in EntriesOf(N, V, L)
                        /\ Entry("rnd", "bytes", v) \in EntriesOf(N, V, L)
                        /\ Entry("grp", "null", v) \in EntriesOf(N, V, L)
         /\ \A g \in Seq(L) : Entry("grp", "array", g) \in EntriesOf(N, V, L)
<1>1. /\ "rdy" \in N /\ "srv" \in N /\ "cid" \in N /\ "rnd" \in N
      /\ "grp" \in N /\ "bool" \in N /\ "text" \in N /\ "bytes" \in N
      /\ "array" \in N /\ "null" \in N
  BY DEF HasNames
<1>2. /\ "bool" \notin {"text", "bytes"} /\ "bool" # "array"
      /\ "text" # "bool" /\ "text" # "array" /\ "bytes" # "bool" /\ "bytes" # "array"
      /\ "array" \notin {"text", "bytes"} /\ "array" # "bool"
      /\ "null" \notin {"text", "bytes"} /\ "null" # "bool" /\ "null" # "array"
  OBVIOUS
<1>3. Entry("rdy", "bool", TRUE) \in EntriesOf(N, V, L)
  <2>1. TRUE \in BOOLEAN
    OBVIOUS
  <2> QED
    BY <1>1, <1>2, <2>1, EntryIs, Zenon
<1>4. ASSUME NEW v \in V
      PROVE  /\ Entry("srv", "text", v) \in EntriesOf(N, V, L)
             /\ Entry("cid", "text", v) \in EntriesOf(N, V, L)
             /\ Entry("rnd", "bytes", v) \in EntriesOf(N, V, L)
             /\ Entry("grp", "null", v) \in EntriesOf(N, V, L)
  <2>1. Entry("srv", "text", v) \in EntriesOf(N, V, L)
    BY <1>1, <1>2, EntryIs, Zenon
  <2>2. Entry("cid", "text", v) \in EntriesOf(N, V, L)
    BY <1>1, <1>2, EntryIs, Zenon
  <2>3. Entry("rnd", "bytes", v) \in EntriesOf(N, V, L)
    BY <1>1, <1>2, EntryIs, Zenon
  <2>4. Entry("grp", "null", v) \in EntriesOf(N, V, L)
    BY <1>1, <1>2, EntryIs, Zenon
  <2> QED
    BY <2>1, <2>2, <2>3, <2>4
<1>5. ASSUME NEW g \in Seq(L)
      PROVE  Entry("grp", "array", g) \in EntriesOf(N, V, L)
  BY <1>1, <1>2, EntryIs, Zenon
<1> QED
  BY <1>3, <1>4, <1>5

(* What can be read from such entries, with raw bytes of raws. *)
Requests(V, L, raws) ==
  [rdy : BOOLEAN, srv : V, cid : V, rnd : V,
   grp : {{}} \cup {{g} : g \in Seq(L \ {"text"})}, raw : raws]

LEMMA RequestEntryIs ==
  ASSUME NEW N, NEW V, NEW L, NEW raws, NEW req \in Requests(V, L, raws), NEW e \in EntriesOf(N, V, L)
  PROVE  RequestEntry(req, e) \in Requests(V, L, raws)
<1>1. /\ e.type = "bool" => e.val \in BOOLEAN
      /\ e.type \in {"text", "bytes"} => e.val \in V
      /\ e.type = "array" => e.val \in Seq(L)
  BY DEF EntriesOf
<1>2. e.type = "array" => {BytesOnly(e.val)} \in {{g} : g \in Seq(L \ {"text"})}
  BY <1>1, BytesOnlyIs
<1>3. CASE e.key = "rdy" /\ e.type = "bool"
  BY <1>1, <1>3 DEF RequestEntry, Requests
<1>4. CASE e.key = "srv" /\ e.type = "text"
  BY <1>1, <1>4 DEF RequestEntry, Requests
<1>5. CASE e.key = "cid" /\ e.type = "text"
  BY <1>1, <1>5 DEF RequestEntry, Requests
<1>6. CASE e.key = "rnd" /\ e.type = "bytes"
  BY <1>1, <1>6 DEF RequestEntry, Requests
<1>7. CASE e.key = "grp" /\ e.type = "array"
  <2>1. RequestEntry(req, e) = [req EXCEPT !.grp = {BytesOnly(e.val)}]
    BY <1>7 DEF RequestEntry
  <2> QED
    BY <1>2, <1>7, <2>1 DEF Requests
<1>8. CASE /\ ~(e.key = "rdy" /\ e.type = "bool")
           /\ ~(e.key = "srv" /\ e.type = "text")
           /\ ~(e.key = "cid" /\ e.type = "text")
           /\ ~(e.key = "rnd" /\ e.type = "bytes")
           /\ ~(e.key = "grp" /\ e.type = "array")
  BY <1>8 DEF RequestEntry
<1> QED
  BY <1>3, <1>4, <1>5, <1>6, <1>7, <1>8

(* Entries are read one by one. *)
RequestRead(st, entries, V, L) ==
  /\ st \in [0..Len(entries) -> Requests(V, L, {{entries}})]
  /\ st[0] = [NoRequest EXCEPT !.raw = {entries}]
  /\ \A i \in 1..Len(entries) : st[i] = RequestEntry(st[i - 1], entries[i])
  /\ RequestFromCbor(entries) = st[Len(entries)]

LEMMA RequestSteps ==
  ASSUME NEW N, NEW V, NEW L, HasEmpty(V), NEW entries \in Seq(EntriesOf(N, V, L))
  PROVE  \E st : RequestRead(st, entries, V, L)
<1> DEFINE n == Len(entries)
           E == EntriesOf(N, V, L)
           S == Requests(V, L, {{entries}})
           new == [NoRequest EXCEPT !.raw = {entries}]
           Is(f) == f = [s \in SUBSET (DOMAIN entries) |->
                           IF s = {} THEN new
                           ELSE RequestEntry(f[s \ {Max(s)}], entries[Max(s)])]
           step == [p \in S \X E |-> RequestEntry(p[1], p[2])]
           g == CHOOSE f : Is(f)
<1>1. n \in Nat /\ DOMAIN entries = 1..n /\ entries \in [1..n -> E]
  OBVIOUS
<1>2. new \in S
  BY DEF NoRequest, Requests, HasEmpty
<1>3. RequestFromCbor(entries) = g[DOMAIN entries]
  BY DEF RequestFromCbor, FoldLeft, MapThenFoldSet
<1> HIDE DEF new, n
<1>4. \A x \in S, y \in E : RequestEntry(x, y) \in S
  BY RequestEntryIs
<1> HIDE DEF S, E
<1>5. step \in [S \X E -> S]
  BY <1>4
<1>6. \A x \in S, y \in E : step[<<x, y>>] = RequestEntry(x, y)
  OBVIOUS
<1> HIDE DEF step
<1>7. PICK f : Folds(f, n, S, new, entries, step)
  BY <1>1, <1>2, <1>5, FoldExists
<1>8. ASSUME NEW s \in SUBSET (1..n), s # {}
      PROVE  f[s] = RequestEntry(f[s \ {Max(s)}], entries[Max(s)])
  <2>1. Max(s) \in s /\ s \ {Max(s)} \in SUBSET (1..n)
    BY <1>1, <1>8, MaxOf
  <2>2. f[s \ {Max(s)}] \in S /\ entries[Max(s)] \in E
    BY <1>1, <1>7, <2>1 DEF Folds
  <2> QED
    BY <1>6, <1>7, <1>8, <2>2 DEF Folds
<1>9. Is(f)
  <2>1. f = [s \in SUBSET (1..n) |-> f[s]] /\ f[{}] = new
    BY <1>7 DEF Folds
  <2>2. \A s \in SUBSET (1..n) :
          f[s] = IF s = {} THEN new ELSE RequestEntry(f[s \ {Max(s)}], entries[Max(s)])
    BY <1>8, <2>1
  <2> QED
    BY <1>1, <2>1, <2>2, Zenon
<1>10. Is(g)
  BY <1>9
<1> HIDE DEF g
<1>11. Follows(g, n, S, new, entries, step)
  <2>1. ASSUME NEW s \in SUBSET (1..n), s # {}, g[s \ {Max(s)}] \in S
        PROVE  g[s] = step[<<g[s \ {Max(s)}], entries[Max(s)]>>]
    <3>1. entries[Max(s)] \in E
      BY <1>1, <2>1, MaxOf
    <3>2. g[s] = RequestEntry(g[s \ {Max(s)}], entries[Max(s)])
      BY <1>1, <1>10, <2>1
    <3> QED
      BY <1>6, <2>1, <3>1, <3>2
  <2>2. g[{}] = new
    BY <1>1, <1>10
  <2> QED
    BY <2>1, <2>2 DEF Follows
<1>12. PICK st : Goes(st, n, S, new, entries, step, g[1..n])
  BY <1>1, <1>2, <1>5, <1>11, FoldGoes
<1>13. ASSUME NEW i \in 1..n
       PROVE  st[i] = RequestEntry(st[i - 1], entries[i])
  <2>1. i - 1 \in 0..n /\ entries[i] \in E
    BY <1>1
  <2>2. st[i - 1] \in S /\ st[i] = step[<<st[i - 1], entries[i]>>]
    BY <1>12, <2>1 DEF Goes
  <2> QED
    BY <1>6, <2>1, <2>2
<1>14. RequestRead(st, entries, V, L)
  BY <1>1, <1>3, <1>12, <1>13 DEF Goes, RequestRead, n, S, new
<1> QED
  BY <1>14
(* A request with these parts. *)
Request(rdy, srv, cid, rnd, grp, raw) ==
  [rdy |-> rdy, srv |-> srv, cid |-> cid, rnd |-> rnd, grp |-> grp, raw |-> raw]

(* The entries that to_cbor writes. *)
LEMMA RequestToCborIs ==
  ASSUME NEW N, NEW V, NEW L, HasNames(N), HasEmpty(V), NEW raws, NEW req \in Requests(V, L, raws)
  PROVE  LET es == RequestToCbor(req)
             k == IF req.rdy THEN 1 ELSE 0
         IN  /\ es \in Seq(EntriesOf(N, V, L)) /\ Len(es) = k + 4
             /\ req.rdy => es[1] = Entry("rdy", "bool", TRUE)
             /\ es[k + 1] = Entry("srv", "text", req.srv)
             /\ es[k + 2] = Entry("cid", "text", req.cid)
             /\ es[k + 3] = Entry("rnd", "bytes", req.rnd)
             /\ es[k + 4] = IF req.grp = {} THEN Entry("grp", "null", "")
                            ELSE Entry("grp", "array", CHOOSE g \in req.grp : TRUE)
<1> DEFINE E == EntriesOf(N, V, L)
           es == RequestToCbor(req)
           k == IF req.rdy THEN 1 ELSE 0
           ready == Entry("rdy", "bool", TRUE)
           srv == Entry("srv", "text", req.srv)
           cid == Entry("cid", "text", req.cid)
           rnd == Entry("rnd", "bytes", req.rnd)
           grp == IF req.grp = {} THEN Entry("grp", "null", "")
                  ELSE Entry("grp", "array", CHOOSE g \in req.grp : TRUE)
           a == IF req.rdy THEN <<ready>> ELSE <<>>
           b == <<srv, cid, rnd>>
           c == IF req.grp = {} THEN <<Entry("grp", "null", "")>>
                ELSE [i \in {1} |-> Entry("grp", "array", CHOOSE g \in req.grp : TRUE)]
<1>1. /\ req.rdy \in BOOLEAN /\ req.srv \in V /\ req.cid \in V /\ req.rnd \in V
      /\ req.grp \in {{}} \cup {{g} : g \in Seq(L \ {"text"})}
  BY DEF Requests
<1>2. ready \in E
  BY EntriesAre
<1>3. srv \in E /\ cid \in E /\ rnd \in E
  BY <1>1, EntriesAre
<1>4. grp \in E
  <2>1. CASE req.grp = {}
    <3>1. Entry("grp", "null", "") \in E
      BY EntriesAre DEF HasEmpty
    <3> QED
      BY <2>1, <3>1
  <2>2. CASE req.grp # {}
    <3>1. PICK g \in Seq(L \ {"text"}) : req.grp = {g}
      BY <1>1, <2>2
    <3>2. (CHOOSE h \in req.grp : TRUE) = g
      BY <3>1
    <3>3. g \in Seq(L)
      <4>1. L \ {"text"} \subseteq L
        OBVIOUS
      <4> QED
        BY <4>1, SeqMonotonic
    <3>4. Entry("grp", "array", g) \in E
      BY <3>3, EntriesAre
    <3> QED
      BY <2>2, <3>2, <3>4
  <2> QED
    BY <2>1, <2>2
<1>5. c = <<grp>>
  <2> DEFINE h == Entry("grp", "array", CHOOSE g \in req.grp : TRUE)
             none == Entry("grp", "null", "")
  <2>1. c = IF req.grp = {} THEN <<none>> ELSE [i \in {1} |-> h]
    OBVIOUS
  <2>2. grp = IF req.grp = {} THEN none ELSE h
    OBVIOUS
  <2> HIDE DEF c, grp, h, none
  <2>3. [i \in {1} |-> h] = <<h>>
    BY Z3
  <2> QED
    BY <2>1, <2>2, <2>3
<1>6. es = (a \o b) \o c
  BY DEF RequestToCbor
<1> HIDE DEF E, es, c, ready, srv, cid, rnd, grp
<1>7. /\ a \in Seq(E) /\ Len(a) = k /\ (req.rdy => a[1] = ready) /\ k \in 0..1
      /\ b \in Seq(E) /\ Len(b) = 3 /\ b[1] = srv /\ b[2] = cid /\ b[3] = rnd
      /\ c \in Seq(E) /\ Len(c) = 1 /\ c[1] = grp
  BY <1>1, <1>2, <1>3, <1>4, <1>5
<1> HIDE DEF a, b
<1> DEFINE ab == a \o b
<1>8. /\ ab \in Seq(E) /\ Len(ab) = k + 3
      /\ \A i \in 1..(k + 3) : ab[i] = IF i <= k THEN a[i] ELSE b[i - k]
  <2>1. /\ ab \in Seq(E) /\ Len(ab) = Len(a) + Len(b)
        /\ \A i \in 1..(Len(a) + Len(b)) : ab[i] = IF i <= Len(a) THEN a[i] ELSE b[i - Len(a)]
    BY <1>7, ConcatProperties
  <2> QED
    BY <1>7, <2>1
<1>9. /\ es \in Seq(E) /\ Len(es) = k + 4
      /\ \A i \in 1..(k + 4) : es[i] = IF i <= k + 3 THEN ab[i] ELSE c[i - (k + 3)]
  <2> HIDE DEF ab
  <2>1. es = ab \o c
    BY <1>6 DEF ab
  <2>2. /\ es \in Seq(E) /\ Len(es) = Len(ab) + Len(c)
        /\ \A i \in 1..(Len(ab) + Len(c)) : es[i] = IF i <= Len(ab) THEN ab[i] ELSE c[i - Len(ab)]
    BY <1>7, <1>8, <2>1, ConcatProperties
  <2>3. Len(ab) + Len(c) = k + 4 /\ Len(ab) = k + 3
    BY <1>7, <1>8
  <2> QED
    BY <2>2, <2>3
<1> HIDE DEF ab
<1>10. es[k + 1] = srv /\ es[k + 2] = cid /\ es[k + 3] = rnd
  BY <1>7, <1>8, <1>9
<1>11. es[k + 4] = grp
  BY <1>7, <1>9
<1>12. req.rdy => es[1] = ready
  BY <1>7, <1>8, <1>9
<1> QED
  BY <1>9, <1>10, <1>11, <1>12 DEF E, es, ready, srv, cid, rnd, grp
(* A request that was read is read back from its encoding. *)
LEMMA RequestReadsBack ==
  ASSUME NEW N, NEW V, NEW L, HasNames(N), HasEmpty(V), NEW raws, NEW req \in Requests(V, L, raws)
  PROVE  RequestFromCbor(RequestToCbor(req)) = [req EXCEPT !.raw = {RequestToCbor(req)}]
<1> DEFINE es == RequestToCbor(req)
           k == IF req.rdy THEN 1 ELSE 0
<1>1. /\ es \in Seq(EntriesOf(N, V, L)) /\ Len(es) = k + 4
      /\ req.rdy => es[1] = Entry("rdy", "bool", TRUE)
      /\ es[k + 1] = Entry("srv", "text", req.srv)
      /\ es[k + 2] = Entry("cid", "text", req.cid)
      /\ es[k + 3] = Entry("rnd", "bytes", req.rnd)
      /\ es[k + 4] = IF req.grp = {} THEN Entry("grp", "null", "")
                     ELSE Entry("grp", "array", CHOOSE g \in req.grp : TRUE)
  BY RequestToCborIs
<1>2. /\ req.rdy \in BOOLEAN /\ req.grp \in {{}} \cup {{g} : g \in Seq(L \ {"text"})}
      /\ req = Request(req.rdy, req.srv, req.cid, req.rnd, req.grp, req.raw)
  BY DEF Requests, Request
<1>3. k \in 0..1
  OBVIOUS
<1> HIDE DEF es
<1> DEFINE Read(rdy, srv, cid, rnd, grp) == Request(rdy, srv, cid, rnd, grp, {es})
<1>4. PICK st : RequestRead(st, es, V, L)
  BY <1>1, RequestSteps
<1>5. /\ st[0] = Read(FALSE, "", "", "", {})
      /\ \A i \in 1..(k + 4) : st[i] = RequestEntry(st[i - 1], es[i])
      /\ RequestFromCbor(es) = st[k + 4]
  BY <1>1, <1>4 DEF RequestRead, NoRequest, Request
<1>6. st[k] = Read(req.rdy, "", "", "", {})
  <2>1. CASE req.rdy
    <3>1. k = 1 /\ st[1] = RequestEntry(st[0], Entry("rdy", "bool", TRUE))
      <4>1. k = 1 /\ 1 \in 1..(k + 4) /\ 1 - 1 = 0
        BY <2>1
      <4> HIDE DEF k
      <4> QED
        BY <1>1, <1>5, <2>1, <4>1
    <3>2. req.rdy = TRUE
      BY <1>2, <2>1
    <3>3. RequestEntry(Read(FALSE, "", "", "", {}), Entry("rdy", "bool", TRUE))
            = Read(TRUE, "", "", "", {})
      BY DEF RequestEntry, Entry, Request
    <3> QED
      BY <1>5, <3>1, <3>2, <3>3
  <2>2. CASE ~req.rdy
    <3>1. k = 0 /\ req.rdy = FALSE
      BY <1>2, <2>2
    <3> QED
      BY <1>5, <3>1
  <2> QED
    BY <2>1, <2>2
<1> HIDE DEF k
<1>7. /\ k + 1 \in 1..(k + 4) /\ k + 2 \in 1..(k + 4) /\ k + 3 \in 1..(k + 4)
      /\ k + 4 \in 1..(k + 4)
      /\ (k + 1) - 1 = k /\ (k + 2) - 1 = k + 1 /\ (k + 3) - 1 = k + 2 /\ (k + 4) - 1 = k + 3
  BY <1>3
<1>8. st[k + 1] = Read(req.rdy, req.srv, "", "", {})
  <2>1. st[k + 1] = RequestEntry(st[k], Entry("srv", "text", req.srv))
    BY <1>1, <1>5, <1>7
  <2>2. RequestEntry(Read(req.rdy, "", "", "", {}), Entry("srv", "text", req.srv))
          = Read(req.rdy, req.srv, "", "", {})
    BY DEF RequestEntry, Entry, Request
  <2> QED
    BY <1>6, <2>1, <2>2
<1>9. st[k + 2] = Read(req.rdy, req.srv, req.cid, "", {})
  <2>1. st[k + 2] = RequestEntry(st[k + 1], Entry("cid", "text", req.cid))
    BY <1>1, <1>5, <1>7
  <2>2. RequestEntry(Read(req.rdy, req.srv, "", "", {}), Entry("cid", "text", req.cid))
          = Read(req.rdy, req.srv, req.cid, "", {})
    BY DEF RequestEntry, Entry, Request
  <2> QED
    BY <1>8, <2>1, <2>2
<1>10. st[k + 3] = Read(req.rdy, req.srv, req.cid, req.rnd, {})
  <2>1. st[k + 3] = RequestEntry(st[k + 2], Entry("rnd", "bytes", req.rnd))
    BY <1>1, <1>5, <1>7
  <2>2. RequestEntry(Read(req.rdy, req.srv, req.cid, "", {}), Entry("rnd", "bytes", req.rnd))
          = Read(req.rdy, req.srv, req.cid, req.rnd, {})
    BY DEF RequestEntry, Entry, Request
  <2> QED
    BY <1>9, <2>1, <2>2
<1>11. st[k + 4] = Read(req.rdy, req.srv, req.cid, req.rnd, req.grp)
  <2>1. CASE req.grp = {}
    <3>1. st[k + 4] = RequestEntry(st[k + 3], Entry("grp", "null", ""))
      BY <1>1, <1>5, <1>7, <2>1
    <3>2. RequestEntry(Read(req.rdy, req.srv, req.cid, req.rnd, {}), Entry("grp", "null", ""))
            = Read(req.rdy, req.srv, req.cid, req.rnd, {})
      BY DEF RequestEntry, Entry, Request
    <3> QED
      BY <1>10, <2>1, <3>1, <3>2
  <2>2. CASE req.grp # {}
    <3>1. PICK g \in Seq(L \ {"text"}) : req.grp = {g}
      BY <1>2, <2>2
    <3>2. (CHOOSE h \in req.grp : TRUE) = g
      BY <3>1
    <3>3. st[k + 4] = RequestEntry(st[k + 3], Entry("grp", "array", g))
      BY <1>1, <1>5, <1>7, <2>2, <3>2
    <3>4. BytesOnly(g) = g
      <4>1. L \ {"text"} \subseteq L
        OBVIOUS
      <4>2. g \in Seq(L)
        BY <4>1, SeqMonotonic
      <4> QED
        BY <4>2, BytesOnlyIs
    <3>5. RequestEntry(Read(req.rdy, req.srv, req.cid, req.rnd, {}), Entry("grp", "array", g))
            = Read(req.rdy, req.srv, req.cid, req.rnd, {BytesOnly(g)})
      BY DEF RequestEntry, Entry, Request
    <3> QED
      BY <1>10, <3>1, <3>3, <3>4, <3>5
  <2> QED
    BY <2>1, <2>2
<1>12. RequestFromCbor(es) = [req EXCEPT !.raw = {es}]
  <2>1. [req EXCEPT !.raw = {es}] = Read(req.rdy, req.srv, req.cid, req.rnd, req.grp)
    <3>1. req = Request(req.rdy, req.srv, req.cid, req.rnd, req.grp, req.raw)
      BY <1>2
    <3> QED
      BY <3>1 DEF Request
  <2> QED
    BY <1>5, <1>11, <2>1
<1> QED
  BY <1>12 DEF es

(* A response is read back from its encoding. *)
LEMMA ResponseReadsBack ==
  ASSUME NEW card, NEW pkix, NEW sig
  PROVE  LET res == [id |-> card, key |-> pkix, sig |-> sig]
         IN  ResponseFromCbor(ResponseToCbor(res)) = res
<1> DEFINE res == [id |-> card, key |-> pkix, sig |-> sig]
           es == ResponseToCbor(res)
           first == IF card = "" THEN Entry("id", "null", "") ELSE Entry("id", "bytes", card)
           E == {first, Entry("key", "bytes", pkix), Entry("sig", "bytes", sig)}
           S == [id : {"", card}, key : {"", pkix}, sig : {<<>>, sig}]
           Is(f) == f = [s \in SUBSET (DOMAIN es) |->
                           IF s = {} THEN NoResponse
                           ELSE ResponseEntry(f[s \ {Max(s)}], es[Max(s)])]
           step == [p \in S \X E |-> ResponseEntry(p[1], p[2])]
           g == CHOOSE f : Is(f)
<1>1. es = <<first, Entry("key", "bytes", pkix), Entry("sig", "bytes", sig)>>
  BY DEF ResponseToCbor
<1>2. NoResponse \in S
  BY DEF NoResponse
<1>3. \A x \in S : /\ ResponseEntry(x, first) = [x EXCEPT !.id = card] \/ card = ""
                   /\ card = "" => ResponseEntry(x, first) = x
                   /\ ResponseEntry(x, Entry("key", "bytes", pkix)) = [x EXCEPT !.key = pkix]
                   /\ ResponseEntry(x, Entry("sig", "bytes", sig)) = [x EXCEPT !.sig = sig]
  BY DEF ResponseEntry, Entry
<1>4. \A x \in S, y \in E : ResponseEntry(x, y) \in S
  <2>1. ASSUME NEW x \in S
        PROVE  ResponseEntry(x, first) \in S
    BY <1>3
  <2>2. ASSUME NEW x \in S
        PROVE  /\ ResponseEntry(x, Entry("key", "bytes", pkix)) \in S
               /\ ResponseEntry(x, Entry("sig", "bytes", sig)) \in S
    BY <1>3
  <2> HIDE DEF S, first
  <2> QED
    BY <2>1, <2>2
<1>5. ResponseFromCbor(es) = g[DOMAIN es]
  BY DEF ResponseFromCbor, FoldLeft, MapThenFoldSet
<1> HIDE DEF es, S, first
<1>6. /\ DOMAIN es = 1..3 /\ es \in [1..3 -> E]
      /\ es[1] = first /\ es[2] = Entry("key", "bytes", pkix)
      /\ es[3] = Entry("sig", "bytes", sig)
  BY <1>1
<1> HIDE DEF E
<1>7. step \in [S \X E -> S] /\ 3 \in Nat
  BY <1>4
<1>8. \A x \in S, y \in E : step[<<x, y>>] = ResponseEntry(x, y)
  OBVIOUS
<1> HIDE DEF step
<1>9. PICK f : Folds(f, 3, S, NoResponse, es, step)
  BY <1>2, <1>6, <1>7, FoldExists
<1>10. ASSUME NEW s \in SUBSET (1..3), s # {}
       PROVE  f[s] = ResponseEntry(f[s \ {Max(s)}], es[Max(s)])
  <2>1. Max(s) \in s /\ s \ {Max(s)} \in SUBSET (1..3)
    BY <1>7, <1>10, MaxOf
  <2>2. f[s \ {Max(s)}] \in S /\ es[Max(s)] \in E
    BY <1>6, <1>9, <2>1 DEF Folds
  <2> QED
    BY <1>8, <1>9, <1>10, <2>2 DEF Folds
<1>11. Is(f)
  <2>1. f = [s \in SUBSET (1..3) |-> f[s]] /\ f[{}] = NoResponse
    BY <1>9 DEF Folds
  <2>2. \A s \in SUBSET (1..3) :
          f[s] = IF s = {} THEN NoResponse ELSE ResponseEntry(f[s \ {Max(s)}], es[Max(s)])
    BY <1>10, <2>1
  <2> QED
    BY <1>6, <2>1, <2>2, Zenon
<1>12. Is(g)
  BY <1>11
<1> HIDE DEF g
<1>13. Follows(g, 3, S, NoResponse, es, step)
  <2>1. ASSUME NEW s \in SUBSET (1..3), s # {}, g[s \ {Max(s)}] \in S
        PROVE  g[s] = step[<<g[s \ {Max(s)}], es[Max(s)]>>]
    <3>1. es[Max(s)] \in E
      BY <1>6, <1>7, <2>1, MaxOf
    <3>2. g[s] = ResponseEntry(g[s \ {Max(s)}], es[Max(s)])
      BY <1>6, <1>12, <2>1
    <3> QED
      BY <1>8, <2>1, <3>1, <3>2
  <2>2. g[{}] = NoResponse
    BY <1>6, <1>12
  <2> QED
    BY <2>1, <2>2 DEF Follows
<1>14. PICK st : Goes(st, 3, S, NoResponse, es, step, g[1..3])
  BY <1>2, <1>6, <1>7, <1>13, FoldGoes
<1>15. /\ st[0] = NoResponse /\ st[0] \in S /\ st[1] \in S /\ st[2] \in S
       /\ st[1] = ResponseEntry(st[0], es[1]) /\ st[2] = ResponseEntry(st[1], es[2])
       /\ st[3] = ResponseEntry(st[2], es[3])
  <2>1. st \in [0..3 -> S] /\ \A i \in 1..3 : st[i] = step[<<st[i - 1], es[i]>>]
    BY <1>14 DEF Goes
  <2>2. /\ 0 \in 0..3 /\ 1 \in 0..3 /\ 2 \in 0..3 /\ 1 \in 1..3 /\ 2 \in 1..3 /\ 3 \in 1..3
        /\ 1 - 1 = 0 /\ 2 - 1 = 1 /\ 3 - 1 = 2
    OBVIOUS
  <2>3. es[1] \in E /\ es[2] \in E /\ es[3] \in E
    BY <1>6, <2>2
  <2>4. st[0] \in S /\ st[1] \in S /\ st[2] \in S
    BY <2>1, <2>2
  <2> QED
    BY <1>8, <1>14, <2>1, <2>2, <2>3, <2>4 DEF Goes
<1>16. st[1] = [id |-> card, key |-> "", sig |-> <<>>]
  <2>1. st[1] = ResponseEntry(NoResponse, first)
    BY <1>6, <1>15
  <2>2. CASE card = ""
    BY <1>2, <1>3, <2>1, <2>2 DEF NoResponse
  <2>3. CASE card # ""
    <3>1. st[1] = [NoResponse EXCEPT !.id = card]
      BY <1>2, <1>3, <2>1, <2>3
    <3> QED
      BY <3>1 DEF NoResponse
  <2> QED
    BY <2>2, <2>3
<1>17. st[2] = [id |-> card, key |-> pkix, sig |-> <<>>]
  <2>1. st[2] = [st[1] EXCEPT !.key = pkix]
    BY <1>3, <1>6, <1>15
  <2>2. PICK none : st[1] = [id |-> card, key |-> none, sig |-> <<>>]
    BY <1>16
  <2> QED
    BY ONLY <2>1, <2>2
<1>18. st[3] = res
  <2>1. st[3] = [st[2] EXCEPT !.sig = sig]
    BY <1>3, <1>6, <1>15
  <2> QED
    BY <1>17, <2>1
<1> QED
  BY <1>5, <1>6, <1>14, <1>18 DEF Goes, es
(* A packet that starts with a handshake's byte is one. *)
LEMMA HandshakeIs ==
  ASSUME NEW E, NEW entries \in Seq(E), NEW is_client, NEW size
  PROVE  ParsePacket(<<HANDSHAKE>> \o entries, is_client, size)
           = {[type |-> HANDSHAKE,
               payload |-> IF is_client THEN RequestFromCbor(entries)
                           ELSE ResponseFromCbor(entries)]}
<1> DEFINE buf == <<HANDSHAKE>> \o entries
           t == PacketType(buf[1])
           ping == {[type |-> PING_PONG, payload |-> Tail(buf)]}
           hello == {[type |-> HANDSHAKE,
                      payload |-> IF is_client THEN RequestFromCbor(Tail(buf))
                                  ELSE ResponseFromCbor(Tail(buf))]}
           msg == {[type |-> INSTANT_MSG, payload |-> m] : m \in ParseMessage(Tail(buf), size)}
<1>1. buf # <<>> /\ buf[1] = HANDSHAKE /\ Tail(buf) = entries
  <2>1. HANDSHAKE \in E \cup {HANDSHAKE} /\ entries \in Seq(E \cup {HANDSHAKE})
    BY SeqMonotonic
  <2> QED
    BY <2>1, Headed
<1>2. PING_PONG # HANDSHAKE
  BY DEF PING_PONG, HANDSHAKE
<1>3. Version(buf[1]) = 0 /\ t = HANDSHAKE
  BY <1>1, TypeByte
<1> HIDE DEF buf
<1>4. ParsePacket(buf, is_client, size)
        = CASE t = PING_PONG -> ping [] t = HANDSHAKE -> hello
            [] t = INSTANT_MSG -> msg [] OTHER -> {}
  BY <1>1, <1>3, Zenon DEF ParsePacket
<1>5. INSTANT_MSG # HANDSHAKE
  BY DEF INSTANT_MSG, HANDSHAKE
<1> HIDE DEF t, ping, hello, msg
<1>6. ParsePacket(buf, is_client, size) = hello
  BY <1>2, <1>3, <1>4, <1>5
<1> QED
  BY <1>1, <1>6 DEF buf, hello

(* The client signs the bytes that came, and both packets are read back. *)
LEMMA HandshakesAreExact ==
  ASSUME NEW N, NEW V, NEW L, HasNames(N), HasEmpty(V),
         NEW entries \in Seq(EntriesOf(N, V, L)), NEW pkix, NEW card
  PROVE  HandshakeIsExact(entries, pkix, card)
<1> DEFINE req == RequestFromCbor(entries)
           es == RequestToCbor(req)
           res == [id |-> card, key |-> pkix, sig |-> entries]
           rs == ResponseToCbor(res)
           Hello(p) == [type |-> HANDSHAKE, payload |-> p]
<1>1. req \in Requests(V, L, {{entries}})
  <2>1. PICK st : RequestRead(st, entries, V, L)
    BY RequestSteps
  <2> DEFINE S == Requests(V, L, {{entries}})
             n == Len(entries)
  <2>2. st \in [0..n -> S] /\ req = st[n]
    BY <2>1 DEF RequestRead
  <2>3. n \in 0..n
    OBVIOUS
  <2> HIDE DEF S, n, req
  <2>4. req \in S
    BY <2>2, <2>3
  <2> QED
    BY <2>4 DEF S
<1>2. HANDSHAKE # PING_PONG /\ HANDSHAKE # INSTANT_MSG
  BY DEF HANDSHAKE, PING_PONG, INSTANT_MSG
<1> HIDE DEF req
<1>3. req.raw = {entries} /\ "sig" \notin DOMAIN req
  BY <1>1 DEF Requests
<1>4. [Respond(req, pkix) EXCEPT !.id = card] = res
  <2>1. (CHOOSE r \in req.raw : TRUE) = entries /\ req.raw # {}
    BY <1>3
  <2>2. PICK empty : NoResponse = [id |-> empty, key |-> empty, sig |-> <<>>]
    BY DEF NoResponse
  <2>3. Respond(req, pkix) = [NoResponse EXCEPT !.key = pkix, !.sig = entries]
    BY <2>1, Zenon DEF Respond
  <2>4. Respond(req, pkix) = [id |-> empty, key |-> pkix, sig |-> entries]
    BY ONLY <2>2, <2>3
  <2> QED
    BY ONLY <2>4 DEF res
<1>5. EncodePacket(Hello(req)) = <<HANDSHAKE>> \o es
  BY <1>2, <1>3 DEF EncodePacket
<1>6. EncodePacket(Hello(res)) = <<HANDSHAKE>> \o rs
  BY <1>2 DEF EncodePacket
<1>7. es \in Seq(EntriesOf(N, V, L)) /\ RequestFromCbor(es) = [req EXCEPT !.raw = {es}]
  <2>1. es \in Seq(EntriesOf(N, V, L))
    BY <1>1, RequestToCborIs
  <2>2. RequestFromCbor(es) = [req EXCEPT !.raw = {es}]
    BY <1>1, RequestReadsBack
  <2> QED
    BY <2>1, <2>2
<1>8. ResponseFromCbor(rs) = res
  BY ResponseReadsBack
<1>9. \E E : rs \in Seq(E)
  <2>1. \A a, b, c : <<a, b, c>> \in Seq({a, b, c})
    OBVIOUS
  <2>2. PICK a, b, c : rs = <<a, b, c>>
    BY Zenon DEF ResponseToCbor
  <2> HIDE DEF rs
  <2> QED
    BY <2>1, <2>2
<1>10. [[req EXCEPT !.raw = {es}] EXCEPT !.raw = req.raw] = req
  BY <1>1 DEF Requests
<1> HIDE DEF es, res, rs
<1>11. ASSUME NEW size
       PROVE  /\ ParsePacket(<<HANDSHAKE>> \o entries, TRUE, size) = {Hello(req)}
              /\ ParsePacket(EncodePacket(Hello(req)), TRUE, size)
                   = {Hello([req EXCEPT !.raw = {es}])}
              /\ ParsePacket(EncodePacket(Hello(res)), FALSE, size) = {Hello(res)}
  <2>1. ParsePacket(<<HANDSHAKE>> \o entries, TRUE, size) = {Hello(req)}
    BY HandshakeIs DEF req
  <2>2. ParsePacket(<<HANDSHAKE>> \o es, TRUE, size) = {Hello([req EXCEPT !.raw = {es}])}
    BY <1>7, HandshakeIs
  <2>3. ParsePacket(<<HANDSHAKE>> \o rs, FALSE, size) = {Hello(res)}
    BY <1>8, <1>9, HandshakeIs
  <2> QED
    BY <1>5, <1>6, <2>1, <2>2, <2>3
<1>12. /\ Hello(req).payload = req /\ Hello(res).payload = res
       /\ Hello([req EXCEPT !.raw = {es}]).payload = [req EXCEPT !.raw = {es}]
       /\ res.sig = entries
  BY DEF res
<1> HIDE DEF Hello
<1>13. ASSUME NEW size
       PROVE  /\ \A pkt \in ParsePacket(<<HANDSHAKE>> \o entries, TRUE, size) :
                   pkt.payload = req
              /\ {[p.payload EXCEPT !.raw = req.raw] :
                    p \in ParsePacket(EncodePacket(Hello(req)), TRUE, size)} = {req}
              /\ {p.payload : p \in ParsePacket(EncodePacket(Hello(res)), FALSE, size)} = {res}
  <2> DEFINE p1 == Hello([req EXCEPT !.raw = {es}])
             p2 == Hello(res)
  <2>1. /\ ParsePacket(<<HANDSHAKE>> \o entries, TRUE, size) = {Hello(req)}
        /\ ParsePacket(EncodePacket(Hello(req)), TRUE, size) = {p1}
        /\ ParsePacket(EncodePacket(Hello(res)), FALSE, size) = {p2}
    BY <1>11
  <2>2. [p1.payload EXCEPT !.raw = req.raw] = req /\ p2.payload = res
    BY <1>10, <1>12
  <2> HIDE DEF p1, p2
  <2>3. {[p.payload EXCEPT !.raw = req.raw] : p \in {p1}} = {req}
    BY <2>2
  <2>4. {p.payload : p \in {p2}} = {res}
    BY <2>2
  <2> QED
    BY <1>12, <2>1, <2>3, <2>4
<1> QED
  <2> SUFFICES ASSUME NEW size \in Sizes,
                      NEW pkt \in ParsePacket(<<HANDSHAKE>> \o entries, TRUE, size)
               PROVE  LET q == pkt.payload
                          r == [Respond(q, pkix) EXCEPT !.id = card]
                          Again(p, is_client) ==
                            ParsePacket(EncodePacket(Hello(p)), is_client, size)
                      IN  /\ r.sig = entries
                          /\ {[p.payload EXCEPT !.raw = q.raw] : p \in Again(q, TRUE)} = {q}
                          /\ {p.payload : p \in Again(r, FALSE)} = {r}
    BY DEF HandshakeIsExact, Hello
  <2> DEFINE r == [Respond(pkt.payload, pkix) EXCEPT !.id = card]
  <2>1. pkt.payload = req /\ r = res
    BY <1>4, <1>13
  <2> HIDE DEF r
  <2>2. /\ r.sig = entries
        /\ {[p.payload EXCEPT !.raw = pkt.payload.raw] :
              p \in ParsePacket(EncodePacket(Hello(pkt.payload)), TRUE, size)} = {pkt.payload}
        /\ {p.payload : p \in ParsePacket(EncodePacket(Hello(r)), FALSE, size)} = {r}
    <3> DEFINE Same(q) == {[p.payload EXCEPT !.raw = q.raw] :
                             p \in ParsePacket(EncodePacket(Hello(q)), TRUE, size)}
               Back(q) == {p.payload : p \in ParsePacket(EncodePacket(Hello(q)), FALSE, size)}
    <3>1. Same(req) = {req} /\ Back(res) = {res}
      BY <1>13
    <3> HIDE DEF Same, Back
    <3>2. Same(pkt.payload) = {pkt.payload} /\ Back(r) = {r} /\ r.sig = entries
      BY <1>12, <2>1, <3>1
    <3> QED
      BY <3>2 DEF Same, Back
  <2> QED
    BY <2>2 DEF r
----------------------------------------------------------------------------
(***************************************************************************)
(* Chunks and their concatenation.                                         *)
(***************************************************************************)

(* A concatenation goes through the concatenations of the first parts. *)
Concats(F, parts, n) ==
  /\ F = [i \in 1..n |-> F[i]]
  /\ \A i \in 1..n : F[i] = IF i = 1 THEN parts[i] ELSE F[i - 1] \o parts[i]

(* FlattenSeq is a fold from either end: the last part is added last. *)
LEMMA FlattenIs ==
  ASSUME NEW n \in Nat \ {0}, NEW parts, Len(parts) = n, NEW F, Concats(F, parts, n)
  PROVE  FlattenSeq(parts) = F[n]
<1> DEFINE Is(f) == f = [i \in 1..Len(parts) |-> IF i = 1 THEN parts[i] ELSE f[i - 1] \o parts[i]]
           G == CHOOSE f : Is(f)
<1>1. FlattenSeq(parts) = G[n]
  BY DEF FlattenSeq
<1>2. Is(F)
  BY DEF Concats
<1>3. Is(G)
  BY <1>2
<1> HIDE DEF G
<1> DEFINE T == {i \in 0..n : i = 0 \/ G[i] = F[i]}
<1>4. 0 \in T
  OBVIOUS
<1>5. ASSUME NEW i \in 0..(n - 1), i \in T
      PROVE  i + 1 \in T
  <2>1. i + 1 \in 1..n /\ (i + 1) - 1 = i /\ (i + 1 = 1 <=> i = 0) /\ i + 1 \in 0..n
    OBVIOUS
  <2>2. G[i + 1] = IF i + 1 = 1 THEN parts[i + 1] ELSE G[(i + 1) - 1] \o parts[i + 1]
    BY <1>3, <2>1
  <2>3. F[i + 1] = IF i + 1 = 1 THEN parts[i + 1] ELSE F[(i + 1) - 1] \o parts[i + 1]
    BY <2>1 DEF Concats
  <2> QED
    BY <1>5, <2>1, <2>2, <2>3
<1> HIDE DEF T
<1>6. n \in T
  <2>1. \A i \in 0..n : i \in T
    BY <1>4, <1>5, UpTo
  <2> QED
    BY <2>1
<1> QED
  BY <1>1, <1>6 DEF T

(* The ends of the chunks of n elements, k to a chunk. *)
Chunked(m, n, k) == m \in Nat /\ n \in ((m - 1) * k + 1)..(m * k)
End(i, n, k) == IF i * k <= n THEN i * k ELSE n

(* Where the i-th chunk lies. *)
ChunkEnds(i, m, n, k) ==
  /\ (i - 1) * k \in Nat /\ i * k \in Nat /\ i * k = (i - 1) * k + k
  /\ End(i, n, k) \in ((i - 1) * k + 1)..n /\ End(i, n, k) <= i * k
  /\ i # m => End(i, n, k) = i * k
  /\ i = m => End(i, n, k) = n
  /\ i # 1 => i - 1 \in 1..m /\ End(i - 1, n, k) = (i - 1) * k

(* Every chunk lies where the arithmetic puts it. *)
LEMMA Ends ==
  ASSUME NEW k \in Nat \ {0}, NEW m \in Nat \ {0}, NEW n \in Nat, Chunked(m, n, k), NEW i \in 1..m
  PROVE  ChunkEnds(i, m, n, k)
<1>1. \A a \in Nat, b \in Nat : a <= b => a * k \in Nat /\ b * k \in Nat /\ a * k <= b * k
  <2>1. \A a, b \in Nat : a * b \in Nat
    BY Z3
  <2>2. ASSUME NEW a \in Nat, NEW b \in Nat, a <= b
        PROVE  a * k <= b * k
    <3>1. PICK c \in Nat : b = a + c
      <4>1. b - a \in Nat /\ b = a + (b - a)
        BY <2>2
      <4> QED
        BY <4>1
    <3>2. a \in Int /\ c \in Int /\ k \in Int
      OBVIOUS
    <3>3. b * k = a * k + c * k
      BY ONLY <3>1, <3>2, Z3
    <3>4. a * k \in Nat /\ c * k \in Nat
      BY <2>1
    <3> QED
      BY <3>3, <3>4
  <2> QED
    BY <2>1, <2>2
<1>2. (m - 1) * k + 1 <= n /\ n <= m * k
  BY DEF Chunked
<1> DEFINE a == (i - 1) * k
           b == i * k
           c == (m - 1) * k
           d == m * k
<1>3. a \in Nat /\ b \in Nat /\ c \in Nat /\ d \in Nat /\ a <= c /\ b <= d
  <2>1. i - 1 \in Nat /\ i \in Nat /\ m - 1 \in Nat /\ i - 1 <= m - 1 /\ i <= m
    OBVIOUS
  <2> HIDE DEF a, b, c, d
  <2> QED
    BY <1>1, <2>1 DEF a, b, c, d
<1>4. b = a + k
  BY Z3
<1>5. i # m => b <= c
  <2>1. i # m => i <= m - 1
    OBVIOUS
  <2>2. i \in Nat /\ m - 1 \in Nat
    OBVIOUS
  <2> HIDE DEF b, c
  <2> QED
    BY <1>1, <2>1, <2>2 DEF b, c
<1> HIDE DEF a, b, c, d
<1>6. c + 1 <= n /\ n <= d
  BY <1>2 DEF c, d
<1>7. /\ End(i, n, k) = (IF b <= n THEN b ELSE n)
      /\ End(i - 1, n, k) = (IF a <= n THEN a ELSE n)
  BY DEF End, a, b
<1>8. /\ End(i, n, k) \in (a + 1)..n /\ End(i, n, k) <= b
      /\ i # m => End(i, n, k) = b
  BY <1>3, <1>4, <1>5, <1>6, <1>7
<1>9. i = m => End(i, n, k) = n
  <2>1. i = m => b = d
    BY DEF b, d
  <2> QED
    BY <1>3, <1>6, <1>7, <2>1
<1>10. i # 1 => i - 1 \in 1..m /\ End(i - 1, n, k) = a
  BY <1>3, <1>6, <1>7
<1> QED
  BY <1>3, <1>4, <1>8, <1>9, <1>10 DEF a, b, ChunkEnds

(* A sequence is the concatenation of its chunks. *)
LEMMA ChunksJoin ==
  ASSUME NEW S, NEW s \in Seq(S), NEW k \in Nat \ {0}, NEW m \in Nat \ {0},
         Chunked(m, Len(s), k), NEW parts, DOMAIN parts = 1..m, Len(parts) = m,
         \A i \in 1..m : parts[i] = SubSeq(s, (i - 1) * k + 1, End(i, Len(s), k))
  PROVE  FlattenSeq(parts) = s
<1> DEFINE n == Len(s)
           F == [i \in 1..m |-> SubSeq(s, 1, End(i, n, k))]
<1>1. n \in Nat
  OBVIOUS
<1> HIDE DEF n
<1>2. \A i \in 1..m : ChunkEnds(i, m, n, k)
  <2>1. Chunked(m, n, k)
    BY DEF n
  <2> QED
    BY <1>1, <2>1, Ends
<1>4. ASSUME NEW i \in 1..m
      PROVE  F[i] = IF i = 1 THEN parts[i] ELSE F[i - 1] \o parts[i]
  <2> DEFINE a == (i - 1) * k
             b == End(i, n, k)
  <2>1. F[i] = SubSeq(s, 1, b) /\ parts[i] = SubSeq(s, a + 1, b)
    BY DEF n
  <2>2. CASE i = 1
    <3>1. a + 1 = 1
      BY <2>2
    <3> HIDE DEF a
    <3> QED
      BY <2>1, <2>2, <3>1
  <2>3. CASE i # 1
    <3>1. /\ a \in Nat /\ b \in (a + 1)..n
          /\ i - 1 \in 1..m /\ End(i - 1, n, k) = a
      BY <1>2, <2>3 DEF ChunkEnds
    <3>2. F[i - 1] = SubSeq(s, 1, a)
      BY <3>1
    <3> HIDE DEF F, a, b
    <3>3. 1 \in 1..(n + 1) /\ a \in (1 - 1)..n /\ b \in a..n
      BY <1>1, <3>1
    <3>4. SubSeq(s, 1, a) \o SubSeq(s, a + 1, b) = SubSeq(s, 1, b)
      BY <3>3, ConcatAdjacentSubSeq DEF n
    <3> QED
      BY <2>1, <2>3, <3>2, <3>4
  <2> QED
    BY <2>2, <2>3
<1>5. F = [i \in 1..m |-> F[i]] /\ F[m] = SubSeq(s, 1, n)
  <2>1. m \in 1..m /\ F[m] = SubSeq(s, 1, End(m, n, k)) /\ End(m, n, k) = n
    BY <1>2 DEF ChunkEnds
  <2> HIDE DEF n
  <2> QED
    BY <2>1
<1> HIDE DEF F
<1>6. FlattenSeq(parts) = F[m]
  <2>1. Concats(F, parts, m)
    BY <1>4, <1>5 DEF Concats
  <2> QED
    BY <2>1, FlattenIs
<1> QED
  BY <1>5, <1>6, SubSeqFull DEF n

(* A number with its quotient and its remainder. *)
LEMMA DivIs ==
  ASSUME NEW k \in Nat \ {0}, NEW q \in Nat, NEW r \in 0..(k - 1)
  PROVE  (q * k + r) \div k = q /\ (q * k + r) % k = r
<1>1. k \in Int /\ q \in Int /\ r \in Int /\ k > 0 /\ 0 <= r /\ r < k
  OBVIOUS
<1>2. (q * k + r) \div k = q
  BY ONLY <1>1, Z3
<1>3. (q * k + r) % k = r
  BY ONLY <1>1, Z3
<1> QED
  BY <1>2, <1>3

(* The number of chunks. *)
LEMMA CountIs ==
  ASSUME NEW k \in Nat \ {0}, NEW n \in Nat
  PROVE  /\ n # 0 => /\ (n + k - 1) \div k \in Nat \ {0}
                     /\ Chunked((n + k - 1) \div k, n, k)
         /\ n = 0 => (n + k - 1) \div k = 0
         /\ \A m \in Nat \ {0} : Chunked(m, n, k) => (n + k - 1) \div k = m
<1> DEFINE x == n + k - 1
           q == x \div k
           r == x % k
<1>1. x \in Nat
  OBVIOUS
<1>2. q \in Nat /\ r \in 0..(k - 1) /\ x = k * q + r
  <2> HIDE DEF x
  <2> QED
    BY <1>1, DivMod
<1> HIDE DEF q, r
<1>3. n # 0 => q \in Nat \ {0} /\ Chunked(q, n, k)
  <2> SUFFICES ASSUME n # 0
               PROVE  q \in Nat \ {0} /\ Chunked(q, n, k)
    OBVIOUS
  <2>1. q # 0
    <3> SUFFICES ASSUME q = 0
                 PROVE  FALSE
      OBVIOUS
    <3>1. k * q = 0
      OBVIOUS
    <3> QED
      BY <1>2, <3>1
  <2>2. k * q = q * k /\ (q - 1) * k = q * k - k /\ q * k \in Nat
    <3>1. q \in Int /\ k \in Int /\ q * k \in Nat
      BY <1>2, Z3
    <3> QED
      BY ONLY <3>1, Z3
  <2> DEFINE d == q * k
             c == (q - 1) * k
  <2> HIDE DEF c, d
  <2>3. c + 1 <= n /\ n <= d
    <3>1. n + k - 1 = d + r /\ c = d - k /\ d \in Nat
      BY <1>2, <2>2 DEF c, d
    <3> QED
      BY <1>2, <3>1
  <2>4. c \in Int /\ d \in Int
    BY <2>2 DEF c, d
  <2> QED
    BY <1>2, <2>1, <2>3, <2>4 DEF Chunked, c, d
<1>4. n = 0 => q = 0
  <2> SUFFICES ASSUME n = 0
               PROVE  q = 0
    OBVIOUS
  <2>1. x = 0 * k + (k - 1) /\ k - 1 \in 0..(k - 1)
    OBVIOUS
  <2> QED
    BY <2>1, DivIs DEF q
<1>5. ASSUME NEW m \in Nat \ {0}, Chunked(m, n, k)
      PROVE  q = m
  <2> DEFINE c == (m - 1) * k
             d == m * k
             t == n - c - 1
  <2>1. c + 1 <= n /\ n <= d /\ c \in Int /\ d = c + k
    <3>1. m \in Int /\ k \in Int
      OBVIOUS
    <3>2. c \in Int /\ d = c + k
      BY ONLY <3>1, Z3
    <3> QED
      BY <1>5, <3>2 DEF Chunked
  <2> HIDE DEF c, d
  <2>2. t \in 0..(k - 1) /\ x = d + t
    BY <2>1
  <2>3. x = m * k + t
    BY <2>2 DEF d
  <2> HIDE DEF t, x
  <2> QED
    BY <2>2, <2>3, DivIs DEF q
<1> QED
  BY <1>3, <1>4, <1>5 DEF q

(* The chunks of a sequence. *)
AreChunks(parts, s, m, k) ==
  /\ Chunked(m, Len(s), k)
  /\ DOMAIN parts = 1..m /\ Len(parts) = m
  /\ \A i \in 1..m : parts[i] = SubSeq(s, (i - 1) * k + 1, End(i, Len(s), k))

(* Chunks cuts at these places. *)
LEMMA ChunksAre ==
  ASSUME NEW S, NEW s \in Seq(S), NEW k \in Nat \ {0}
  PROVE  /\ s = <<>> => Chunks(s, k) = <<>>
         /\ s # <<>> => \E m \in Nat \ {0} : AreChunks(Chunks(s, k), s, m, k)
<1> DEFINE n == Len(s)
           m == (n + k - 1) \div k
           E(i) == SubSeq(s, (i - 1) * k + 1, Smaller(i * k, n))
<1>1. n \in Nat /\ (s = <<>> <=> n = 0)
  OBVIOUS
<1>2. Chunks(s, k) = [i \in 1..m |-> E(i)]
  BY DEF Chunks
<1>3. /\ n # 0 => m \in Nat \ {0} /\ Chunked(m, n, k)
      /\ n = 0 => m = 0
  <2> HIDE DEF n
  <2> QED
    BY <1>1, CountIs
<1>4. \A i \in Nat : E(i) = SubSeq(s, (i - 1) * k + 1, End(i, n, k))
  <2>1. ASSUME NEW i \in Nat
        PROVE  Smaller(i * k, n) = End(i, n, k)
    <3> DEFINE x == i * k
    <3>1. x \in Nat
      BY Z3
    <3> HIDE DEF x, n
    <3>2. (IF x < n THEN x ELSE n) = (IF x <= n THEN x ELSE n)
      BY <1>1, <3>1
    <3> QED
      BY <3>2 DEF Smaller, End, x
  <2> HIDE DEF n
  <2> QED
    BY <2>1
<1> HIDE DEF m, E
<1>5. CASE n = 0
  <2>1. 1..m = {} /\ 1..0 = {}
    BY <1>3, <1>5
  <2> QED
    BY <1>1, <1>2, <1>5, <2>1
<1>6. CASE n # 0
  <2>1. m \in Nat \ {0} /\ Chunked(m, n, k)
    BY <1>3, <1>6
  <2>2. DOMAIN Chunks(s, k) = 1..m /\ Len(Chunks(s, k)) = m
    BY <1>2, <2>1
  <2>3. \A i \in 1..m : Chunks(s, k)[i] = SubSeq(s, (i - 1) * k + 1, End(i, n, k))
    <3>1. \A i \in 1..m : i \in Nat /\ Chunks(s, k)[i] = E(i)
      BY <1>2, <2>1
    <3> QED
      BY <1>4, <3>1
  <2>4. AreChunks(Chunks(s, k), s, m, k)
    BY <2>1, <2>2, <2>3, Zenon DEF AreChunks
  <2> QED
    BY <1>1, <1>6, <2>1, <2>4
<1> QED
  BY <1>5, <1>6

(* m parts of k elements each, the last of which may be shorter. *)
AreParts(parts, m, k, S) ==
  /\ DOMAIN parts = 1..m /\ Len(parts) = m
  /\ \A i \in 1..m : parts[i] \in Seq(S) /\ Len(parts[i]) \in 1..k
  /\ \A i \in 1..(m - 1) : Len(parts[i]) = k

(* n is the number of their elements. *)
IsTotal(n, parts, m, k) == n = (m - 1) * k + Len(parts[m])

(* The place of element r of part i in their concatenation. *)
IsPlace(j, i, r, m, k, n) ==
  /\ j \in 1..n /\ j = (i - 1) * k + r
  /\ ((j - 1) \div k) + 1 = i /\ ((j - 1) % k) + 1 = r

(* Each part ends where its chunk does. *)
EndsFit(parts, m, n, k) == \A i \in 1..m : End(i, n, k) = (i - 1) * k + Len(parts[i])

(* Every index of the whole is a place in one of its parts. *)
LEMMA Places ==
  ASSUME NEW k \in Nat \ {0}, NEW m \in Nat \ {0}, NEW S, NEW parts, AreParts(parts, m, k, S),
         NEW n, IsTotal(n, parts, m, k)
  PROVE  /\ n \in Nat \ {0} /\ Chunked(m, n, k)
         /\ \A i \in 1..m : \A r \in 1..Len(parts[i]) : IsPlace((i - 1) * k + r, i, r, m, k, n)
         /\ \A j \in 1..n : /\ ((j - 1) \div k) + 1 \in 1..m
                            /\ ((j - 1) % k) + 1 \in 1..Len(parts[((j - 1) \div k) + 1])
         /\ EndsFit(parts, m, n, k)
<1> DEFINE c == (m - 1) * k
           l == Len(parts[m])
<1>1. c \in Nat /\ m * k = c + k /\ l \in 1..k /\ n = c + l
  <2>1. m - 1 \in Nat /\ k \in Nat
    OBVIOUS
  <2>2. c \in Nat
    BY ONLY <2>1, Z3
  <2>3. m * k = c + k
    <3>1. m \in Int /\ k \in Int
      OBVIOUS
    <3> QED
      BY ONLY <3>1, Z3
  <2>4. m \in 1..m
    OBVIOUS
  <2>5. l \in 1..k
    BY <2>4 DEF AreParts
  <2>6. n = c + l
    BY DEF IsTotal
  <2> HIDE DEF c, l
  <2> QED
    BY <2>2, <2>3, <2>5, <2>6 DEF c, l
<1>2. n \in Nat \ {0} /\ Chunked(m, n, k)
  <2>1. c + 1 <= n /\ n <= c + k /\ n \in Nat \ {0}
    <3> HIDE DEF c, l
    <3> QED
      BY <1>1
  <2>2. c \in Int /\ m * k = c + k
    BY <1>1
  <2>3. c = (m - 1) * k
    OBVIOUS
  <2> HIDE DEF c, l
  <2>4. (m - 1) * k + 1 <= n /\ n <= m * k /\ (m - 1) * k + 1 \in Int /\ m * k \in Int
    BY <2>1, <2>2, <2>3
  <2>5. \A u, v \in Int : u <= n /\ n <= v => n \in u..v
    BY <2>1
  <2> QED
    BY <2>1, <2>4, <2>5 DEF Chunked
<1>3. ASSUME NEW i \in 1..m
      PROVE  /\ (i - 1) * k \in Nat /\ i * k = (i - 1) * k + k
             /\ i # m => i * k <= c /\ Len(parts[i]) = k
             /\ i = m => (i - 1) * k = c /\ Len(parts[i]) = l
             /\ Len(parts[i]) \in 1..k
             /\ End(i, n, k) = (i - 1) * k + Len(parts[i])
  <2>1. ChunkEnds(i, m, n, k)
    BY <1>2, Ends
  <2>2. i # m => i \in 1..(m - 1)
    OBVIOUS
  <2>3. i # m => Len(parts[i]) = k
    BY <2>2 DEF AreParts
  <2>4. Len(parts[i]) \in 1..k
    BY DEF AreParts
  <2>5. i # m => i * k <= c
    <3> SUFFICES ASSUME i # m
                 PROVE  i * k <= c
      OBVIOUS
    <3>1. PICK d \in Nat : m - 1 = i + d
      <4>1. m - 1 - i \in Nat /\ m - 1 = i + (m - 1 - i)
        OBVIOUS
      <4> QED
        BY <4>1
    <3>2. c = i * k + d * k /\ d * k \in Nat /\ i * k \in Nat
      <4>1. i \in Nat /\ d \in Nat /\ k \in Nat /\ m - 1 = i + d
        BY <3>1
      <4>2. d * k \in Nat /\ i * k \in Nat
        BY ONLY <4>1, Z3
      <4>3. (i + d) * k = i * k + d * k
        BY ONLY <4>1, Z3
      <4> QED
        BY <4>1, <4>2, <4>3
    <3> HIDE DEF c
    <3> QED
      BY <1>1, <3>2
  <2>6. i = m => (i - 1) * k = c /\ Len(parts[i]) = l
    OBVIOUS
  <2> HIDE DEF c, l
  <2>7. End(i, n, k) = (i - 1) * k + Len(parts[i])
    BY <1>1, <2>1, <2>3, <2>6 DEF ChunkEnds
  <2> QED
    BY <2>1, <2>3, <2>4, <2>5, <2>6, <2>7 DEF ChunkEnds
<1>4. ASSUME NEW i \in 1..m, NEW r \in 1..Len(parts[i])
      PROVE  IsPlace((i - 1) * k + r, i, r, m, k, n)
  <2> DEFINE a == (i - 1) * k
             b == i * k
  <2>1. /\ a \in Nat /\ b = a + k /\ r \in 1..k
        /\ i # m => b <= c
        /\ i = m => a = c /\ r <= l
    <3>1. /\ a \in Nat /\ b = a + k
          /\ i # m => b <= c
          /\ i = m => a = c /\ Len(parts[i]) = l
          /\ Len(parts[i]) \in 1..k
      BY <1>3
    <3> HIDE DEF a, b, c, l
    <3> QED
      BY <3>1
  <2> HIDE DEF a, b, c, l
  <2>2. a + r \in 1..n
    BY <1>1, <2>1
  <2>3. i - 1 \in Nat /\ r - 1 \in 0..(k - 1)
    BY <2>1
  <2>4. ((i - 1) * k + (r - 1)) \div k = i - 1 /\ ((i - 1) * k + (r - 1)) % k = r - 1
    BY <2>3, DivIs
  <2>5. (a + r) - 1 = a + (r - 1)
    BY <2>1
  <2>6. (a + (r - 1)) \div k = i - 1 /\ (a + (r - 1)) % k = r - 1
    BY <2>4 DEF a
  <2>7. (i - 1) + 1 = i /\ (r - 1) + 1 = r
    BY <2>1
  <2> QED
    BY <2>2, <2>5, <2>6, <2>7 DEF IsPlace, a
<1>5. ASSUME NEW j \in 1..n
      PROVE  /\ ((j - 1) \div k) + 1 \in 1..m
             /\ ((j - 1) % k) + 1 \in 1..Len(parts[((j - 1) \div k) + 1])
  <2> DEFINE x == j - 1
             q == x \div k
             r == x % k
  <2>1. x \in Nat /\ x < n
    <3>1. n \in Nat
      BY <1>2
    <3> HIDE DEF c, l
    <3> QED
      BY <3>1
  <2>2. x = k * q + r /\ q \in Nat /\ r \in 0..(k - 1)
    <3> HIDE DEF x
    <3> QED
      BY <2>1, DivMod
  <2> HIDE DEF q, r
  <2>3. q < m
    <3> SUFFICES ASSUME q >= m
                 PROVE  FALSE
      BY <2>2
    <3>1. PICK d \in Nat : q = m + d
      <4>1. q - m \in Nat /\ q = m + (q - m)
        BY <2>2
      <4> QED
        BY <4>1
    <3>2. k * q = m * k + d * k /\ d * k \in Nat
      <4>1. m \in Nat /\ d \in Nat /\ k \in Nat /\ q = m + d
        BY <3>1
      <4>2. d * k \in Nat
        BY ONLY <4>1, Z3
      <4>3. k * q = m * k + d * k
        BY ONLY <4>1, Z3
      <4> QED
        BY <4>2, <4>3
    <3> DEFINE e == d * k
               f == k * q
               g == m * k
    <3>3. f = g + e /\ e \in Nat /\ g = c + k /\ x = f + r
      BY <1>1, <2>2, <3>2
    <3> HIDE DEF c, l, x, e, f, g
    <3> QED
      BY <1>1, <1>2, <2>1, <2>2, <3>3
  <2>4. q + 1 \in 1..m /\ (q + 1) - 1 = q
    BY <2>2, <2>3
  <2>5. r + 1 \in 1..Len(parts[q + 1])
    <3>1. CASE q + 1 # m
      <4>1. Len(parts[q + 1]) = k
        BY <1>3, <2>4, <3>1
      <4> QED
        BY <2>2, <4>1
    <3>2. CASE q + 1 = m
      <4>1. ((q + 1) - 1) * k = c /\ Len(parts[q + 1]) = l
        BY <1>3, <2>4, <3>2
      <4>2. k * q = c
        <5>1. q * k = c /\ q \in Int /\ k \in Int
          BY <2>2, <2>4, <4>1
        <5> QED
          BY ONLY <5>1, Z3
      <4>3. x = c + r /\ Len(parts[q + 1]) = l
        BY <2>2, <4>1, <4>2
      <4> HIDE DEF c, l, x
      <4>4. r < l
        BY <1>1, <2>1, <2>2, <4>3
      <4> QED
        BY <1>1, <2>2, <4>3, <4>4
    <3> QED
      BY <3>1, <3>2
  <2> QED
    BY <2>4, <2>5 DEF q, r
<1> QED
  BY <1>2, <1>3, <1>4, <1>5 DEF EndsFit

(* s holds the elements of the parts at their places. *)
Holds(s, parts, m, k) ==
  \A i \in 1..m : \A r \in 1..Len(parts[i]) : s[(i - 1) * k + r] = parts[i][r]

(* The concatenation of such parts, element by element, and its chunks. *)
LEMMA PartsJoin ==
  ASSUME NEW k \in Nat \ {0}, NEW m \in Nat \ {0}, NEW S, NEW parts, AreParts(parts, m, k, S)
  PROVE  /\ FlattenSeq(parts) \in Seq(S)
         /\ IsTotal(Len(FlattenSeq(parts)), parts, m, k)
         /\ Holds(FlattenSeq(parts), parts, m, k)
         /\ DOMAIN Chunks(FlattenSeq(parts), k) = 1..m
         /\ \A i \in 1..m : Chunks(FlattenSeq(parts), k)[i] = parts[i]
<1> DEFINE n == (m - 1) * k + Len(parts[m])
           P(j) == parts[((j - 1) \div k) + 1][((j - 1) % k) + 1]
           s == [j \in 1..n |-> P(j)]
<1>1. n \in Nat \ {0} /\ Chunked(m, n, k)
  <2>1. IsTotal(n, parts, m, k)
    BY DEF n, IsTotal
  <2> HIDE DEF n
  <2> QED
    BY <2>1, Places
<1>2. ASSUME NEW i \in 1..m, NEW r \in 1..Len(parts[i])
      PROVE  (i - 1) * k + r \in 1..n /\ P((i - 1) * k + r) = parts[i][r]
  <2> DEFINE j == (i - 1) * k + r
  <2>1. IsPlace(j, i, r, m, k, n)
    <3> HIDE DEF j, n
    <3>1. IsTotal(n, parts, m, k)
      BY DEF n, IsTotal
    <3> QED
      BY <3>1, Places DEF j
  <2> HIDE DEF j
  <2> QED
    BY <2>1 DEF IsPlace, j
<1>3. \A j \in 1..n : P(j) \in S
  <2> SUFFICES ASSUME NEW j \in 1..n
               PROVE  P(j) \in S
    OBVIOUS
  <2> DEFINE q == ((j - 1) \div k) + 1
             r == ((j - 1) % k) + 1
  <2>1. q \in 1..m /\ r \in 1..Len(parts[q])
    <3> HIDE DEF n
    <3>1. IsTotal(n, parts, m, k)
      BY DEF n, IsTotal
    <3> QED
      BY <3>1, Places
  <2> HIDE DEF q, r
  <2>2. parts[q][r] \in S
    BY <2>1 DEF AreParts
  <2> QED
    BY <2>2 DEF q, r
<1>4. EndsFit(parts, m, n, k)
  <2>1. IsTotal(n, parts, m, k)
    BY DEF n, IsTotal
  <2> HIDE DEF n
  <2> QED
    BY <2>1, Places
<1> HIDE DEF n, P
<1>5. s \in Seq(S) /\ Len(s) = n
  BY <1>1, <1>3
<1>6. \A i \in 1..m : \A r \in 1..Len(parts[i]) : s[(i - 1) * k + r] = parts[i][r]
  BY <1>2
<1> HIDE DEF s
<1>7. ASSUME NEW i \in 1..m
      PROVE  parts[i] = SubSeq(s, (i - 1) * k + 1, End(i, Len(s), k))
  <2> DEFINE a == (i - 1) * k
             l == Len(parts[i])
             t == SubSeq(s, a + 1, a + l)
  <2>1. a \in Nat /\ End(i, Len(s), k) = a + l /\ a + l <= n
    <3>1. ChunkEnds(i, m, n, k)
      BY <1>1, Ends
    <3>2. a \in Nat /\ End(i, n, k) = a + l /\ End(i, n, k) \in (a + 1)..n
      BY <1>4, <3>1 DEF ChunkEnds, EndsFit
    <3> HIDE DEF a, l
    <3> QED
      BY <1>1, <1>5, <3>2
  <2>2. parts[i] \in Seq(S) /\ l \in Nat
    BY DEF AreParts
  <2>3. \A r \in 1..l : s[a + r] = parts[i][r]
    BY <1>6
  <2> HIDE DEF a, l
  <2>4. t \in Seq(S) /\ Len(t) = l /\ \A r \in 1..l : t[r] = s[a + r]
    <3>1. \A r \in (a + 1)..(a + l) : r \in 1..n
      BY <1>1, <2>1, <2>2
    <3>2. \A r \in (a + 1)..(a + l) : s[r] \in S
      BY <1>5, <3>1
    <3>3. /\ a + 1 \in Int /\ a + l \in Int /\ (a + l) - (a + 1) + 1 = l
          /\ (IF a + 1 <= a + l THEN (a + l) - (a + 1) + 1 ELSE 0) = l
          /\ \A r \in 1..l : (a + 1) + r - 1 = a + r
      BY <2>1, <2>2
    <3> QED
      BY <3>2, <3>3, SubSeqProperties
  <2>5. t = parts[i]
    <3> HIDE DEF t
    <3>1. Len(parts[i]) = l
      BY DEF l
    <3> QED
      BY <2>2, <2>3, <2>4, <3>1
  <2> QED
    BY <2>1, <2>5 DEF a
<1>8. DOMAIN parts = 1..m /\ Len(parts) = m
  BY DEF AreParts
<1>9. Chunked(m, Len(s), k)
  BY <1>1, <1>5
<1>10. FlattenSeq(parts) = s
  BY <1>5, <1>7, <1>8, <1>9, ChunksJoin
<1>11. PICK w \in Nat \ {0} : AreChunks(Chunks(s, k), s, w, k)
  <2>1. s # <<>>
    BY <1>1, <1>5
  <2> QED
    BY <1>5, <2>1, ChunksAre
<1>12. w = m
  <2>1. (Len(s) + k - 1) \div k = w
    BY <1>1, <1>5, <1>11, CountIs DEF AreChunks
  <2>2. (Len(s) + k - 1) \div k = m
    BY <1>1, <1>5, <1>9, CountIs
  <2> QED
    BY <2>1, <2>2
<1>13. DOMAIN Chunks(s, k) = 1..m /\ \A i \in 1..m : Chunks(s, k)[i] = parts[i]
  BY <1>7, <1>11, <1>12 DEF AreChunks
<1> QED
  BY <1>5, <1>6, <1>10, <1>13 DEF n, IsTotal, Holds

(* Bytes, and digits of base 64. *)
Octets == 0..255
Digits == 0..63

(* A number in digits of base 64, and in bytes. *)
AreDigits(n, w, z, y, x) ==
  /\ w \in Nat /\ z \in Nat /\ y \in Nat /\ x \in Nat /\ z < 64 /\ y < 64 /\ x < 64
  /\ n = w * 262144 + z * 4096 + y * 64 + x

GivesDigits(n, w, z, y, x) ==
  n \div 262144 = w /\ (n \div 4096) % 64 = z /\ (n \div 64) % 64 = y /\ n % 64 = x

AreBytes(n, a, b, c) ==
  /\ a \in Nat /\ b \in Nat /\ c \in Nat /\ a < 256 /\ b < 256 /\ c < 256
  /\ n = a * 65536 + b * 256 + c

GivesBytes(n, a, b, c) ==
  n \div 65536 = a /\ (n \div 256) % 256 = b /\ n % 256 = c

(* A number of 24 bits gives four digits that give it back. *)
LEMMA DigitsAre ==
  ASSUME NEW w, NEW z, NEW y, NEW x, NEW n, AreDigits(n, w, z, y, x)
  PROVE  n \in Nat /\ GivesDigits(n, w, z, y, x)
<1>1. /\ \A q \in Nat, r \in Nat : r < 64 => (q * 64 + r) \div 64 = q
      /\ \A q \in Nat, r \in Nat : r < 64 => (q * 64 + r) % 64 = r
  BY SMT
<1>2. \A q \in Nat, r \in Nat : r < 4096 => (q * 4096 + r) \div 4096 = q
  BY SMT
<1>3. \A q \in Nat, r \in Nat : r < 262144 => (q * 262144 + r) \div 262144 = q
  BY SMT
<1> DEFINE u == w * 4096 + z * 64 + y
           v == w * 64 + z
           t == z * 4096 + y * 64 + x
           s == y * 64 + x
<1>4. /\ w \in Nat /\ z \in Nat /\ y \in Nat /\ x \in Nat /\ z < 64 /\ y < 64 /\ x < 64
      /\ u \in Nat /\ v \in Nat /\ t \in Nat /\ s \in Nat
      /\ s < 4096 /\ t < 262144
      /\ n = u * 64 + x /\ n = v * 4096 + s /\ n = w * 262144 + t
      /\ u = v * 64 + y /\ v = w * 64 + z
  BY SMT DEF AreDigits
<1> HIDE DEF u, v, t, s
<1>5. n \div 262144 = w
  BY <1>3, <1>4, SMT
<1>6. n \div 4096 = v /\ v % 64 = z
  BY <1>1, <1>2, <1>4, SMT
<1>7. n \div 64 = u /\ u % 64 = y /\ n % 64 = x
  BY <1>1, <1>4, SMT
<1>8. n \in Nat
  BY <1>4, SMT
<1> QED
  BY <1>5, <1>6, <1>7, <1>8, SMT DEF GivesDigits

(* Every number of 24 bits has such digits. *)
LEMMA DigitsExist ==
  ASSUME NEW n \in Nat
  PROVE  \E w, z, y, x : AreDigits(n, w, z, y, x)
<1>1. \A t \in Nat : \E q, r \in Nat : r < 64 /\ t = q * 64 + r
  <2> SUFFICES ASSUME NEW t \in Nat
               PROVE  \E q, r \in Nat : r < 64 /\ t = q * 64 + r
    OBVIOUS
  <2> DEFINE k == 64
             q == t \div k
             r == t % k
  <2>1. k \in Nat \ {0} /\ k = 64
    OBVIOUS
  <2> HIDE DEF k
  <2>2. t = k * q + r /\ q \in Nat /\ r \in 0..(k - 1)
    BY <2>1, DivMod
  <2> HIDE DEF q, r
  <2>3. q \in Nat /\ r \in Nat /\ r < 64 /\ t = q * 64 + r
    BY <2>1, <2>2
  <2> QED
    BY <2>3
<1>2. PICK u, x \in Nat : x < 64 /\ n = u * 64 + x
  BY <1>1
<1>3. PICK v, y \in Nat : y < 64 /\ u = v * 64 + y
  BY <1>1
<1>4. PICK w, z \in Nat : z < 64 /\ v = w * 64 + z
  BY <1>1
<1>5. AreDigits(n, w, z, y, x)
  BY <1>2, <1>3, <1>4, SMT DEF AreDigits
<1> QED
  BY <1>5

(* And three bytes. *)
LEMMA BytesAre ==
  ASSUME NEW a, NEW b, NEW c, NEW n, AreBytes(n, a, b, c)
  PROVE  n \in Nat /\ GivesBytes(n, a, b, c)
<1>1. /\ \A q \in Nat, r \in Nat : r < 256 => (q * 256 + r) \div 256 = q
      /\ \A q \in Nat, r \in Nat : r < 256 => (q * 256 + r) % 256 = r
  BY SMT
<1>2. \A q \in Nat, r \in Nat : r < 65536 => (q * 65536 + r) \div 65536 = q
  BY SMT
<1> DEFINE u == a * 256 + b
           t == b * 256 + c
<1>3. /\ a \in Nat /\ b \in Nat /\ c \in Nat /\ b < 256 /\ c < 256
      /\ u \in Nat /\ t \in Nat /\ t < 65536
      /\ n = u * 256 + c /\ n = a * 65536 + t /\ u = a * 256 + b
  BY SMT DEF AreBytes
<1> HIDE DEF u, t
<1>4. n \div 65536 = a
  BY <1>2, <1>3, SMT
<1>5. n \div 256 = u /\ u % 256 = b /\ n % 256 = c
  BY <1>1, <1>3, SMT
<1>6. n \in Nat
  BY <1>3, SMT
<1> QED
  BY <1>4, <1>5, <1>6, SMT DEF GivesBytes

(* Three bytes in four digits. *)
LEMMA DigitsHoldBytes ==
  ASSUME NEW a, NEW b, NEW c, NEW n, AreBytes(n, a, b, c)
  PROVE  \E w, z, y, x : /\ AreDigits(n, w, z, y, x) /\ w < 64
                         /\ c = 0 => x = 0
                         /\ b = 0 /\ c = 0 => y = 0
<1>1. n \in Nat
  BY BytesAre
<1>2. PICK w, z, y, x : AreDigits(n, w, z, y, x)
  BY <1>1, DigitsExist
<1>3. w < 64
  BY <1>2, SMT DEF AreDigits, AreBytes
<1>4. \A t \in Int : 0 <= 64 * t /\ 64 * t < 64 => 64 * t = 0
  BY SMT
<1>5. x \in Nat /\ y \in Nat /\ x < 64 /\ y < 64
  BY <1>2 DEF AreDigits
<1>6. c = 0 => x = 0
  <2> DEFINE t == a * 1024 + b * 4 - w * 4096 - z * 64 - y
  <2>1. t \in Int /\ (c = 0 => x = 64 * t)
    BY <1>2, SMT DEF AreDigits, AreBytes
  <2> HIDE DEF t
  <2> QED
    BY <1>4, <1>5, <2>1
<1>7. b = 0 /\ c = 0 => y = 0
  <2> DEFINE t == a * 16 - w * 64 - z
  <2>1. t \in Int /\ (b = 0 /\ c = 0 => y = 64 * t)
    BY <1>2, <1>6, SMT DEF AreDigits, AreBytes
  <2> HIDE DEF t
  <2> QED
    BY <1>4, <1>5, <2>1
<1> QED
  BY <1>2, <1>3, <1>6, <1>7

(* The first elements of a short sequence. *)
LEMMA TupleIs ==
  ASSUME NEW S, NEW s \in Seq(S)
  PROVE  /\ Len(s) = 1 => s = <<s[1]>>
         /\ Len(s) = 2 => s = <<s[1], s[2]>>
         /\ Len(s) = 3 => s = <<s[1], s[2], s[3]>>
         /\ Len(s) = 4 => s = <<s[1], s[2], s[3], s[4]>>
<1>1. Len(s) = 1 => s = <<s[1]>>
  OBVIOUS
<1>2. Len(s) = 2 => s = <<s[1], s[2]>>
  OBVIOUS
<1>3. Len(s) = 3 => s = <<s[1], s[2], s[3]>>
  OBVIOUS
<1>4. Len(s) = 4 => s = <<s[1], s[2], s[3], s[4]>>
  OBVIOUS
<1> QED
  BY <1>1, <1>2, <1>3, <1>4

(* The first elements. *)
LEMMA Firsts ==
  ASSUME NEW S, NEW s \in Seq(S), NEW k \in 0..Len(s)
  PROVE  /\ SubSeq(s, 1, k) \in Seq(S) /\ Len(SubSeq(s, 1, k)) = k
         /\ \A i \in 1..k : SubSeq(s, 1, k)[i] = s[i]
<1>1. \A i \in 1..k : s[i] \in S
  OBVIOUS
<1>2. k \in Int /\ 1 \in Int /\ (IF 1 <= k THEN k - 1 + 1 ELSE 0) = k /\ k - 1 + 1 = k
      /\ \A i \in 1..k : 1 + i - 1 = i
  OBVIOUS
<1> QED
  BY <1>1, <1>2, SubSeqProperties

(* What SubSeq cuts from tuples of three and four. *)
FirstOfThree(a, b, c) ==
  /\ SubSeq(<<a, b, c>>, 1, 1) = <<a>>
  /\ SubSeq(<<a, b, c>>, 1, 2) = <<a, b>>
  /\ SubSeq(<<a, b, c>>, 1, 3) = <<a, b, c>>

FirstOfFour(a, b, c, d) ==
  /\ SubSeq(<<a, b, c, d>>, 1, 2) = <<a, b>>
  /\ SubSeq(<<a, b, c, d>>, 1, 3) = <<a, b, c>>
  /\ SubSeq(<<a, b, c, d>>, 1, 4) = <<a, b, c, d>>

(* SubSeq cuts it. *)
LEMMA FirstOf ==
  ASSUME NEW S, NEW a \in S, NEW b \in S, NEW c \in S, NEW d \in S
  PROVE  FirstOfThree(a, b, c) /\ FirstOfFour(a, b, c, d)
<1> DEFINE t == <<a, b, c>>
           u == <<a, b, c, d>>
<1>1. /\ t \in Seq(S) /\ Len(t) = 3 /\ t[1] = a /\ t[2] = b /\ t[3] = c
      /\ u \in Seq(S) /\ Len(u) = 4 /\ u[1] = a /\ u[2] = b /\ u[3] = c /\ u[4] = d
  OBVIOUS
<1> HIDE DEF t, u
<1>2. SubSeq(t, 1, 1) = <<a>>
  <2>1. SubSeq(t, 1, 1) \in Seq(S) /\ Len(SubSeq(t, 1, 1)) = 1 /\ SubSeq(t, 1, 1)[1] = t[1]
    BY <1>1, Firsts
  <2> QED
    BY <1>1, <2>1, TupleIs
<1>3. SubSeq(t, 1, 2) = <<a, b>> /\ SubSeq(u, 1, 2) = <<a, b>>
  <2>1. /\ SubSeq(t, 1, 2) \in Seq(S) /\ Len(SubSeq(t, 1, 2)) = 2
        /\ SubSeq(t, 1, 2)[1] = t[1] /\ SubSeq(t, 1, 2)[2] = t[2]
    BY <1>1, Firsts
  <2>2. /\ SubSeq(u, 1, 2) \in Seq(S) /\ Len(SubSeq(u, 1, 2)) = 2
        /\ SubSeq(u, 1, 2)[1] = u[1] /\ SubSeq(u, 1, 2)[2] = u[2]
    BY <1>1, Firsts
  <2> QED
    BY <1>1, <2>1, <2>2, TupleIs
<1>4. SubSeq(t, 1, 3) = <<a, b, c>> /\ SubSeq(u, 1, 3) = <<a, b, c>>
  <2>1. /\ SubSeq(t, 1, 3) \in Seq(S) /\ Len(SubSeq(t, 1, 3)) = 3
        /\ SubSeq(t, 1, 3)[1] = t[1] /\ SubSeq(t, 1, 3)[2] = t[2]
        /\ SubSeq(t, 1, 3)[3] = t[3]
    BY <1>1, Firsts
  <2>2. /\ SubSeq(u, 1, 3) \in Seq(S) /\ Len(SubSeq(u, 1, 3)) = 3
        /\ SubSeq(u, 1, 3)[1] = u[1] /\ SubSeq(u, 1, 3)[2] = u[2]
        /\ SubSeq(u, 1, 3)[3] = u[3]
    BY <1>1, Firsts
  <2> QED
    BY <1>1, <2>1, <2>2, TupleIs
<1>5. SubSeq(u, 1, 4) = <<a, b, c, d>>
  <2>1. /\ SubSeq(u, 1, 4) \in Seq(S) /\ Len(SubSeq(u, 1, 4)) = 4
        /\ SubSeq(u, 1, 4)[1] = u[1] /\ SubSeq(u, 1, 4)[2] = u[2]
        /\ SubSeq(u, 1, 4)[3] = u[3] /\ SubSeq(u, 1, 4)[4] = u[4]
    BY <1>1, Firsts
  <2> QED
    BY <1>1, <2>1, TupleIs
<1> QED
  BY <1>2, <1>3, <1>4, <1>5 DEF t, u, FirstOfThree, FirstOfFour

(* Elements that a short chunk has not are 0. *)
LEMMA OrZeroIs ==
  ASSUME NEW S, 0 \in S, NEW s \in Seq(S), NEW i \in Nat \ {0}
  PROVE  OrZero(s, i) \in S
BY DEF OrZero

(* The digits of a chunk, of which it has one more than bytes. *)
LEMMA ChunkReadsBack ==
  ASSUME NEW chunk \in Seq(Octets), Len(chunk) \in 1..3
  PROVE  /\ Encoded(chunk) \in Seq(Digits)
         /\ Len(Encoded(chunk)) = Len(chunk) + 1
         /\ Decoded(Encoded(chunk)) = chunk
<1> DEFINE a == OrZero(chunk, 1)
           b == OrZero(chunk, 2)
           c == OrZero(chunk, 3)
           n == a * 65536 + b * 256 + c
           e == Encoded(chunk)
           d1 == n \div 262144
           d2 == (n \div 4096) % 64
           d3 == (n \div 64) % 64
           d4 == n % 64
           b1 == n \div 65536
           b2 == (n \div 256) % 256
           b3 == n % 256
<1>1. a \in Octets /\ b \in Octets /\ c \in Octets
  <2>1. 0 \in Octets /\ 1 \in Nat \ {0} /\ 2 \in Nat \ {0} /\ 3 \in Nat \ {0}
    BY DEF Octets
  <2> QED
    BY <2>1, OrZeroIs
<1>2. e = SubSeq(<<d1, d2, d3, d4>>, 1, Len(chunk) + 1)
  BY SMT DEF Encoded
<1> HIDE DEF a, b, c, e
<1>3. AreBytes(n, a, b, c)
  <2>1. /\ a \in Nat /\ b \in Nat /\ c \in Nat /\ a < 256 /\ b < 256 /\ c < 256
    BY <1>1 DEF Octets
  <2> QED
    BY <2>1, SMT DEF AreBytes
<1> HIDE DEF n, d1, d2, d3, d4, b1, b2, b3
<1>4. PICK p, q, r, s : /\ AreDigits(n, p, q, r, s) /\ p < 64
                        /\ c = 0 => s = 0
                        /\ b = 0 /\ c = 0 => r = 0
  BY <1>3, DigitsHoldBytes
<1>5. p \in Digits /\ q \in Digits /\ r \in Digits /\ s \in Digits
  BY <1>4, SMT DEF AreDigits, Digits
<1>6. e = SubSeq(<<p, q, r, s>>, 1, Len(chunk) + 1)
  <2>1. GivesDigits(n, p, q, r, s)
    BY <1>4, DigitsAre
  <2>2. d1 = p /\ d2 = q /\ d3 = r /\ d4 = s
    BY <2>1, SMT DEF GivesDigits, d1, d2, d3, d4
  <2> QED
    BY <1>2, <2>2
<1>7. FirstOfThree(a, b, c) /\ FirstOfFour(p, q, r, s)
  BY <1>1, <1>5, FirstOf
<1>8. ASSUME OrZero(e, 1) = p, OrZero(e, 2) = q, OrZero(e, 3) = r, OrZero(e, 4) = s
      PROVE  Decoded(e) = SubSeq(<<a, b, c>>, 1, Len(e) - 1)
  <2>1. OrZero(e, 1) * 262144 + OrZero(e, 2) * 4096 + OrZero(e, 3) * 64 + OrZero(e, 4) = n
    BY <1>4, <1>8, SMT DEF AreDigits
  <2>2. Decoded(e) = SubSeq(<<b1, b2, b3>>, 1, Len(e) - 1)
    BY <2>1, SMT DEF Decoded, b1, b2, b3
  <2>3. GivesBytes(n, a, b, c)
    BY <1>3, BytesAre
  <2>4. b1 = a /\ b2 = b /\ b3 = c
    BY <2>3, SMT DEF GivesBytes, b1, b2, b3
  <2> QED
    BY <2>2, <2>4
<1>9. CASE Len(chunk) = 1
  <2>1. e = <<p, q>> /\ b = 0 /\ c = 0 /\ chunk = <<a>>
    <3>1. e = SubSeq(<<p, q, r, s>>, 1, 2)
      BY <1>6, <1>9
    <3>2. SubSeq(<<p, q, r, s>>, 1, 2) = <<p, q>>
      BY <1>7, SMT DEF FirstOfFour
    <3>3. chunk = <<a>> /\ b = 0 /\ c = 0
      BY <1>9, TupleIs DEF a, b, c, OrZero
    <3> QED
      BY <3>1, <3>2, <3>3
  <2>2. Len(e) = 2 /\ e \in Seq(Digits)
    BY <1>5, <2>1
  <2>3. OrZero(e, 1) = p /\ OrZero(e, 2) = q /\ OrZero(e, 3) = r /\ OrZero(e, 4) = s
    BY <1>4, <2>1 DEF OrZero
  <2>4. Decoded(e) = <<a>>
    BY <1>7, <1>8, <2>2, <2>3 DEF FirstOfThree
  <2> QED
    BY <1>9, <2>1, <2>2, <2>4 DEF e
<1>10. CASE Len(chunk) = 2
  <2>1. e = <<p, q, r>> /\ c = 0 /\ chunk = <<a, b>>
    <3>1. e = SubSeq(<<p, q, r, s>>, 1, 3)
      BY <1>6, <1>10
    <3>2. SubSeq(<<p, q, r, s>>, 1, 3) = <<p, q, r>>
      BY <1>7, SMT DEF FirstOfFour
    <3>3. chunk = <<a, b>> /\ c = 0
      BY <1>10, TupleIs DEF a, b, c, OrZero
    <3> QED
      BY <3>1, <3>2, <3>3
  <2>2. Len(e) = 3 /\ e \in Seq(Digits)
    BY <1>5, <2>1
  <2>3. OrZero(e, 1) = p /\ OrZero(e, 2) = q /\ OrZero(e, 3) = r /\ OrZero(e, 4) = s
    BY <1>4, <2>1 DEF OrZero
  <2>4. Decoded(e) = <<a, b>>
    BY <1>7, <1>8, <2>2, <2>3 DEF FirstOfThree
  <2> QED
    BY <1>10, <2>1, <2>2, <2>4 DEF e
<1>11. CASE Len(chunk) = 3
  <2>1. e = <<p, q, r, s>> /\ chunk = <<a, b, c>>
    <3>1. e = SubSeq(<<p, q, r, s>>, 1, 4)
      BY <1>6, <1>11
    <3>2. SubSeq(<<p, q, r, s>>, 1, 4) = <<p, q, r, s>>
      BY <1>7, SMT DEF FirstOfFour
    <3>3. chunk = <<a, b, c>>
      BY <1>11, TupleIs DEF a, b, c, OrZero
    <3> QED
      BY <3>1, <3>2, <3>3
  <2>2. Len(e) = 4 /\ e \in Seq(Digits)
    BY <1>5, <2>1
  <2>3. OrZero(e, 1) = p /\ OrZero(e, 2) = q /\ OrZero(e, 3) = r /\ OrZero(e, 4) = s
    BY <2>1 DEF OrZero
  <2>4. Decoded(e) = <<a, b, c>>
    BY <1>7, <1>8, <2>2, <2>3 DEF FirstOfThree
  <2> QED
    BY <1>11, <2>1, <2>2, <2>4 DEF e
<1> QED
  BY <1>9, <1>10, <1>11

(* Nothing is cut into no chunks. *)
LEMMA NoChunks ==
  ASSUME NEW k \in Nat \ {0}
  PROVE  Chunks(<<>>, k) = <<>>
<1> DEFINE s == <<>>
<1>1. s \in Seq({}) /\ s = <<>>
  OBVIOUS
<1> HIDE DEF s
<1>2. Chunks(s, k) = <<>>
  BY <1>1, ChunksAre
<1> QED
  BY <1>1, <1>2

(* Text that holds data, of digits only. *)
LEMMA Base64ReadsBack ==
  ASSUME NEW data \in Seq(Octets)
  PROVE  /\ Base64Encode(data) \in Seq(Digits)
         /\ Base64Decode(Base64Encode(data)) = {data}
         /\ data # <<>> => Base64Encode(data) # <<>>
<1> DEFINE e == Base64Encode(data)
           bytes == Chunks(data, 3)
           digits == [i \in DOMAIN bytes |-> Encoded(bytes[i])]
<1>1. e = FlattenSeq(digits)
  BY DEF Base64Encode
<1>2. CASE data = <<>>
  <2>1. \A k \in {3, 4} : Chunks(<<>>, k) = <<>>
    <3>1. 3 \in Nat \ {0} /\ 4 \in Nat \ {0}
      OBVIOUS
    <3> QED
      BY <3>1, NoChunks
  <2>2. digits = <<>>
    <3>1. bytes = <<>>
      BY <1>2, <2>1
    <3> HIDE DEF bytes
    <3> QED
      BY <3>1
  <2>3. FlattenSeq(<<>>) = <<>>
    BY DEF FlattenSeq
  <2>4. e = <<>>
    BY <1>1, <2>2, <2>3
  <2> DEFINE chunks == Chunks(<<>>, 4)
             back == [i \in DOMAIN chunks |-> Decoded(chunks[i])]
  <2>5. back = <<>>
    <3>1. chunks = <<>>
      BY <2>1
    <3> HIDE DEF chunks
    <3> QED
      BY <3>1
  <2>6. Len(<<>>) % 4 # 1 /\ \A i \in DOMAIN <<>> : <<>>[i] \in 0..63
    OBVIOUS
  <2>7. Base64Decode(<<>>) = {FlattenSeq(back)}
    BY <2>6, Zenon DEF Base64Decode
  <2>8. <<>> \in Seq(Digits)
    OBVIOUS
  <2> HIDE DEF e, back
  <2>9. Base64Decode(e) = {data}
    BY <1>2, <2>3, <2>4, <2>5, <2>7
  <2>10. e \in Seq(Digits)
    BY <2>4, <2>8
  <2> QED
    BY <1>2, <2>9, <2>10 DEF e
<1>3. CASE data # <<>>
  <2>1. PICK m \in Nat \ {0} : AreChunks(bytes, data, m, 3)
    BY <1>3, ChunksAre
  <2>2. ASSUME NEW i \in 1..m
        PROVE  /\ bytes[i] \in Seq(Octets) /\ Len(bytes[i]) \in 1..3
               /\ i # m => Len(bytes[i]) = 3
    <3>1. ChunkEnds(i, m, Len(data), 3)
      BY <2>1, Ends DEF AreChunks
    <3>2. bytes[i] = SubSeq(data, (i - 1) * 3 + 1, End(i, Len(data), 3))
      BY <2>1 DEF AreChunks
    <3> HIDE DEF bytes
    <3> DEFINE u == (i - 1) * 3
               v == End(i, Len(data), 3)
    <3>3. u \in Nat /\ v \in (u + 1)..Len(data) /\ v <= u + 3 /\ (i # m => v = u + 3)
      BY <3>1 DEF ChunkEnds
    <3> HIDE DEF u, v
    <3>4. bytes[i] = SubSeq(data, u + 1, v)
      BY <3>2 DEF u, v
    <3>5. \A j \in (u + 1)..v : data[j] \in Octets
      <4>1. \A j \in (u + 1)..v : j \in 1..Len(data)
        BY <3>3
      <4> QED
        BY <4>1
    <3>6. u + 1 \in Int /\ v \in Int
      BY <3>3
    <3>7. /\ (IF u + 1 <= v THEN v - (u + 1) + 1 ELSE 0) \in 1..3
          /\ i # m => (IF u + 1 <= v THEN v - (u + 1) + 1 ELSE 0) = 3
      BY <3>3
    <3> QED
      BY <3>4, <3>5, <3>6, <3>7, SubSeqProperties
  <2>3. DOMAIN digits = 1..m /\ Len(digits) = m /\ \A i \in 1..m : digits[i] = Encoded(bytes[i])
    BY <2>1 DEF AreChunks
  <2> HIDE DEF digits, bytes
  <2>4. ASSUME NEW i \in 1..m
        PROVE  /\ digits[i] \in Seq(Digits) /\ Len(digits[i]) \in 2..4
               /\ i # m => Len(digits[i]) = 4
               /\ Decoded(digits[i]) = bytes[i]
    <3>1. /\ Encoded(bytes[i]) \in Seq(Digits)
          /\ Len(Encoded(bytes[i])) = Len(bytes[i]) + 1
          /\ Decoded(Encoded(bytes[i])) = bytes[i]
      BY <2>2, ChunkReadsBack
    <3>2. /\ Len(bytes[i]) \in 1..3 /\ (i # m => Len(bytes[i]) = 3)
          /\ digits[i] = Encoded(bytes[i])
      BY <2>2, <2>3
    <3> DEFINE l == Len(bytes[i])
    <3> HIDE DEF l
    <3>3. Len(digits[i]) = l + 1 /\ l \in 1..3 /\ (i # m => l = 3)
      BY <3>1, <3>2 DEF l
    <3>4. Len(digits[i]) \in 2..4 /\ (i # m => Len(digits[i]) = 4)
      BY <3>3
    <3> QED
      BY <3>1, <3>2, <3>4
  <2>5. AreParts(digits, m, 4, Digits)
    <3>1. \A i \in 1..m : digits[i] \in Seq(Digits) /\ Len(digits[i]) \in 1..4
      BY <2>4
    <3>2. \A i \in 1..(m - 1) : i \in 1..m /\ i # m
      OBVIOUS
    <3> QED
      BY <2>3, <2>4, <3>1, <3>2 DEF AreParts
  <2>6. /\ e \in Seq(Digits) /\ IsTotal(Len(e), digits, m, 4)
        /\ DOMAIN Chunks(e, 4) = 1..m
        /\ \A i \in 1..m : Chunks(e, 4)[i] = digits[i]
    <3> HIDE DEF e
    <3>1. 4 \in Nat \ {0}
      OBVIOUS
    <3> QED
      BY <1>1, <2>5, <3>1, PartsJoin
  <2> HIDE DEF e
  <2>7. Len(e) % 4 # 1 /\ Len(e) # 0
    <3>1. Len(digits[m]) \in 2..4
      BY <2>4
    <3>2. \A x \in Nat, l \in 2..4 : (x * 4 + l) % 4 # 1 /\ x * 4 + l # 0
      OBVIOUS
    <3>3. Len(e) = (m - 1) * 4 + Len(digits[m]) /\ m - 1 \in Nat
      BY <2>6 DEF IsTotal
    <3> QED
      BY <3>1, <3>2, <3>3
  <2>8. \A i \in DOMAIN e : e[i] \in Digits
    BY <2>6
  <2>9. [i \in DOMAIN Chunks(e, 4) |-> Decoded(Chunks(e, 4)[i])] = [i \in 1..m |-> bytes[i]]
    BY <2>4, <2>6
  <2>10. [i \in 1..m |-> bytes[i]] = bytes
    BY <2>1 DEF AreChunks, bytes, Chunks
  <2>11. FlattenSeq(bytes) = data
    <3>1. /\ Chunked(m, Len(data), 3) /\ DOMAIN bytes = 1..m /\ Len(bytes) = m
          /\ \A i \in 1..m : bytes[i] = SubSeq(data, (i - 1) * 3 + 1, End(i, Len(data), 3))
      BY <2>1 DEF AreChunks
    <3>2. 3 \in Nat \ {0}
      OBVIOUS
    <3> QED
      BY <3>1, <3>2, ChunksJoin
  <2>12. Base64Decode(e) = {data}
    BY <2>7, <2>8, <2>9, <2>10, <2>11, Zenon DEF Base64Decode, Digits
  <2>13. e # <<>>
    BY <2>7
  <2> QED
    BY <2>6, <2>12, <2>13 DEF e
<1> QED
  BY <1>2, <1>3

(***************************************************************************)
(* Text that is split at a separator.                                      *)
(***************************************************************************)
PartLists(T) == {x \in Seq(Seq(T)) : Len(x) # 0}

(* The last part takes an element more. *)
Grown(x, c) == [x EXCEPT ![Len(x)] = Append(@, c)]

(* It is a list of parts still. *)
LEMMA GrownIs ==
  ASSUME NEW T, NEW x \in PartLists(T), NEW c \in T
  PROVE  /\ Grown(x, c) \in PartLists(T) /\ Len(Grown(x, c)) = Len(x)
         /\ Grown(x, c)[Len(x)] = Append(x[Len(x)], c)
         /\ \A j \in 1..Len(x) : j # Len(x) => Grown(x, c)[j] = x[j]
         /\ Len(x) \in Nat \ {0} /\ x[Len(x)] \in Seq(T)
<1> DEFINE n == Len(x)
           U == Seq(T)
<1>1. x \in Seq(U) /\ n \in Nat \ {0} /\ DOMAIN x = 1..n /\ x = [i \in 1..n |-> x[i]]
  BY DEF PartLists
<1>2. \A i \in 1..n : x[i] \in U
  BY <1>1
<1>3. \A y \in U : Append(y, c) \in U
  OBVIOUS
<1>4. n \in 1..n
  BY <1>1
<1> DEFINE g == [i \in 1..n |-> IF i = n THEN Append(x[n], c) ELSE x[i]]
<1>5. Grown(x, c) = g
  BY <1>1, <1>4 DEF Grown
<1> HIDE DEF n, U
<1>6. \A i \in 1..n : g[i] \in U
  BY <1>2, <1>3, <1>4
<1>7. g \in Seq(U) /\ Len(g) = n
  <2>1. n \in Nat /\ g \in [1..n -> U]
    BY <1>1, <1>6
  <2> HIDE DEF g
  <2> QED
    BY <2>1
<1>8. /\ g[n] = Append(x[n], c)
      /\ \A j \in 1..n : j # n => g[j] = x[j]
  BY <1>4
<1> HIDE DEF g
<1> QED
  BY <1>1, <1>2, <1>4, <1>5, <1>7, <1>8 DEF PartLists, n, U

(* And so is one with an empty part more. *)
LEMMA MoreParts ==
  ASSUME NEW T, NEW x \in PartLists(T)
  PROVE  /\ Append(x, <<>>) \in PartLists(T) /\ Len(Append(x, <<>>)) = Len(x) + 1
         /\ Append(x, <<>>)[Len(x) + 1] = <<>>
         /\ \A j \in 1..Len(x) : Append(x, <<>>)[j] = x[j]
<1> DEFINE U == Seq(T)
<1>1. x \in Seq(U) /\ Len(x) \in Nat /\ <<>> \in U
  BY DEF PartLists
<1> HIDE DEF U
<1> QED
  BY <1>1 DEF PartLists, U

(* st goes through the parts of the first elements. *)
Splits(st, s, sep, T) ==
  /\ st \in [0..Len(s) -> PartLists(T)]
  /\ st[0] = <<<<>>>>
  /\ \A i \in 1..Len(s) :
       st[i] = IF s[i] = sep THEN Append(st[i - 1], <<>>) ELSE Grown(st[i - 1], s[i])
  /\ st[Len(s)] = Split(s, sep)

(* Split goes through these lists of parts. *)
LEMMA SplitGoes ==
  ASSUME NEW T, NEW sep, NEW s \in Seq(T)
  PROVE  \E st : Splits(st, s, sep, T)
<1> DEFINE n == Len(s)
           S == PartLists(T)
           Is(f) == f = [d \in SUBSET (DOMAIN s) |->
                           IF d = {} THEN <<<<>>>>
                           ELSE IF s[Max(d)] = sep THEN Append(f[d \ {Max(d)}], <<>>)
                           ELSE [f[d \ {Max(d)}] EXCEPT
                                   ![Len(f[d \ {Max(d)}])] = Append(@, s[Max(d)])]]
           step == [p \in S \X T |-> IF p[2] = sep THEN Append(p[1], <<>>) ELSE Grown(p[1], p[2])]
           g == CHOOSE f : Is(f)
<1>1. n \in Nat /\ DOMAIN s = 1..n /\ s \in [1..n -> T] /\ <<<<>>>> \in S
  BY DEF PartLists
<1>2. Split(s, sep) = g[DOMAIN s]
  BY DEF Split, FoldLeft, MapThenFoldSet
<1>3. step \in [S \X T -> S]
  <2>1. \A x \in S, y \in T : Append(x, <<>>) \in S /\ Grown(x, y) \in S
    BY GrownIs, MoreParts
  <2> HIDE DEF S
  <2> QED
    BY <2>1
<1>4. \A x \in S, y \in T :
        step[<<x, y>>] = IF y = sep THEN Append(x, <<>>) ELSE Grown(x, y)
  OBVIOUS
<1> HIDE DEF step, n, S
<1>5. PICK f : Folds(f, n, S, <<<<>>>>, s, step)
  BY <1>1, <1>3, FoldExists
<1>6. ASSUME NEW d \in SUBSET (1..n), d # {}
      PROVE  f[d] = IF s[Max(d)] = sep THEN Append(f[d \ {Max(d)}], <<>>)
                    ELSE Grown(f[d \ {Max(d)}], s[Max(d)])
  <2>1. Max(d) \in d /\ d \ {Max(d)} \in SUBSET (1..n)
    BY <1>1, <1>6, MaxOf
  <2>2. f[d \ {Max(d)}] \in S /\ s[Max(d)] \in T
    BY <1>1, <1>5, <2>1 DEF Folds
  <2> QED
    BY <1>4, <1>5, <1>6, <2>2 DEF Folds
<1>7. Is(f)
  <2>1. f = [d \in SUBSET (1..n) |-> f[d]] /\ f[{}] = <<<<>>>>
    BY <1>5 DEF Folds
  <2>2. \A d \in SUBSET (1..n) :
          f[d] = IF d = {} THEN <<<<>>>>
                 ELSE IF s[Max(d)] = sep THEN Append(f[d \ {Max(d)}], <<>>)
                 ELSE Grown(f[d \ {Max(d)}], s[Max(d)])
    BY <1>6, <2>1
  <2> QED
    BY <1>1, <2>1, <2>2, Zenon DEF Grown
<1>8. Is(g)
  BY <1>7
<1> HIDE DEF g
<1>9. Follows(g, n, S, <<<<>>>>, s, step)
  <2>1. ASSUME NEW d \in SUBSET (1..n), d # {}, g[d \ {Max(d)}] \in S
        PROVE  g[d] = step[<<g[d \ {Max(d)}], s[Max(d)]>>]
    <3>1. s[Max(d)] \in T
      BY <1>1, <2>1, MaxOf
    <3>2. g[d] = IF s[Max(d)] = sep THEN Append(g[d \ {Max(d)}], <<>>)
                 ELSE Grown(g[d \ {Max(d)}], s[Max(d)])
      BY <1>1, <1>8, <2>1, Zenon DEF Grown
    <3> QED
      BY <1>4, <2>1, <3>1, <3>2
  <2>2. g[{}] = <<<<>>>>
    BY <1>1, <1>8
  <2> QED
    BY <2>1, <2>2 DEF Follows
<1>10. PICK st : Goes(st, n, S, <<<<>>>>, s, step, g[1..n])
  BY <1>1, <1>3, <1>9, FoldGoes
<1>11. \A i \in 1..n : st[i] = IF s[i] = sep THEN Append(st[i - 1], <<>>) ELSE Grown(st[i - 1], s[i])
  <2> SUFFICES ASSUME NEW i \in 1..n
               PROVE  st[i] = IF s[i] = sep THEN Append(st[i - 1], <<>>) ELSE Grown(st[i - 1], s[i])
    OBVIOUS
  <2>1. st[i - 1] \in S /\ s[i] \in T /\ st[i] = step[<<st[i - 1], s[i]>>]
    BY <1>1, <1>10 DEF Goes
  <2> QED
    BY <1>4, <2>1
<1>12. Splits(st, s, sep, T)
  BY <1>1, <1>2, <1>10, <1>11 DEF Goes, Splits, n, S
<1> QED
  BY <1>12

(* A part of a sequence with one element more. *)
LEMMA CutGrows ==
  ASSUME NEW T, NEW s \in Seq(T), NEW a \in 1..Len(s), NEW b \in 1..Len(s), a <= b
  PROVE  SubSeq(s, a, b) = Append(SubSeq(s, a, b - 1), s[b])
<1> DEFINE t == SubSeq(s, a, b)
           u == SubSeq(s, a, b - 1)
           l == b - a
<1>1. \A i \in a..b : s[i] \in T
  OBVIOUS
<1>2. \A i \in a..(b - 1) : s[i] \in T
  OBVIOUS
<1>3. /\ a \in Int /\ b \in Int /\ b - 1 \in Int /\ l \in Nat
      /\ (IF a <= b THEN b - a + 1 ELSE 0) = l + 1 /\ b - a + 1 = l + 1
      /\ (IF a <= b - 1 THEN (b - 1) - a + 1 ELSE 0) = l /\ (b - 1) - a + 1 = l
      /\ a + (l + 1) - 1 = b
  OBVIOUS
<1>4. t \in Seq(T) /\ Len(t) = l + 1 /\ \A i \in 1..(l + 1) : t[i] = s[a + i - 1]
  BY <1>1, <1>3, SubSeqProperties
<1>5. u \in Seq(T) /\ Len(u) = l /\ \A i \in 1..l : u[i] = s[a + i - 1]
  BY <1>2, <1>3, SubSeqProperties
<1>6. s[b] \in T
  OBVIOUS
<1> DEFINE v == Append(u, s[b])
<1> HIDE DEF t, u, l
<1>7. /\ v \in Seq(T) /\ Len(v) = l + 1 /\ v[l + 1] = s[b]
      /\ \A i \in 1..l : v[i] = u[i]
  BY <1>3, <1>5, <1>6
<1> HIDE DEF v
<1>8. \A i \in 1..Len(t) : t[i] = v[i]
  <2> SUFFICES ASSUME NEW i \in 1..(l + 1)
               PROVE  t[i] = v[i]
    BY <1>4
  <2>1. CASE i = l + 1
    BY <1>3, <1>4, <1>7, <2>1
  <2>2. CASE i # l + 1
    <3>1. i \in 1..l
      BY <1>3, <2>2
    <3> QED
      BY <1>4, <1>5, <1>7, <3>1
  <2> QED
    BY <2>1, <2>2
<1>9. t = v
  BY <1>4, <1>7, <1>8, SeqEqual
<1> QED
  BY <1>9 DEF t, u, v

(* Where the first part ends, and where the last one begins. *)
EndsFirst(p, s, sep) ==
  p \in 0..Len(s) /\ (\A i \in 1..p : s[i] # sep) /\ (p # Len(s) => s[p + 1] = sep)
BeginsLast(p, s, sep) ==
  p \in 1..Len(s) /\ s[p] = sep /\ \A i \in (p + 1)..Len(s) : s[i] # sep

(* The first of some parts. *)
HasFirst(parts, x) == parts[1] = x

(* The first part ends before the first separator. *)
LEMMA FirstPart ==
  ASSUME NEW T, NEW sep, NEW s \in Seq(T), NEW p, EndsFirst(p, s, sep)
  PROVE  HasFirst(Split(s, sep), SubSeq(s, 1, p))
<1> DEFINE n == Len(s)
<1>1. PICK st : Splits(st, s, sep, T)
  BY SplitGoes
<1>2. n \in Nat /\ p \in Nat /\ p <= n
  BY DEF EndsFirst
<1>0. (\A i \in 1..p : s[i] # sep) /\ (p # Len(s) => s[p + 1] = sep)
  BY DEF EndsFirst
<1> HIDE DEF n
<1>3. /\ st \in [0..n -> PartLists(T)]
      /\ st[0] = <<<<>>>>
      /\ \A i \in 1..n :
           st[i] = IF s[i] = sep THEN Append(st[i - 1], <<>>) ELSE Grown(st[i - 1], s[i])
      /\ st[n] = Split(s, sep)
  BY <1>1 DEF Splits, n
<1> DEFINE I == {i \in 0..n : /\ i <= p => Len(st[i]) = 1 /\ st[i][1] = SubSeq(s, 1, i)
                              /\ i > p => Len(st[i]) > 1 /\ st[i][1] = SubSeq(s, 1, p)}
<1>4. 0 \in I
  <2>1. Len(<<<<>>>>) = 1 /\ <<<<>>>>[1] = <<>>
    OBVIOUS
  <2>2. SubSeq(s, 1, 0) = <<>>
    BY SubSeqEmpty
  <2>3. 0 \in 0..n /\ ~(0 > p)
    BY <1>2
  <2>4. Len(st[0]) = 1 /\ st[0][1] = SubSeq(s, 1, 0)
    BY <1>3, <2>1, <2>2
  <2> QED
    BY <2>3, <2>4
<1>5. ASSUME NEW i \in 0..(n - 1), i \in I
      PROVE  i + 1 \in I
  <2> DEFINE x == st[i]
             y == st[i + 1]
             c == s[i + 1]
  <2>1. i + 1 \in 1..n /\ i \in Nat /\ (i + 1) - 1 = i
    BY <1>2
  <2>2. x \in PartLists(T) /\ c \in T
    <3>1. i + 1 \in 1..Len(s)
      BY <2>1 DEF n
    <3>2. c \in T
      BY <3>1
    <3>3. x \in PartLists(T)
      BY <1>2, <1>3
    <3> QED
      BY <3>2, <3>3
  <2>3. y = IF c = sep THEN Append(x, <<>>) ELSE Grown(x, c)
    BY <1>3, <2>1
  <2>4. /\ i <= p => Len(x) = 1 /\ x[1] = SubSeq(s, 1, i)
        /\ i > p => Len(x) > 1 /\ x[1] = SubSeq(s, 1, p)
    BY <1>5
  <2>5. i = p => c = sep
    BY <1>0, <1>2, <2>1 DEF n
  <2>6. i < p => c # sep
    BY <1>0, <1>2, <2>1
  <2> HIDE DEF x, y, c, I
  <2>7. Len(x) \in Nat \ {0}
    BY <2>2, GrownIs
  <2>8. CASE i < p
    <3>1. y = Grown(x, c) /\ Len(x) = 1 /\ x[1] = SubSeq(s, 1, i)
      BY <1>2, <2>1, <2>3, <2>4, <2>6, <2>8
    <3>2. Len(y) = 1 /\ y[1] = Append(x[1], c)
      <4>1. Len(Grown(x, c)) = Len(x) /\ Grown(x, c)[Len(x)] = Append(x[Len(x)], c)
        BY <2>2, GrownIs
      <4> QED
        BY <3>1, <4>1
    <3>3. SubSeq(s, 1, i + 1) = Append(SubSeq(s, 1, (i + 1) - 1), s[i + 1])
      <4>1. 1 \in 1..Len(s) /\ i + 1 \in 1..Len(s) /\ 1 <= i + 1
        BY <1>2, <2>1 DEF n
      <4> QED
        BY <4>1, CutGrows
    <3>4. y[1] = SubSeq(s, 1, i + 1)
      BY <2>1, <3>1, <3>2, <3>3 DEF c
    <3>5. i + 1 <= p /\ ~(i + 1 > p) /\ i + 1 \in 0..n
      BY <1>2, <2>1, <2>8
    <3> QED
      BY <3>2, <3>4, <3>5 DEF I, y
  <2>9. CASE i >= p
    <3>1. x[1] = SubSeq(s, 1, p) /\ (i = p => Len(x) = 1) /\ (i # p => Len(x) > 1)
      BY <1>2, <2>1, <2>4, <2>9
    <3>2. Len(y) > 1 /\ y[1] = x[1]
      <4>1. 1 \in 1..Len(x)
        BY <2>7
      <4>2. CASE c = sep
        <5>1. y = Append(x, <<>>)
          BY <2>3, <4>2
        <5>2. Len(y) = Len(x) + 1 /\ y[1] = x[1]
          BY <2>2, <4>1, <5>1, MoreParts
        <5> QED
          BY <2>7, <5>2
      <4>3. CASE c # sep
        <5>1. y = Grown(x, c)
          BY <2>3, <4>3
        <5>2. Len(x) > 1
          BY <2>5, <3>1, <4>3
        <5>3. 1 # Len(x)
          <6>1. \A l \in Nat : l > 1 => 1 # l
            OBVIOUS
          <6> QED
            BY <2>7, <5>2, <6>1
        <5>4. /\ Len(Grown(x, c)) = Len(x)
              /\ \A j \in 1..Len(x) : j # Len(x) => Grown(x, c)[j] = x[j]
          BY <2>2, GrownIs
        <5> QED
          BY <4>1, <5>1, <5>2, <5>3, <5>4
      <4> QED
        BY <4>2, <4>3
    <3>3. ~(i + 1 <= p) /\ i + 1 > p /\ i + 1 \in 0..n
      BY <1>2, <2>1, <2>9
    <3> QED
      BY <3>1, <3>2, <3>3 DEF I, y
  <2> QED
    BY <1>2, <2>1, <2>8, <2>9
<1> HIDE DEF I
<1>6. n \in I
  <2>1. \A i \in 0..n : i \in I
    BY <1>2, <1>4, <1>5, UpTo
  <2> QED
    BY <1>2, <2>1
<1>7. st[n][1] = SubSeq(s, 1, p)
  <2>1. n <= p => n = p
    BY <1>2
  <2> QED
    BY <1>2, <1>6, <2>1 DEF I
<1> QED
  BY <1>3, <1>7 DEF HasFirst

(* The last part begins behind the last separator. *)
LEMMA LastPart ==
  ASSUME NEW T, NEW sep, NEW s \in Seq(T), NEW p, BeginsLast(p, s, sep)
  PROVE  /\ Len(Split(s, sep)) > 1
         /\ Last(Split(s, sep)) = SubSeq(s, p + 1, Len(s))
<1> DEFINE n == Len(s)
           LastOf(x) == x[Len(x)]
<1>1. PICK st : Splits(st, s, sep, T)
  BY SplitGoes
<1>2. n \in Nat /\ p \in Nat /\ p <= n /\ p >= 1
  BY DEF BeginsLast
<1>0. s[p] = sep /\ \A i \in (p + 1)..Len(s) : s[i] # sep
  BY DEF BeginsLast
<1> HIDE DEF n
<1>3. /\ st \in [0..n -> PartLists(T)]
      /\ \A i \in 1..n :
           st[i] = IF s[i] = sep THEN Append(st[i - 1], <<>>) ELSE Grown(st[i - 1], s[i])
      /\ st[n] = Split(s, sep)
  BY <1>1 DEF Splits, n
<1> DEFINE I == {i \in 0..n : i >= p => Len(st[i]) > 1 /\ LastOf(st[i]) = SubSeq(s, p + 1, i)}
<1>4. 0 \in I
  BY <1>2
<1>5. ASSUME NEW i \in 0..(n - 1), i \in I
      PROVE  i + 1 \in I
  <2> DEFINE x == st[i]
             y == st[i + 1]
             c == s[i + 1]
  <2>1. i + 1 \in 1..n /\ i \in Nat /\ (i + 1) - 1 = i /\ i + 1 \in 0..n
    BY <1>2
  <2>2. x \in PartLists(T) /\ c \in T
    <3>1. i + 1 \in 1..Len(s)
      BY <2>1 DEF n
    <3>2. c \in T
      BY <3>1
    <3>3. x \in PartLists(T)
      BY <1>2, <1>3
    <3> QED
      BY <3>2, <3>3
  <2>3. y = IF c = sep THEN Append(x, <<>>) ELSE Grown(x, c)
    BY <1>3, <2>1
  <2>4. i >= p => Len(x) > 1 /\ LastOf(x) = SubSeq(s, p + 1, i)
    BY <1>5
  <2>5. i + 1 = p => c = sep
    BY <1>0
  <2>6. i >= p => c # sep
    <3>1. i >= p => i + 1 \in (p + 1)..Len(s)
      BY <1>2, <2>1 DEF n
    <3> QED
      BY <1>0, <3>1
  <2> HIDE DEF x, y, c, I
  <2>7. Len(x) \in Nat \ {0}
    BY <2>2, GrownIs
  <2>8. CASE i + 1 < p
    <3>1. ~(i + 1 >= p)
      BY <1>2, <2>1, <2>8
    <3> QED
      BY <2>1, <3>1 DEF I
  <2>9. CASE i + 1 = p
    <3>1. y = Append(x, <<>>)
      BY <2>3, <2>5, <2>9
    <3>2. Len(y) = Len(x) + 1 /\ y[Len(x) + 1] = <<>>
      BY <2>2, <3>1, MoreParts
    <3>3. SubSeq(s, p + 1, i + 1) = <<>>
      <4>1. p + 1 \in Int /\ i + 1 \in Int /\ i + 1 < p + 1
        BY <1>2, <2>1, <2>9
      <4> QED
        BY <4>1, SubSeqEmpty
    <3>4. Len(y) > 1 /\ LastOf(y) = SubSeq(s, p + 1, i + 1)
      <4>1. Len(y) > 1
        BY <2>7, <3>2
      <4>2. LastOf(y) = y[Len(x) + 1]
        BY <3>2
      <4> HIDE DEF LastOf
      <4> QED
        BY <3>2, <3>3, <4>1, <4>2
    <3> QED
      BY <2>1, <3>4 DEF I, y
  <2>10. CASE i + 1 > p
    <3>1. i >= p
      BY <1>2, <2>1, <2>10
    <3>2. y = Grown(x, c) /\ Len(x) > 1 /\ LastOf(x) = SubSeq(s, p + 1, i)
      BY <2>3, <2>4, <2>6, <3>1
    <3>3. Len(y) = Len(x) /\ LastOf(y) = Append(LastOf(x), c)
      <4>1. Len(Grown(x, c)) = Len(x) /\ Grown(x, c)[Len(x)] = Append(x[Len(x)], c)
        BY <2>2, GrownIs
      <4> QED
        BY <3>2, <4>1
    <3>4. SubSeq(s, p + 1, i + 1) = Append(SubSeq(s, p + 1, (i + 1) - 1), s[i + 1])
      <4>1. p + 1 \in 1..Len(s) /\ i + 1 \in 1..Len(s) /\ p + 1 <= i + 1
        BY <1>2, <2>1, <3>1 DEF n
      <4> QED
        BY <4>1, CutGrows
    <3>5. LastOf(y) = SubSeq(s, p + 1, i + 1)
      BY <2>1, <3>2, <3>3, <3>4 DEF c
    <3> QED
      BY <2>1, <3>2, <3>3, <3>5 DEF I, y
  <2> QED
    BY <1>2, <2>1, <2>8, <2>9, <2>10
<1> HIDE DEF I
<1>6. n \in I
  <2>1. \A i \in 0..n : i \in I
    BY <1>2, <1>4, <1>5, UpTo
  <2> QED
    BY <1>2, <2>1
<1>7. Len(st[n]) > 1 /\ LastOf(st[n]) = SubSeq(s, p + 1, n)
  BY <1>2, <1>6 DEF I
<1> QED
  BY <1>3, <1>7 DEF Last, n

(***************************************************************************)
(* Client ids.                                                             *)
(***************************************************************************)

(* What stands before the hash in a client id. *)
IsLead(w) ==
  /\ w \in Seq(Nat) /\ Len(w) > 1
  /\ w[1] = LetterK /\ w[2] = Dot /\ w[Len(w)] = Dot
  /\ \A i \in 1..Len(w) : w[i] # Slash

(* What stands behind it. *)
IsEnd(t) == t \in Seq(Nat) /\ (t # <<>> => t[1] = Slash)

(* Prefix and hash keep their places in an id. *)
LEMMA IdParts ==
  ASSUME NEW w, IsLead(w), NEW e \in Seq(Digits)
  PROVE  /\ w \o e \in Seq(Nat) /\ Len(w \o e) = Len(w) + Len(e)
         /\ \A i \in 1..Len(w) : (w \o e)[i] = w[i]
         /\ \A i \in 1..Len(e) : (w \o e)[Len(w) + i] = e[i]
         /\ e \in Seq(Nat) /\ \A i \in 1..Len(e) : e[i] # Dot /\ e[i] # Slash
<1>1. e \in Seq(Nat)
  <2>1. Digits \subseteq Nat
    BY DEF Digits
  <2> QED
    BY <2>1, SeqMonotonic
<1>2. \A i \in 1..Len(e) : e[i] \in Digits
  OBVIOUS
<1>3. \A d \in Digits : d # Dot /\ d # Slash
  BY DEF Digits, Dot, Slash
<1>4. w \in Seq(Nat)
  BY DEF IsLead
<1>5. /\ w \o e \in Seq(Nat) /\ Len(w \o e) = Len(w) + Len(e)
      /\ \A i \in 1..(Len(w) + Len(e)) : (w \o e)[i] = IF i <= Len(w) THEN w[i] ELSE e[i - Len(w)]
  BY <1>1, <1>4, ConcatProperties
<1>6. Len(w) \in Nat /\ Len(e) \in Nat
  BY <1>1, <1>4
<1>7. \A i \in 1..Len(w) : (w \o e)[i] = w[i]
  BY <1>5, <1>6
<1>8. \A i \in 1..Len(e) : (w \o e)[Len(w) + i] = e[i]
  <2> SUFFICES ASSUME NEW i \in 1..Len(e)
               PROVE  (w \o e)[Len(w) + i] = e[i]
    OBVIOUS
  <2>1. Len(w) + i \in 1..(Len(w) + Len(e)) /\ ~(Len(w) + i <= Len(w)) /\ (Len(w) + i) - Len(w) = i
    BY <1>6
  <2> QED
    BY <1>5, <2>1
<1> QED
  BY <1>1, <1>2, <1>3, <1>5, <1>7, <1>8

(* The hash is found between its prefix and the end. *)
LEMMA HashFound ==
  ASSUME NEW w, IsLead(w), NEW e \in Seq(Digits), NEW t, IsEnd(t)
  PROVE  RecipientHash((w \o e) \o t) = Base64Decode(e)
<1> DEFINE d == w \o e
           r == d \o t
           n == Len(d)
           l == Len(w)
<1>1. /\ d \in Seq(Nat) /\ n = l + Len(e)
      /\ \A i \in 1..l : d[i] = w[i]
      /\ \A i \in 1..Len(e) : d[l + i] = e[i]
      /\ e \in Seq(Nat) /\ \A i \in 1..Len(e) : e[i] # Dot /\ e[i] # Slash
  BY IdParts
<1>2. /\ w \in Seq(Nat) /\ l > 1 /\ l \in Nat
      /\ w[1] = LetterK /\ w[2] = Dot /\ w[l] = Dot
      /\ \A i \in 1..l : w[i] # Slash
  BY DEF IsLead
<1>3. t \in Seq(Nat) /\ (t # <<>> => t[1] = Slash)
  BY DEF IsEnd
<1> HIDE DEF d, l
<1>4. n \in Nat /\ Len(e) \in Nat /\ Len(t) \in Nat
  BY <1>1, <1>3
<1>5. /\ r \in Seq(Nat) /\ Len(r) = n + Len(t)
      /\ \A i \in 1..(n + Len(t)) : r[i] = IF i <= n THEN d[i] ELSE t[i - n]
  <2>1. d \in Seq(Nat) /\ t \in Seq(Nat)
    BY <1>1, <1>3
  <2> QED
    BY <2>1, ConcatProperties
<1> HIDE DEF n
<1>6. \A i \in 1..n : d[i] # Slash /\ (i > l => d[i] # Dot)
  <2> SUFFICES ASSUME NEW i \in 1..n
               PROVE  d[i] # Slash /\ (i > l => d[i] # Dot)
    OBVIOUS
  <2>1. CASE i <= l
    <3>1. i \in 1..l /\ ~(i > l)
      BY <1>2, <1>4, <2>1
    <3> QED
      BY <1>1, <1>2, <3>1
  <2>2. CASE i > l
    <3>1. i - l \in 1..Len(e) /\ l + (i - l) = i
      BY <1>1, <1>2, <1>4, <2>2
    <3>2. d[i] = e[i - l]
      BY <1>1, <3>1
    <3> QED
      BY <1>1, <3>1, <3>2
  <2> QED
    BY <1>2, <1>4, <2>1, <2>2
<1> HIDE DEF r
<1>7. Split(r, Slash)[1] = d
  <2>1. n \in 0..Len(r)
    BY <1>4, <1>5
  <2>2. \A i \in 1..n : r[i] # Slash
    BY <1>4, <1>5, <1>6
  <2>3. n # Len(r) => r[n + 1] = Slash
    <3> SUFFICES ASSUME n # Len(r)
                 PROVE  r[n + 1] = Slash
      OBVIOUS
    <3>1. t # <<>> /\ n + 1 \in 1..(n + Len(t)) /\ ~(n + 1 <= n) /\ (n + 1) - n = 1
      BY <1>3, <1>4, <1>5
    <3> QED
      BY <1>3, <1>5, <3>1
  <2>4. Split(r, Slash)[1] = SubSeq(r, 1, n)
    <3>1. EndsFirst(n, r, Slash)
      BY <2>1, <2>2, <2>3 DEF EndsFirst
    <3>2. r \in Seq(Nat)
      BY <1>5
    <3>3. HasFirst(Split(r, Slash), SubSeq(r, 1, n))
      BY <3>1, <3>2, FirstPart
    <3> QED
      BY <3>3 DEF HasFirst
  <2>5. SubSeq(r, 1, n) = d
    <3>1. SubSeq(r, 1, n) \in Seq(Nat) /\ Len(SubSeq(r, 1, n)) = n
          /\ \A i \in 1..n : SubSeq(r, 1, n)[i] = r[i]
      <4>1. r \in Seq(Nat)
        BY <1>5
      <4> QED
        BY <2>1, <4>1, Firsts
    <3>2. \A i \in 1..n : r[i] = d[i]
      BY <1>4, <1>5
    <3> DEFINE u == SubSeq(r, 1, n)
    <3> HIDE DEF u
    <3>3. u \in Seq(Nat) /\ Len(u) = n /\ \A i \in 1..n : u[i] = d[i]
      BY <3>1, <3>2 DEF u
    <3>4. d \in Seq(Nat) /\ Len(d) = n
      BY <1>1 DEF n
    <3>5. u = d
      BY <3>3, <3>4, SeqEqual
    <3> QED
      BY <3>5 DEF u
  <2> QED
    BY <2>4, <2>5
<1> DEFINE parts == Split(d, Dot)
<1>8. parts[1] = <<LetterK>>
  <2>1. 1 \in 0..Len(d) /\ 1 # Len(d) /\ 1 \in 1..l /\ 2 \in 1..l
    BY <1>1, <1>2, <1>4 DEF n
  <2>2. d[1] = LetterK /\ d[2] = Dot /\ LetterK # Dot
    BY <1>1, <1>2, <2>1 DEF LetterK, Dot
  <2>3. /\ \A i \in 1..1 : d[i] # Dot
        /\ d[1 + 1] = Dot
    BY <2>2
  <2>4. parts[1] = SubSeq(d, 1, 1)
    <3>1. EndsFirst(1, d, Dot)
      BY <2>1, <2>3 DEF EndsFirst
    <3>2. d \in Seq(Nat)
      BY <1>1
    <3>3. HasFirst(Split(d, Dot), SubSeq(d, 1, 1))
      BY <3>1, <3>2, FirstPart
    <3> QED
      BY <3>3 DEF HasFirst, parts
  <2>5. SubSeq(d, 1, 1) \in Seq(Nat) /\ Len(SubSeq(d, 1, 1)) = 1 /\ SubSeq(d, 1, 1)[1] = d[1]
    BY <1>1, <2>1, Firsts
  <2>6. SubSeq(d, 1, 1) = <<d[1]>>
    BY <2>5, TupleIs
  <2> QED
    BY <2>2, <2>4, <2>6
<1>9. Len(parts) > 1 /\ Last(parts) = SubSeq(d, l + 1, Len(d))
  <2>1. l \in 1..Len(d) /\ l \in 1..l /\ d[l] = Dot
    BY <1>1, <1>2, <1>4 DEF n
  <2>2. \A i \in (l + 1)..Len(d) : d[i] # Dot
    <3>1. \A i \in (l + 1)..n : i \in 1..n /\ i > l
      BY <1>2, <1>4
    <3> QED
      BY <1>6, <3>1 DEF n
  <2>3. BeginsLast(l, d, Dot)
    BY <2>1, <2>2 DEF BeginsLast
  <2>4. d \in Seq(Nat)
    BY <1>1
  <2> QED
    BY <2>3, <2>4, LastPart
<1>10. SubSeq(d, l + 1, Len(d)) = e
  <2> DEFINE u == SubSeq(d, l + 1, n)
  <2>1. \A i \in (l + 1)..n : d[i] \in Nat
    <3>1. \A i \in (l + 1)..n : i \in 1..Len(d)
      BY <1>2, <1>4 DEF n
    <3> QED
      BY <1>1, <3>1
  <2>2. /\ l + 1 \in Int /\ n \in Int /\ n - (l + 1) + 1 = Len(e)
        /\ (IF l + 1 <= n THEN n - (l + 1) + 1 ELSE 0) = Len(e)
        /\ \A i \in 1..Len(e) : (l + 1) + i - 1 = l + i
    BY <1>1, <1>2, <1>4
  <2>3. u \in Seq(Nat) /\ Len(u) = Len(e) /\ \A i \in 1..Len(e) : u[i] = d[l + i]
    BY <2>1, <2>2, SubSeqProperties
  <2> HIDE DEF u
  <2>4. \A i \in 1..Len(u) : u[i] = e[i]
    BY <1>1, <2>3
  <2>5. u = e
    BY <1>1, <2>3, <2>4, SeqEqual
  <2> QED
    BY <2>5 DEF u, n
<1>11. ~(Len(parts) < 2)
  <2>1. parts \in PartLists(Nat)
    <3>1. PICK st : Splits(st, d, Dot, Nat)
      BY <1>1, SplitGoes
    <3> QED
      BY <1>1, <3>1 DEF Splits
  <2>2. Len(parts) \in Nat
    BY <2>1 DEF PartLists
  <2> QED
    BY <1>9, <2>2
<1> HIDE DEF parts
<1>12. RecipientHash(r) = Base64Decode(e)
  BY <1>7, <1>8, <1>9, <1>10, <1>11 DEF RecipientHash, parts
<1> QED
  BY <1>12 DEF r, d

(* The prefix of an id, without a server or with one. *)
Lead(server) == <<LetterK, Dot>> \o (IF server = <<>> THEN <<>> ELSE Append(server, Dot))

(* It is a prefix. *)
LEMMA LeadIs ==
  ASSUME NEW server \in Seq(Nat), \A i \in DOMAIN server : server[i] # Slash
  PROVE  IsLead(Lead(server))
<1> DEFINE k == <<LetterK, Dot>>
           w == Append(server, Dot)
<1>1. /\ k \in Seq(Nat) /\ Len(k) = 2 /\ k[1] = LetterK /\ k[2] = Dot
      /\ LetterK # Slash /\ Dot # Slash /\ Dot \in Nat
  BY DEF LetterK, Dot, Slash
<1> HIDE DEF k
<1>2. CASE server = <<>>
  <2>1. Lead(server) = k
    <3>1. k \o <<>> = k
      BY <1>1, ConcatEmptySeq
    <3> QED
      BY <1>2, <3>1 DEF Lead, k
  <2>2. \A i \in 1..2 : k[i] # Slash
    <3>1. \A i \in 1..2 : i = 1 \/ i = 2
      OBVIOUS
    <3> QED
      BY <1>1, <3>1
  <2>3. IsLead(k)
    BY <1>1, <2>2 DEF IsLead
  <2> QED
    BY <2>1, <2>3
<1>3. CASE server # <<>>
  <2> DEFINE l == Len(server)
             v == k \o w
  <2>1. l \in Nat /\ w \in Seq(Nat) /\ Len(w) = l + 1 /\ w[l + 1] = Dot
        /\ \A i \in 1..l : w[i] = server[i]
    BY <1>1, AppendProperties
  <2>8. DOMAIN server = 1..l
    OBVIOUS
  <2> HIDE DEF w, l
  <2>2. /\ v \in Seq(Nat) /\ Len(v) = 2 + (l + 1)
        /\ \A i \in 1..(2 + (l + 1)) : v[i] = IF i <= 2 THEN k[i] ELSE w[i - 2]
    <3>1. k \in Seq(Nat) /\ w \in Seq(Nat)
      BY <1>1, <2>1
    <3>2. /\ v \in Seq(Nat) /\ Len(v) = Len(k) + Len(w)
          /\ \A i \in 1..(Len(k) + Len(w)) : v[i] = IF i <= Len(k) THEN k[i] ELSE w[i - Len(k)]
      BY <3>1, ConcatProperties
    <3>3. Len(k) = 2 /\ Len(w) = l + 1
      BY <1>1, <2>1
    <3> HIDE DEF v
    <3> QED
      BY <3>2, <3>3
  <2> HIDE DEF v
  <2>3. v[1] = LetterK /\ v[2] = Dot
    BY <1>1, <2>1, <2>2
  <2>4. v[Len(v)] = Dot
    <3>1. 2 + (l + 1) \in 1..(2 + (l + 1)) /\ ~(2 + (l + 1) <= 2) /\ (2 + (l + 1)) - 2 = l + 1
      BY <2>1
    <3> QED
      BY <2>1, <2>2, <3>1
  <2>5. \A i \in 1..Len(v) : v[i] # Slash
    <3> SUFFICES ASSUME NEW i \in 1..(2 + (l + 1))
                 PROVE  v[i] # Slash
      BY <2>2
    <3>1. CASE i <= 2
      <4>1. i = 1 \/ i = 2
        BY <2>1, <3>1
      <4> QED
        BY <1>1, <2>3, <4>1
    <3>2. CASE i > 2
      <4>1. v[i] = w[i - 2] /\ i - 2 \in 1..(l + 1)
        BY <2>1, <2>2, <3>2
      <4>2. CASE i - 2 = l + 1
        BY <1>1, <2>1, <4>1, <4>2
      <4>3. CASE i - 2 # l + 1
        <5>1. i - 2 \in 1..l
          BY <2>1, <4>1, <4>3
        <5>2. w[i - 2] = server[i - 2]
          BY <2>1, <5>1
        <5>3. i - 2 \in DOMAIN server
          BY <2>8, <5>1
        <5> QED
          BY <4>1, <5>2, <5>3
      <4> QED
        BY <4>2, <4>3
    <3> QED
      BY <2>1, <3>1, <3>2
  <2>6. Lead(server) = v
    BY <1>3 DEF Lead, k, w, v
  <2>7. Len(v) > 1
    BY <2>1, <2>2
  <2> QED
    BY <2>2, <2>3, <2>4, <2>5, <2>6, <2>7 DEF IsLead
<1> QED
  BY <1>2, <1>3

(* A client id leads back to the hash it was made from. *)
LEMMA IdLeadsBack ==
  ASSUME NEW data \in Seq(Octets), NEW server \in Seq(Nat),
         \A i \in DOMAIN server : server[i] # Slash, NEW t, IsEnd(t)
  PROVE  RecipientHash(Display(LetterK, server, Base64Encode(data)) \o t) = {data}
<1> DEFINE e == Base64Encode(data)
<1>1. e \in Seq(Digits) /\ Base64Decode(e) = {data}
  BY Base64ReadsBack
<1> HIDE DEF e
<1>2. IsLead(Lead(server))
  BY LeadIs
<1>3. Display(LetterK, server, e) = Lead(server) \o e
  BY DEF Display, Lead
<1>4. RecipientHash((Lead(server) \o e) \o t) = Base64Decode(e)
  BY <1>1, <1>2, HashFound
<1> QED
  BY <1>1, <1>3, <1>4 DEF e

(* The ids of the members of a group lead back to all the bytes. *)
LEMMA MembersLeadBack ==
  ASSUME NEW data \in Seq(Octets)
  PROVE  LET members == GroupMembers(data)
         IN  /\ \A i \in DOMAIN members : Cardinality(RecipientHash(members[i])) = 1
             /\ FlattenSeq([i \in DOMAIN members |->
                  CHOOSE h \in RecipientHash(members[i]) : TRUE]) = data
<1> DEFINE chunks == Chunks(data, HashLen)
           members == GroupMembers(data)
           hashes == [i \in DOMAIN members |-> CHOOSE h \in RecipientHash(members[i]) : TRUE]
<1>1. HashLen \in Nat \ {0}
  BY EncodingAssumption
<1>2. members = [i \in DOMAIN chunks |-> Display(LetterK, <<>>, Base64Encode(chunks[i]))]
  BY DEF GroupMembers
<1>3. ASSUME NEW i \in DOMAIN chunks, chunks[i] \in Seq(Octets)
      PROVE  RecipientHash(members[i]) = {chunks[i]}
  <2> DEFINE c == chunks[i]
             u == Display(LetterK, <<>>, Base64Encode(c))
  <2>1. members[i] = u
    BY <1>2
  <2>2. c \in Seq(Octets)
    BY <1>3
  <2> HIDE DEF c
  <2>3. <<>> \in Seq(Nat) /\ \A j \in DOMAIN <<>> : <<>>[j] # Slash
    OBVIOUS
  <2>4. IsEnd(<<>>)
    BY DEF IsEnd
  <2>5. RecipientHash(u \o <<>>) = {c}
    BY <2>2, <2>3, <2>4, IdLeadsBack
  <2>6. u \o <<>> = u
    <3>1. IsLead(Lead(<<>>)) /\ Base64Encode(c) \in Seq(Digits)
      BY <2>2, <2>3, LeadIs, Base64ReadsBack
    <3>2. u = Lead(<<>>) \o Base64Encode(c)
      BY DEF Display, Lead
    <3>3. u \in Seq(Nat)
      BY <3>1, <3>2, IdParts
    <3> HIDE DEF u
    <3> QED
      BY <3>3, ConcatEmptySeq
  <2> HIDE DEF u
  <2> QED
    BY <2>1, <2>5, <2>6 DEF c
<1>4. (\A i \in DOMAIN chunks : chunks[i] \in Seq(Octets)) /\ chunks = [i \in DOMAIN chunks |-> chunks[i]]
      /\ FlattenSeq(chunks) = data
  <2>1. CASE data = <<>>
    <3>1. chunks = <<>>
      BY <1>1, <2>1, NoChunks
    <3>2. FlattenSeq(<<>>) = <<>>
      BY DEF FlattenSeq
    <3> HIDE DEF chunks
    <3> QED
      BY <2>1, <3>1, <3>2
  <2>2. CASE data # <<>>
    <3>1. PICK m \in Nat \ {0} : AreChunks(chunks, data, m, HashLen)
      BY <1>1, <2>2, ChunksAre
    <3>2. /\ Chunked(m, Len(data), HashLen) /\ DOMAIN chunks = 1..m /\ Len(chunks) = m
          /\ \A i \in 1..m : chunks[i] = SubSeq(data, (i - 1) * HashLen + 1, End(i, Len(data), HashLen))
      BY <3>1 DEF AreChunks
    <3>3. chunks = [i \in DOMAIN chunks |-> chunks[i]]
      BY DEF Chunks
    <3> HIDE DEF chunks
    <3>4. FlattenSeq(chunks) = data
      BY <1>1, <3>2, ChunksJoin
    <3>5. ASSUME NEW i \in 1..m
          PROVE  chunks[i] \in Seq(Octets)
      <4> DEFINE a == (i - 1) * HashLen
                 b == End(i, Len(data), HashLen)
      <4>1. ChunkEnds(i, m, Len(data), HashLen)
        BY <1>1, <3>2, Ends
      <4>2. a \in Nat /\ b \in (a + 1)..Len(data) /\ chunks[i] = SubSeq(data, a + 1, b)
        BY <3>2, <4>1 DEF ChunkEnds
      <4> HIDE DEF a, b
      <4>3. a + 1 \in Int /\ b \in Int /\ \A j \in (a + 1)..b : j \in 1..Len(data)
        BY <4>2
      <4>4. \A j \in (a + 1)..b : data[j] \in Octets
        BY <4>3
      <4> QED
        BY <4>2, <4>3, <4>4, SubSeqProperties
    <3> QED
      BY <3>2, <3>3, <3>4, <3>5
  <2> QED
    BY <2>1, <2>2
<1>5. DOMAIN members = DOMAIN chunks
  BY <1>2
<1> HIDE DEF members, chunks
<1>6. \A i \in DOMAIN members : RecipientHash(members[i]) = {chunks[i]}
  BY <1>3, <1>4, <1>5
<1>7. \A x : Cardinality({x}) = 1 /\ (CHOOSE h \in {x} : TRUE) = x
  BY FS_Singleton
<1>8. \A i \in DOMAIN members : Cardinality(RecipientHash(members[i])) = 1
  BY <1>6, <1>7
<1>9. hashes = [i \in DOMAIN chunks |-> chunks[i]]
  BY <1>5, <1>6, <1>7
<1>10. FlattenSeq(hashes) = data
  BY <1>4, <1>9
<1> QED
  BY <1>8, <1>10 DEF members

(***************************************************************************)
(* Host names.                                                             *)
(***************************************************************************)

(* Letters of base 32, and bit r of a number, from the right. *)
Letters == 0..31
Powers == <<1, 2, 4, 8, 16, 32, 64, 128, 256, 512, 1024, 2048, 4096>>
Pick(v, r) == (v \div Powers[r + 1]) % 2

(* The low bits of a number are those of its low byte. *)
LEMMA LowBits ==
  /\ \A x \in Nat : \A r \in 0..7 : Pick(x % 256, r) = Pick(x, r)
  /\ \A x \in Nat, y \in Nat : x % 256 = y % 256 => \A r \in 0..7 : Pick(x, r) = Pick(y, r)
<1>1. \A t \in 0..7 : t = 0 \/ t = 1 \/ t = 2 \/ t = 3 \/ t = 4 \/ t = 5 \/ t = 6 \/ t = 7
  OBVIOUS
<1>2. \A x \in Nat : /\ Pick(x % 256, 0) = Pick(x, 0) /\ Pick(x % 256, 1) = Pick(x, 1)
                     /\ Pick(x % 256, 2) = Pick(x, 2) /\ Pick(x % 256, 3) = Pick(x, 3)
  BY SMT DEF Pick, Powers
<1>3. \A x \in Nat : /\ Pick(x % 256, 4) = Pick(x, 4) /\ Pick(x % 256, 5) = Pick(x, 5)
                     /\ Pick(x % 256, 6) = Pick(x, 6) /\ Pick(x % 256, 7) = Pick(x, 7)
  BY SMT DEF Pick, Powers
<1>4. \A x \in Nat : \A r \in 0..7 : Pick(x % 256, r) = Pick(x, r)
  BY <1>1, <1>2, <1>3
<1> QED
  BY <1>4

(* What the register holds when a letter was shifted in. *)
IsShift(v, b, k, c) == v = 32 * b + 8192 * k + c

(* The letter is at the right of what was there, up to bit 12. *)
LEMMA ShiftedBits ==
  ASSUME NEW b \in Nat, NEW c \in Letters, NEW k \in Int, NEW v \in Nat, IsShift(v, b, k, c)
  PROVE  /\ \A r \in 0..4 : Pick(v, r) = Pick(c, r)
         /\ \A r \in 5..12 : Pick(v, r) = Pick(b, r - 5)
<1> DEFINE y == v \div 32
<1>1. v % 32 = c
  BY SMT DEF IsShift, Letters
<1>2. y \in Nat /\ y % 256 = b % 256
  <2>1. y = b + 256 * k
    BY SMT DEF IsShift, Letters
  <2>2. \A x \in Nat : x + 256 * k \in Nat => (x + 256 * k) % 256 = x % 256
    BY SMT
  <2>3. y \in Nat
    BY SMT
  <2> HIDE DEF y
  <2> QED
    BY <2>1, <2>2, <2>3
<1>3. \A x \in Nat : /\ Pick(x % 32, 0) = Pick(x, 0) /\ Pick(x % 32, 1) = Pick(x, 1)
                     /\ Pick(x % 32, 2) = Pick(x, 2) /\ Pick(x % 32, 3) = Pick(x, 3)
                     /\ Pick(x % 32, 4) = Pick(x, 4)
  BY SMT DEF Pick, Powers
<1>4. \A x \in Nat : /\ Pick(x, 5) = Pick(x \div 32, 0) /\ Pick(x, 6) = Pick(x \div 32, 1)
                     /\ Pick(x, 7) = Pick(x \div 32, 2) /\ Pick(x, 8) = Pick(x \div 32, 3)
  BY SMT DEF Pick, Powers
<1>5. \A x \in Nat : /\ Pick(x, 9) = Pick(x \div 32, 4) /\ Pick(x, 10) = Pick(x \div 32, 5)
                     /\ Pick(x, 11) = Pick(x \div 32, 6) /\ Pick(x, 12) = Pick(x \div 32, 7)
  <2>1. \A x \in Nat : x \div 512 = (x \div 32) \div 16
    BY SMT
  <2>2. \A x \in Nat : x \div 1024 = (x \div 32) \div 32
    BY SMT
  <2>3. \A x \in Nat : x \div 2048 = (x \div 32) \div 64
    BY SMT
  <2>4. \A x \in Nat : x \div 4096 = (x \div 32) \div 128
    BY SMT
  <2> QED
    BY <2>1, <2>2, <2>3, <2>4, SMT DEF Pick, Powers
<1>6. \A r \in 0..7 : Pick(y, r) = Pick(b, r)
  BY <1>2, LowBits
<1>7. \A r \in 0..4 : r = 0 \/ r = 1 \/ r = 2 \/ r = 3 \/ r = 4
  OBVIOUS
<1>8. \A r \in 5..12 : r = 5 \/ r = 6 \/ r = 7 \/ r = 8 \/ r = 9 \/ r = 10 \/ r = 11 \/ r = 12
  OBVIOUS
<1>9. \A r \in 0..4 : Pick(v, r) = Pick(c, r)
  BY <1>1, <1>3, <1>7
<1>10. \A r \in 5..12 : Pick(v, r) = Pick(y, r - 5)
  BY <1>4, <1>5, <1>8
<1>11. \A r \in 5..12 : r - 5 \in 0..7
  OBVIOUS
<1> QED
  BY <1>6, <1>9, <1>10, <1>11

(* A byte taken out above m bits. *)
IsByteOf(byte, v, m) == byte = (v \div Powers[m + 1]) % 256
BitsOfByte(byte, v, m) == byte \in Octets /\ \A t \in 0..7 : Pick(byte, t) = Pick(v, t + m)

(* It has the bits that stand there. *)
LEMMA ByteBits ==
  ASSUME NEW v \in Nat, NEW m \in 0..4, NEW byte, IsByteOf(byte, v, m)
  PROVE  BitsOfByte(byte, v, m)
<1>1. \A t \in 0..7 : t = 0 \/ t = 1 \/ t = 2 \/ t = 3 \/ t = 4 \/ t = 5 \/ t = 6 \/ t = 7
  OBVIOUS
<1>4. ASSUME NEW t \in 0..7
      PROVE  Pick(v \div Powers[m + 1], t) = Pick(v, t + m)
  <2>1. CASE m = 0
    BY <1>1, <2>1, SMT DEF Pick, Powers
  <2>2. CASE m = 1
    BY <1>1, <2>2, SMT DEF Pick, Powers
  <2>3. CASE m = 2
    BY <1>1, <2>3, SMT DEF Pick, Powers
  <2>4. CASE m = 3
    BY <1>1, <2>4, SMT DEF Pick, Powers
  <2>5. CASE m = 4
    BY <1>1, <2>5, SMT DEF Pick, Powers
  <2> QED
    BY <2>1, <2>2, <2>3, <2>4, <2>5
<1>5. v \div Powers[m + 1] \in Nat /\ byte = (v \div Powers[m + 1]) % 256
  BY SMT DEF Powers, IsByteOf
<1>6. byte \in Octets
  BY <1>5, SMT DEF Octets
<1>7. \A t \in 0..7 : Pick(byte, t) = Pick(v \div Powers[m + 1], t)
  BY <1>5, LowBits
<1> QED
  BY <1>4, <1>6, <1>7 DEF BitsOfByte

(* The last m bits are 0 if the number is a multiple of the m-th power of 2. *)
LEMMA ZeroBits ==
  ASSUME NEW v \in Nat, NEW m \in 0..7
  PROVE  v % Powers[m + 1] = 0 <=> \A r \in 0..(m - 1) : Pick(v, r) = 0
<1>1. \A x \in 0..7 : x = 0 \/ x = 1 \/ x = 2 \/ x = 3 \/ x = 4 \/ x = 5 \/ x = 6 \/ x = 7
  OBVIOUS
<1>2. /\ v % Powers[1] = 0
      /\ v % Powers[2] = 0 <=> v % Powers[1] = 0 /\ Pick(v, 0) = 0
      /\ v % Powers[3] = 0 <=> v % Powers[2] = 0 /\ Pick(v, 1) = 0
      /\ v % Powers[4] = 0 <=> v % Powers[3] = 0 /\ Pick(v, 2) = 0
      /\ v % Powers[5] = 0 <=> v % Powers[4] = 0 /\ Pick(v, 3) = 0
  BY SMT DEF Pick, Powers
<1>3. /\ v % Powers[6] = 0 <=> v % Powers[5] = 0 /\ Pick(v, 4) = 0
      /\ v % Powers[7] = 0 <=> v % Powers[6] = 0 /\ Pick(v, 5) = 0
      /\ v % Powers[8] = 0 <=> v % Powers[7] = 0 /\ Pick(v, 6) = 0
  BY SMT DEF Pick, Powers
<1> DEFINE Z(x) == v % Powers[x + 1] = 0
           T == {x \in 0..7 : Z(x) <=> \A r \in 0..(x - 1) : Pick(v, r) = 0}
<1>4. Z(0) /\ \A x \in 0..6 : Z(x + 1) <=> Z(x) /\ Pick(v, x) = 0
  <2>1. Z(0)
    BY <1>2
  <2>2. \A x \in 0..6 : x = 0 \/ x = 1 \/ x = 2 \/ x = 3 \/ x = 4 \/ x = 5 \/ x = 6
    OBVIOUS
  <2> QED
    BY <1>2, <1>3, <2>1, <2>2
<1> HIDE DEF Z
<1>5. 0 \in T
  BY <1>4
<1>6. ASSUME NEW x \in 0..(7 - 1), x \in T
      PROVE  x + 1 \in T
  <2>1. \A r \in 0..((x + 1) - 1) : r \in 0..(x - 1) \/ r = x
    OBVIOUS
  <2>2. x \in 0..((x + 1) - 1) /\ \A r \in 0..(x - 1) : r \in 0..((x + 1) - 1)
    OBVIOUS
  <2>3. x + 1 \in 0..7
    OBVIOUS
  <2>4. Z(x) <=> \A r \in 0..(x - 1) : Pick(v, r) = 0
    BY <1>6
  <2>5. Z(x + 1) <=> \A r \in 0..((x + 1) - 1) : Pick(v, r) = 0
    BY <1>4, <2>1, <2>2, <2>4
  <2> QED
    BY <2>3, <2>5
<1>7. \A x \in 0..7 : x \in T
  <2> HIDE DEF T
  <2>1. 7 \in Nat
    OBVIOUS
  <2> QED
    BY <1>5, <1>6, <2>1, UpTo
<1> QED
  BY <1>7 DEF Z

(* The register is a multiple of 8192, so it keeps the low bits. *)
LEMMA RegisterKeeps ==
  ASSUME NEW b \in Nat, NEW c \in Letters
  PROVE  LET v == ((b * 32) % Register) + c
         IN  v \in Nat /\ \E k \in Int : IsShift(v, b, k, c)
<1> DEFINE a == (b * 32) % Register
           q == (b * 32) \div Register
           z == Register \div 8192
           k == -(z * q)
<1>1. Register \in Nat \ {0} /\ Register % 8192 = 0
  BY EncodingAssumption
<1>2. z \in Nat /\ Register = 8192 * z
  BY <1>1, SMT
<1>3. b * 32 \in Nat
  OBVIOUS
<1>4. a \in Nat /\ q \in Nat /\ b * 32 = Register * q + a
  <2> DEFINE x == b * 32
  <2>1. x \in Nat
    BY <1>3
  <2> HIDE DEF x
  <2>2. Register \in Nat \ {0}
    BY <1>1
  <2>3. /\ x = Register * (x \div Register) + (x % Register)
        /\ x \div Register \in Nat /\ x % Register \in 0..(Register - 1)
    BY <2>1, <2>2, DivMod
  <2> QED
    BY <2>2, <2>3 DEF x
<1> HIDE DEF a, q, z
<1>5. k \in Int /\ Register * q = 8192 * (z * q)
  <2>1. \A x \in Nat, y \in Nat : x * y \in Int /\ -(x * y) \in Int /\ (8192 * x) * y = 8192 * (x * y)
    BY Z3
  <2> QED
    BY <1>2, <1>4, <2>1
<1> DEFINE u == z * q
<1>6. u \in Int /\ k = -u
  <2>1. \A x \in Nat, y \in Nat : x * y \in Int
    BY Z3
  <2> QED
    BY <1>2, <1>4, <2>1
<1>7. b * 32 = 8192 * u + a
  BY <1>4, <1>5
<1> HIDE DEF u, k
<1>8. c \in Nat
  BY DEF Letters
<1>9. a + c \in Nat
  BY <1>4, <1>8
<1>10. IsShift(a + c, b, k, c)
  BY <1>4, <1>6, <1>7, <1>8, SMT DEF IsShift
<1> QED
  BY <1>5, <1>9, <1>10 DEF a

(* The q-th bit of a sequence, counted from the end of its element. *)
LEMMA BitIs ==
  /\ \A s : \A i \in Nat : \A r \in 0..4 : Bit(s, 5, 5 * (i + 1) - r) = Pick(s[i + 1], r)
  /\ \A s : \A i \in Nat : \A r \in 0..7 : Bit(s, 8, 8 * (i + 1) - r) = Pick(s[i + 1], r)
<1>1. \A r \in 0..7 : TwoTo(r) = Powers[r + 1]
  <2>1. \A r \in 0..7 : r = 0 \/ r = 1 \/ r = 2 \/ r = 3 \/ r = 4 \/ r = 5 \/ r = 6 \/ r = 7
    OBVIOUS
  <2> QED
    BY <2>1, SMT DEF TwoTo, Powers
<1>2. ASSUME NEW i \in Nat, NEW r \in 0..4
      PROVE  /\ ((5 * (i + 1) - r - 1) \div 5) + 1 = i + 1
             /\ 5 - 1 - ((5 * (i + 1) - r - 1) % 5) = r
  OBVIOUS
<1>3. ASSUME NEW i \in Nat, NEW r \in 0..7
      PROVE  /\ ((8 * (i + 1) - r - 1) \div 8) + 1 = i + 1
             /\ 8 - 1 - ((8 * (i + 1) - r - 1) % 8) = r
  OBVIOUS
<1>4. ASSUME NEW s, NEW i \in Nat, NEW r \in 0..4
      PROVE  Bit(s, 5, 5 * (i + 1) - r) = Pick(s[i + 1], r)
  <2>1. Bit(s, 5, 5 * (i + 1) - r) = (s[i + 1] \div TwoTo(r)) % 2
    BY <1>2 DEF Bit
  <2>2. TwoTo(r) = Powers[r + 1]
    BY <1>1
  <2> QED
    BY <2>1, <2>2 DEF Pick
<1>5. ASSUME NEW s, NEW i \in Nat, NEW r \in 0..7
      PROVE  Bit(s, 8, 8 * (i + 1) - r) = Pick(s[i + 1], r)
  <2>1. Bit(s, 8, 8 * (i + 1) - r) = (s[i + 1] \div TwoTo(r)) % 2
    BY <1>3 DEF Bit
  <2>2. TwoTo(r) = Powers[r + 1]
    BY <1>1
  <2> QED
    BY <2>1, <2>2 DEF Pick
<1> QED
  BY <1>4, <1>5

(* The states of the decoder. *)
States == [bits : Nat, nbits : 0..7, out : Seq(Octets)]

(* It has the bits of i letters: whole bytes, and the rest in the register. *)
HasBits(st, p, i) ==
  /\ 5 * i = 8 * Len(st.out) + st.nbits
  /\ \A q \in 1..8 * Len(st.out) : Bit(st.out, 8, q) = Bit(p, 5, q)
  /\ \A r \in 0..(st.nbits - 1) : Pick(st.bits, r) = Bit(p, 5, 5 * i - r)

(* What one letter does. *)
Shifted32(st, c, v, t) ==
  /\ v \in Nat
  /\ \A r \in 0..4 : Pick(v, r) = Pick(c, r)
  /\ \A r \in 5..12 : Pick(v, r) = Pick(st.bits, r - 5)
  /\ t.bits = v /\ t \in States
  /\ st.nbits < 3 => t.nbits = st.nbits + 5 /\ t.out = st.out
  /\ st.nbits >= 3 => /\ t.nbits = st.nbits - 3
                      /\ \E byte : BitsOfByte(byte, v, st.nbits - 3) /\ t.out = Append(st.out, byte)

(* ShiftIn is that. *)
LEMMA ShiftInIs ==
  ASSUME NEW st \in States, NEW c \in Letters
  PROVE  Shifted32(st, c, ((st.bits * 32) % Register) + c, ShiftIn(st, c))
<1> DEFINE v == ((st.bits * 32) % Register) + c
           t == ShiftIn(st, c)
           n == st.nbits
<1>1. st.bits \in Nat /\ n \in 0..7 /\ st.out \in Seq(Octets)
  BY DEF States
<1>2. v \in Nat /\ \E k \in Int : IsShift(v, st.bits, k, c)
  BY <1>1, RegisterKeeps
<1> HIDE DEF v
<1>3. /\ \A r \in 0..4 : Pick(v, r) = Pick(c, r)
      /\ \A r \in 5..12 : Pick(v, r) = Pick(st.bits, r - 5)
  BY <1>1, <1>2, ShiftedBits
<1>4. t = IF n + 5 < 8 THEN [bits |-> v, nbits |-> n + 5, out |-> st.out]
          ELSE [bits |-> v, nbits |-> (n + 5) - 8,
                out |-> Append(st.out, (v \div TwoTo((n + 5) - 8)) % 256)]
  BY DEF ShiftIn, v
<1> HIDE DEF t, n
<1>5. CASE n < 3
  <2>1. n + 5 < 8 /\ n + 5 \in 0..7
    BY <1>1, <1>5
  <2>2. t = [bits |-> v, nbits |-> n + 5, out |-> st.out]
    BY <1>4, <2>1
  <2>3. t \in States /\ t.bits = v /\ t.nbits = n + 5 /\ t.out = st.out
    BY <1>1, <1>2, <2>1, <2>2 DEF States
  <2>4. ~(n >= 3)
    BY <1>1, <1>5
  <2> QED
    BY <1>2, <1>3, <2>3, <2>4 DEF Shifted32, t, v, n
<1>6. CASE n >= 3
  <2> DEFINE m == n - 3
             byte == (v \div Powers[m + 1]) % 256
  <2>1. ~(n + 5 < 8) /\ (n + 5) - 8 = n - 3 /\ m \in 0..4 /\ m \in 0..7 /\ ~(n < 3)
    BY <1>1, <1>6
  <2>2. TwoTo(m) = Powers[m + 1]
    <3>1. m = 0 \/ m = 1 \/ m = 2 \/ m = 3 \/ m = 4
      BY <2>1
    <3> HIDE DEF m
    <3> QED
      BY <3>1, SMT DEF TwoTo, Powers
  <2>3. t = [bits |-> v, nbits |-> m, out |-> Append(st.out, byte)]
    BY <1>4, <2>1, <2>2
  <2>4. IsByteOf(byte, v, m)
    BY DEF IsByteOf
  <2> HIDE DEF byte, m
  <2>5. BitsOfByte(byte, v, m)
    BY <1>2, <2>1, <2>4, ByteBits
  <2>6. Append(st.out, byte) \in Seq(Octets)
    BY <1>1, <2>5, AppendProperties DEF BitsOfByte
  <2>7. t \in States /\ t.bits = v /\ t.nbits = m /\ t.out = Append(st.out, byte)
    BY <1>2, <2>1, <2>3, <2>6 DEF States
  <2> QED
    BY <1>2, <1>3, <2>1, <2>5, <2>7 DEF Shifted32, t, v, n, m
<1> QED
  BY <1>1, <1>5, <1>6

(* A letter more, and the bits are there still. *)
LEMMA LetterKeeps ==
  ASSUME NEW p \in Seq(Letters), NEW i \in 0..(Len(p) - 1), NEW st \in States, HasBits(st, p, i)
  PROVE  ShiftIn(st, p[i + 1]) \in States /\ HasBits(ShiftIn(st, p[i + 1]), p, i + 1)
<1> DEFINE c == p[i + 1]
           v == ((st.bits * 32) % Register) + c
           t == ShiftIn(st, c)
           n == st.nbits
           b == st.bits
           o == st.out
           l == Len(o)
           e == 5 * (i + 1)
<1>1. c \in Letters /\ i \in Nat
  OBVIOUS
<1>2. Shifted32(st, c, v, t)
  <2> HIDE DEF c, v, t
  <2>1. Shifted32(st, c, ((st.bits * 32) % Register) + c, ShiftIn(st, c))
    BY <1>1, ShiftInIs
  <2> QED
    BY <2>1 DEF v, t
<1> HIDE DEF v, t
<1>3. n \in 0..7 /\ o \in Seq(Octets) /\ l \in Nat
  BY DEF States
<1>4. /\ 5 * i = 8 * l + n
      /\ \A q \in 1..8 * l : Bit(o, 8, q) = Bit(p, 5, q)
      /\ \A r \in 0..(n - 1) : Pick(b, r) = Bit(p, 5, 5 * i - r)
  BY DEF HasBits
<1>5. /\ \A r \in 0..4 : Pick(v, r) = Pick(c, r)
      /\ \A r \in 5..12 : Pick(v, r) = Pick(b, r - 5)
      /\ t \in States
      /\ n < 3 => t.nbits = n + 5 /\ t.out = o
      /\ n >= 3 => /\ t.nbits = n - 3
                   /\ \E byte : BitsOfByte(byte, v, n - 3) /\ t.out = Append(o, byte)
      /\ t.bits = v
  BY <1>2 DEF Shifted32
<1>6. \A r \in 0..4 : Bit(p, 5, e - r) = Pick(c, r)
  BY <1>1, BitIs
<1> HIDE DEF n, b, o, l, e, c
<1>7. e = 8 * l + n + 5 /\ e = 5 * i + 5 /\ e \in Nat
  BY <1>1, <1>3, <1>4 DEF e
<1>8. \A r \in 0..(n + 4) : Pick(v, r) = Bit(p, 5, e - r)
  <2> SUFFICES ASSUME NEW r \in 0..(n + 4)
               PROVE  Pick(v, r) = Bit(p, 5, e - r)
    OBVIOUS
  <2>1. CASE r <= 4
    <3>1. r \in 0..4
      BY <1>3, <2>1
    <3> QED
      BY <1>5, <1>6, <3>1
  <2>2. CASE r > 4
    <3>1. r \in 5..12 /\ r - 5 \in 0..(n - 1) /\ 5 * i - (r - 5) = e - r
      BY <1>1, <1>3, <1>7, <2>2
    <3>2. Pick(v, r) = Pick(b, r - 5)
      BY <1>5, <3>1
    <3>3. Pick(b, r - 5) = Bit(p, 5, 5 * i - (r - 5))
      BY <1>4, <3>1
    <3> QED
      BY <3>1, <3>2, <3>3
  <2> QED
    BY <1>3, <2>1, <2>2
<1>9. CASE n < 3
  <2>1. t.nbits = n + 5 /\ t.out = o /\ n + 5 - 1 = n + 4
    BY <1>3, <1>5, <1>9
  <2>2. \A r \in 0..(t.nbits - 1) : Pick(t.bits, r) = Bit(p, 5, e - r)
    BY <1>3, <1>5, <1>8, <2>1
  <2>3. e = 8 * l + (n + 5)
    BY <1>3, <1>7
  <2> QED
    BY <1>4, <1>5, <2>1, <2>2, <2>3 DEF HasBits, c, t, e, l
<1>10. CASE n >= 3
  <2> DEFINE m == n - 3
  <2>1. PICK byte : BitsOfByte(byte, v, m) /\ t.out = Append(o, byte)
    BY <1>5, <1>10
  <2>2. t.nbits = m /\ m \in 0..4
    BY <1>3, <1>5, <1>10
  <2>3. e = 8 * (l + 1) + m
    BY <1>3, <1>7, <1>10
  <2> DEFINE u == t.out
  <2>4. /\ byte \in Octets
        /\ \A r \in 0..7 : Pick(byte, r) = Pick(v, r + m)
    BY <2>1 DEF BitsOfByte
  <2>5. /\ u \in Seq(Octets) /\ Len(u) = l + 1 /\ u[l + 1] = byte
        /\ \A j \in 1..l : u[j] = o[j]
    BY <1>3, <2>1, <2>4, AppendProperties DEF l
  <2> HIDE DEF u
  <2>6. ASSUME NEW q \in 1..8 * l
        PROVE  Bit(u, 8, q) = Bit(p, 5, q)
    <3> DEFINE j == ((q - 1) \div 8) + 1
    <3>1. j \in 1..l
      BY <1>3
    <3>2. u[j] = o[j]
      BY <2>5, <3>1
    <3> QED
      BY <1>4, <3>2 DEF Bit
  <2>7. ASSUME NEW r \in 0..7
        PROVE  Bit(u, 8, 8 * (l + 1) - r) = Bit(p, 5, 8 * (l + 1) - r)
    <3>1. Bit(u, 8, 8 * (l + 1) - r) = Pick(u[l + 1], r)
      BY <1>3, BitIs
    <3>2. Pick(u[l + 1], r) = Pick(v, r + m)
      BY <2>4, <2>5
    <3>3. r + m \in 0..(n + 4) /\ e - (r + m) = 8 * (l + 1) - r
      BY <1>3, <2>2, <2>3
    <3>4. Pick(v, r + m) = Bit(p, 5, e - (r + m))
      BY <1>8, <3>3
    <3> QED
      BY <3>1, <3>2, <3>3, <3>4
  <2>8. ASSUME NEW q \in 1..8 * (l + 1)
        PROVE  Bit(u, 8, q) = Bit(p, 5, q)
    <3>1. CASE q <= 8 * l
      <4>1. q \in 1..8 * l
        BY <1>3, <3>1
      <4> QED
        BY <2>6, <4>1
    <3>2. CASE q > 8 * l
      <4> DEFINE r == 8 * (l + 1) - q
      <4>1. r \in 0..7 /\ 8 * (l + 1) - r = q
        BY <1>3, <3>2
      <4> HIDE DEF r
      <4>2. Bit(u, 8, 8 * (l + 1) - r) = Bit(p, 5, 8 * (l + 1) - r)
        BY <2>7, <4>1
      <4> QED
        BY <4>1, <4>2
    <3> QED
      BY <1>3, <3>1, <3>2
  <2>9. \A r \in 0..(t.nbits - 1) : Pick(t.bits, r) = Bit(p, 5, e - r)
    <3>1. \A r \in 0..(m - 1) : r \in 0..(n + 4)
      BY <1>3
    <3> QED
      BY <1>5, <1>8, <2>2, <3>1
  <2>10. e = 8 * Len(t.out) + t.nbits
    BY <2>2, <2>3, <2>5 DEF u
  <2>11. \A q \in 1..8 * Len(t.out) : Bit(t.out, 8, q) = Bit(p, 5, q)
    BY <2>5, <2>8 DEF u
  <2> QED
    BY <1>5, <2>9, <2>10, <2>11 DEF HasBits, c, t, e
<1> QED
  BY <1>3, <1>9, <1>10

(* The decoder before the first letter. *)
Blank == [bits |-> 0, nbits |-> 0, out |-> <<>>]

(* The decoder has the bits of all letters. *)
LEMMA DecoderGoes ==
  ASSUME NEW p \in Seq(Letters)
  PROVE  LET st == FoldLeft(ShiftIn, [bits |-> 0, nbits |-> 0, out |-> <<>>], p)
         IN  st \in States /\ HasBits(st, p, Len(p))
<1> DEFINE n == Len(p)
           Is(f) == f = [s \in SUBSET (DOMAIN p) |->
                           IF s = {} THEN Blank ELSE ShiftIn(f[s \ {Max(s)}], p[Max(s)])]
           step == [x \in States \X Letters |-> ShiftIn(x[1], x[2])]
           g == CHOOSE f : Is(f)
<1>1. n \in Nat /\ DOMAIN p = 1..n /\ p \in [1..n -> Letters] /\ Blank \in States
  BY DEF Blank, States
<1>2. FoldLeft(ShiftIn, [bits |-> 0, nbits |-> 0, out |-> <<>>], p) = g[DOMAIN p]
  BY DEF FoldLeft, MapThenFoldSet, Blank
<1>3. step \in [States \X Letters -> States]
  <2>1. \A x \in States, y \in Letters : ShiftIn(x, y) \in States
    BY ShiftInIs DEF Shifted32
  <2> QED
    BY <2>1
<1>4. \A x \in States, y \in Letters : step[<<x, y>>] = ShiftIn(x, y)
  OBVIOUS
<1> HIDE DEF step, n
<1>5. PICK f : Folds(f, n, States, Blank, p, step)
  BY <1>1, <1>3, FoldExists
<1>6. ASSUME NEW s \in SUBSET (1..n), s # {}
      PROVE  f[s] = ShiftIn(f[s \ {Max(s)}], p[Max(s)])
  <2>1. Max(s) \in s /\ s \ {Max(s)} \in SUBSET (1..n)
    BY <1>1, <1>6, MaxOf
  <2>2. f[s \ {Max(s)}] \in States /\ p[Max(s)] \in Letters
    BY <1>1, <1>5, <2>1 DEF Folds
  <2> QED
    BY <1>4, <1>5, <1>6, <2>2 DEF Folds
<1>7. Is(f)
  <2>1. f = [s \in SUBSET (1..n) |-> f[s]] /\ f[{}] = Blank
    BY <1>5 DEF Folds
  <2>2. \A s \in SUBSET (1..n) :
          f[s] = IF s = {} THEN Blank ELSE ShiftIn(f[s \ {Max(s)}], p[Max(s)])
    BY <1>6, <2>1
  <2> QED
    BY <1>1, <2>1, <2>2, Zenon
<1>8. Is(g)
  BY <1>7
<1> HIDE DEF g
<1>9. Follows(g, n, States, Blank, p, step)
  <2>1. ASSUME NEW s \in SUBSET (1..n), s # {}, g[s \ {Max(s)}] \in States
        PROVE  g[s] = step[<<g[s \ {Max(s)}], p[Max(s)]>>]
    <3>1. p[Max(s)] \in Letters
      BY <1>1, <2>1, MaxOf
    <3> QED
      BY <1>1, <1>4, <1>8, <2>1, <3>1
  <2>2. g[{}] = Blank
    BY <1>1, <1>8
  <2> QED
    BY <2>1, <2>2 DEF Follows
<1>10. PICK st : Goes(st, n, States, Blank, p, step, g[1..n])
  BY <1>1, <1>3, <1>9, FoldGoes
<1> DEFINE T == {i \in 0..n : HasBits(st[i], p, i)}
<1>11. 0 \in T
  <2>1. HasBits(Blank, p, 0)
    <3>1. Blank.nbits = 0 /\ Blank.out = <<>> /\ Len(<<>>) = 0
      BY DEF Blank
    <3>2. 5 * 0 = 8 * 0 + 0 /\ 1..8 * 0 = {} /\ 0..(0 - 1) = {}
      OBVIOUS
    <3> QED
      BY <3>1, <3>2 DEF HasBits
  <2>2. st[0] = Blank /\ 0 \in 0..n
    BY <1>1, <1>10 DEF Goes
  <2> QED
    BY <2>1, <2>2
<1>12. ASSUME NEW i \in 0..(n - 1), i \in T
       PROVE  i + 1 \in T
  <2>1. i \in 0..n /\ i + 1 \in 1..n /\ i + 1 \in 0..n /\ (i + 1) - 1 = i
    BY <1>1
  <2>2. st[i] \in States /\ p[i + 1] \in Letters
    BY <1>1, <1>10, <2>1 DEF Goes
  <2>3. st[i + 1] = ShiftIn(st[i], p[i + 1])
    <3>1. st[i + 1] = step[<<st[(i + 1) - 1], p[i + 1]>>]
      BY <1>10, <2>1 DEF Goes
    <3> QED
      BY <1>4, <2>1, <2>2, <3>1
  <2>4. HasBits(st[i], p, i)
    BY <1>12
  <2>5. HasBits(ShiftIn(st[i], p[i + 1]), p, i + 1)
    <3>1. i \in 0..(Len(p) - 1)
      BY DEF n
    <3> DEFINE x == st[i]
    <3>2. x \in States /\ HasBits(x, p, i)
      BY <2>2, <2>4
    <3> HIDE DEF x
    <3>3. ShiftIn(x, p[i + 1]) \in States /\ HasBits(ShiftIn(x, p[i + 1]), p, i + 1)
      BY <3>1, <3>2, LetterKeeps
    <3> QED
      BY <3>3 DEF x
  <2> QED
    BY <2>1, <2>3, <2>5
<1> HIDE DEF T
<1>13. n \in T
  <2>1. \A i \in 0..n : i \in T
    BY <1>1, <1>11, <1>12, UpTo
  <2> QED
    BY <1>1, <2>1
<1>14. g[1..n] \in States /\ HasBits(g[1..n], p, n)
  <2>1. st[n] = g[1..n] /\ st[n] \in States
    BY <1>1, <1>10 DEF Goes
  <2>2. HasBits(st[n], p, n)
    BY <1>13 DEF T
  <2> QED
    BY <2>1, <2>2
<1> QED
  BY <1>1, <1>2, <1>14 DEF n

(* A part of a name is an address, or none is found in it. *)
AddressOf(p, addrs) ==
  IF IsAddress(p)
  THEN \E b \in Seq(Octets) : /\ addrs = {b}
                              /\ Bits(b, 8) = SubSeq(Bits(p, 5), 1, FullBits(p))
  ELSE addrs = {}

(* decode_base32_ip finds it. *)
LEMMA DecodeIpIs ==
  ASSUME NEW p \in Seq(Nat)
  PROVE  AddressOf(p, DecodeIp(p))
<1>0. Letters = 0..31
  BY DEF Letters
<1>1. CASE \E i \in DOMAIN p : p[i] \notin Letters
  <2>1. ~IsAddress(p)
    BY <1>0, <1>1 DEF IsAddress
  <2>2. DecodeIp(p) = {}
    BY <1>0, <1>1 DEF DecodeIp, Base32Decode
  <2> QED
    BY <2>1, <2>2 DEF AddressOf
<1>2. CASE ~\E i \in DOMAIN p : p[i] \notin Letters
  <2> DEFINE st == FoldLeft(ShiftIn, [bits |-> 0, nbits |-> 0, out |-> <<>>], p)
             n == Len(p)
             o == st.out
             m == st.nbits
             v == st.bits
             l == Len(o)
  <2>1. p \in Seq(Letters) /\ n \in Nat
    <3>1. n \in Nat /\ DOMAIN p = 1..n /\ p = [i \in 1..n |-> p[i]]
      OBVIOUS
    <3>2. \A i \in 1..n : p[i] \in Letters
      BY <1>2, <3>1
    <3>3. p \in [1..n -> Letters]
      BY <3>1, <3>2
    <3> QED
      BY <3>1, <3>3
  <2>2. st \in States /\ HasBits(st, p, n)
    BY <2>1, DecoderGoes
  <2>3. Base32Decode(p) = IF st.bits % TwoTo(st.nbits) = 0 THEN {st.out} ELSE {}
    BY <1>0, <1>2 DEF Base32Decode
  <2> HIDE DEF st, n
  <2>4. v \in Nat /\ m \in 0..7 /\ o \in Seq(Octets) /\ l \in Nat
    BY <2>2 DEF States
  <2>5. /\ 5 * n = 8 * l + m
        /\ \A q \in 1..8 * l : Bit(o, 8, q) = Bit(p, 5, q)
        /\ \A r \in 0..(m - 1) : Pick(v, r) = Bit(p, 5, 5 * n - r)
    BY <2>2 DEF HasBits
  <2>6. Base32Decode(p) = IF v % TwoTo(m) = 0 THEN {o} ELSE {}
    BY <2>3
  <2> HIDE DEF o, m, v, l
  <2>7. FullBits(p) = 8 * l
    <3>1. (5 * n) \div 8 = l
      BY <2>1, <2>4, <2>5
    <3> QED
      BY <3>1 DEF FullBits, n
  <2>8. TwoTo(m) = Powers[m + 1]
    <3>1. m = 0 \/ m = 1 \/ m = 2 \/ m = 3 \/ m = 4 \/ m = 5 \/ m = 6 \/ m = 7
      BY <2>4
    <3> QED
      BY <3>1, SMT DEF TwoTo, Powers
  <2>9. v % TwoTo(m) = 0 <=> \A q \in (8 * l + 1)..5 * n : Bit(p, 5, q) = 0
    <3>1. v % TwoTo(m) = 0 <=> \A r \in 0..(m - 1) : Pick(v, r) = 0
      BY <2>4, <2>8, ZeroBits
    <3>2. \A r \in 0..(m - 1) : 5 * n - r \in (8 * l + 1)..5 * n
      BY <2>1, <2>4, <2>5
    <3>3. \A q \in (8 * l + 1)..5 * n : 5 * n - q \in 0..(m - 1) /\ 5 * n - (5 * n - q) = q
      BY <2>1, <2>4, <2>5
    <3>4. ASSUME NEW q \in (8 * l + 1)..5 * n, \A r \in 0..(m - 1) : Pick(v, r) = 0
          PROVE  Bit(p, 5, q) = 0
      <4> DEFINE r == 5 * n - q
      <4>1. r \in 0..(m - 1) /\ 5 * n - r = q
        BY <3>3
      <4> HIDE DEF r
      <4> QED
        BY <2>5, <3>4, <4>1
    <3> QED
      BY <2>5, <3>1, <3>2, <3>4
  <2>10. \A q \in 1..5 * n : Bits(p, 5)[q] = Bit(p, 5, q)
    <3>1. n * 5 = 5 * n
      BY <2>1
    <3> QED
      BY <3>1 DEF Bits, n
  <2>11. IsAddress(p) <=> l \in {V4Len, V6Len} /\ v % TwoTo(m) = 0
    <3>1. (\A i \in DOMAIN p : p[i] \in 0..31)
      BY <1>0, <1>2
    <3>2. 8 * l \in {8 * V4Len, 8 * V6Len} <=> l \in {V4Len, V6Len}
      <4>1. V4Len \in Nat /\ V6Len \in Nat
        BY EncodingAssumption
      <4> QED
        BY <2>4, <4>1
    <3>3. (8 * l + 1)..5 * n \subseteq 1..5 * n
      BY <2>1, <2>4
    <3>4. (\A q \in (8 * l + 1)..5 * n : Bits(p, 5)[q] = 0)
            <=> \A q \in (8 * l + 1)..5 * n : Bit(p, 5, q) = 0
      BY <2>10, <3>3
    <3> QED
      BY <2>7, <2>9, <3>1, <3>2, <3>4 DEF IsAddress, n
  <2>12. Bits(o, 8) = SubSeq(Bits(p, 5), 1, FullBits(p))
    <3> DEFINE s == Bits(p, 5)
               B == {Bit(p, 5, q) : q \in 1..n * 5}
               u == SubSeq(s, 1, 8 * l)
               w == Bits(o, 8)
    <3>1. n * 5 \in Nat /\ n * 5 = 5 * n
      BY <2>1
    <3>2. s \in Seq(B) /\ Len(s) = n * 5
      <4>1. s = [q \in 1..n * 5 |-> Bit(p, 5, q)]
        BY DEF Bits, n
      <4> DEFINE k == n * 5
      <4>2. s \in [1..k -> B]
        BY <4>1
      <4> HIDE DEF s, B, k
      <4>3. k \in Nat
        BY <3>1 DEF k
      <4>4. s \in Seq(B) /\ Len(s) = k
        BY <4>2, <4>3
      <4> QED
        BY <4>4 DEF k
    <3> HIDE DEF s, B
    <3>3. 8 * l \in 0..Len(s)
      BY <2>1, <2>4, <2>5, <3>1, <3>2
    <3>4. u \in Seq(B) /\ Len(u) = 8 * l /\ \A i \in 1..8 * l : u[i] = s[i]
      BY <3>2, <3>3, Firsts
    <3>5. \A q \in 1..8 * l : q \in 1..5 * n
      BY <3>1, <3>2, <3>3
    <3>6. \A q \in 1..8 * l : s[q] = Bit(o, 8, q)
      BY <2>5, <2>10, <3>5 DEF s
    <3>7. w = [q \in 1..8 * l |-> Bit(o, 8, q)]
      <4>1. l * 8 = 8 * l
        BY <2>4
      <4> QED
        BY <4>1 DEF Bits, l
    <3>8. u = [q \in 1..8 * l |-> u[q]]
      BY <3>4
    <3> HIDE DEF u, w
    <3>9. \A q \in 1..8 * l : u[q] = Bit(o, 8, q)
      BY <3>4, <3>6
    <3>10. u = w
      BY <3>7, <3>8, <3>9
    <3> QED
      BY <2>7, <3>10 DEF u, w, s
  <2>13. DecodeIp(p) = IF IsAddress(p) THEN {o} ELSE {}
    BY <2>6, <2>11 DEF DecodeIp, l
  <2> QED
    BY <2>4, <2>12, <2>13 DEF AddressOf
<1> QED
  BY <1>1, <1>2

(* A set of one element or none, as a sequence. *)
LEMMA SmallSets ==
  /\ SetToSeq({}) = <<>>
  /\ \A b : SetToSeq({b}) = <<b>>
<1>1. SetToSeq({}) = <<>>
  <2> DEFINE P(f) == f \in [1..0 -> {}] /\ IsInjective(f)
             h == CHOOSE f : P(f)
  <2>1. Cardinality({}) = 0
    BY FS_EmptySet
  <2>2. SetToSeq({}) = CHOOSE f \in [1..0 -> {}] : IsInjective(f)
    BY <2>1 DEF SetToSeq
  <2>3. \A f \in [1..0 -> {}] : f = <<>>
    <3>1. 1..0 = {} /\ DOMAIN <<>> = {}
      OBVIOUS
    <3>2. \A f \in [1..0 -> {}] : f \in Seq({}) /\ Len(f) = 0
      OBVIOUS
    <3> QED
      BY <3>2
  <2>4. <<>> \in [1..0 -> {}] /\ IsInjective(<<>>)
    BY DEF IsInjective
  <2> QED
    BY <2>2, <2>3, <2>4
<1>2. ASSUME NEW b
      PROVE  SetToSeq({b}) = <<b>>
  <2>1. Cardinality({b}) = 1
    BY FS_Singleton
  <2>2. SetToSeq({b}) = CHOOSE f \in [1..1 -> {b}] : IsInjective(f)
    BY <2>1 DEF SetToSeq
  <2>3. \A f \in [1..1 -> {b}] : f = <<b>>
    <3> SUFFICES ASSUME NEW f \in [1..1 -> {b}]
                 PROVE  f = <<b>>
      OBVIOUS
    <3> DEFINE S == {b}
    <3>1. f \in [1..1 -> S]
      OBVIOUS
    <3>2. \A x \in S : x = b
      OBVIOUS
    <3> HIDE DEF S
    <3>3. f \in Seq(S) /\ Len(f) = 1 /\ f[1] \in S
      <4>1. \A k \in Nat : \A x \in [1..k -> S] : x \in Seq(S) /\ Len(x) = k
        OBVIOUS
      <4>2. 1 \in Nat
        OBVIOUS
      <4>3. f \in Seq(S) /\ Len(f) = 1
        BY <3>1, <4>1, <4>2, Zenon
      <4> QED
        BY <4>3
    <3>4. f = <<f[1]>>
      BY <3>3, TupleIs
    <3>5. f[1] = b
      BY <3>2, <3>3
    <3> QED
      BY <3>4, <3>5
  <2>4. <<b>> \in [1..1 -> {b}] /\ IsInjective(<<b>>)
    BY DEF IsInjective
  <2> QED
    BY <2>2, <2>3, <2>4
<1> QED
  BY <1>1, <1>2

(* g, element by element; of a concatenation as of its parts. *)
Mapped(s, g) == [j \in DOMAIN s |-> g[s[j]]]

LEMMA MappedJoins ==
  ASSUME NEW T, NEW a \in Seq(T), NEW b \in Seq(T), NEW g
  PROVE  Mapped(a \o b, g) = Mapped(a, g) \o Mapped(b, g)
<1> DEFINE m == Len(a)
           n == Len(b)
           s == a \o b
           U == {g[x] : x \in T}
           u == Mapped(a, g)
           v == Mapped(b, g)
           w == u \o v
<1>1. m \in Nat /\ n \in Nat
  OBVIOUS
<1>2. /\ s \in Seq(T) /\ Len(s) = m + n
      /\ \A i \in 1..(m + n) : s[i] = IF i <= m THEN a[i] ELSE b[i - m]
  BY ConcatProperties
<1>3. \A x \in Seq(T) : /\ Mapped(x, g) \in Seq(U) /\ Len(Mapped(x, g)) = Len(x)
                        /\ \A i \in 1..Len(x) : Mapped(x, g)[i] = g[x[i]]
  <2> SUFFICES ASSUME NEW x \in Seq(T)
               PROVE  /\ Mapped(x, g) \in Seq(U) /\ Len(Mapped(x, g)) = Len(x)
                      /\ \A i \in 1..Len(x) : Mapped(x, g)[i] = g[x[i]]
    OBVIOUS
  <2> DEFINE k == Len(x)
             y == Mapped(x, g)
  <2>1. k \in Nat /\ DOMAIN x = 1..k /\ \A i \in 1..k : x[i] \in T
    OBVIOUS
  <2> HIDE DEF k
  <2>2. y = [i \in 1..k |-> g[x[i]]]
    BY <2>1 DEF Mapped
  <2>3. y \in [1..k -> U]
    BY <2>1, <2>2
  <2> HIDE DEF y, U
  <2>4. y \in Seq(U) /\ Len(y) = k /\ \A i \in 1..k : y[i] = g[x[i]]
    BY <2>1, <2>2, <2>3
  <2> QED
    BY <2>4 DEF y, k
<1> HIDE DEF s, U
<1>4. /\ u \in Seq(U) /\ Len(u) = m /\ \A i \in 1..m : u[i] = g[a[i]]
      /\ v \in Seq(U) /\ Len(v) = n /\ \A i \in 1..n : v[i] = g[b[i]]
  BY <1>3
<1>5. /\ Mapped(s, g) \in Seq(U) /\ Len(Mapped(s, g)) = m + n
      /\ \A i \in 1..(m + n) : Mapped(s, g)[i] = g[s[i]]
  BY <1>2, <1>3
<1> HIDE DEF u, v, m, n
<1>6. /\ w \in Seq(U) /\ Len(w) = m + n
      /\ \A i \in 1..(m + n) : w[i] = IF i <= m THEN u[i] ELSE v[i - m]
  <2>1. /\ u \o v \in Seq(U) /\ Len(u \o v) = Len(u) + Len(v)
        /\ \A i \in 1..(Len(u) + Len(v)) : (u \o v)[i] = IF i <= Len(u) THEN u[i] ELSE v[i - Len(u)]
    BY <1>4, ConcatProperties
  <2> QED
    BY <1>4, <2>1
<1> HIDE DEF w
<1>7. ASSUME NEW i \in 1..(m + n)
      PROVE  Mapped(s, g)[i] = w[i]
  <2>1. CASE i <= m
    <3>1. i \in 1..m
      BY <1>1, <2>1
    <3>2. s[i] = a[i] /\ w[i] = u[i]
      BY <1>2, <1>6, <2>1
    <3>3. u[i] = g[a[i]]
      BY <1>4, <3>1
    <3>4. Mapped(s, g)[i] = g[s[i]]
      BY <1>5
    <3> QED
      BY <3>2, <3>3, <3>4
  <2>2. CASE ~(i <= m)
    <3>1. i - m \in 1..n
      BY <1>1, <2>2
    <3>2. s[i] = b[i - m] /\ w[i] = v[i - m]
      BY <1>2, <1>6, <2>2
    <3>3. v[i - m] = g[b[i - m]]
      BY <1>4, <3>1
    <3>4. Mapped(s, g)[i] = g[s[i]]
      BY <1>5
    <3> QED
      BY <3>2, <3>3, <3>4
  <2> QED
    BY <2>1, <2>2
<1>8. Mapped(s, g) = w
  <2> DEFINE z == Mapped(s, g)
  <2>1. z \in Seq(U) /\ Len(z) = m + n /\ \A i \in 1..(m + n) : z[i] = w[i]
    BY <1>5, <1>7
  <2> HIDE DEF z
  <2>2. z = w
    BY <1>1, <1>6, <2>1, SeqEqual
  <2> QED
    BY <2>2 DEF z
<1> QED
  BY <1>8 DEF s, w, u, v

(* Each part of ys is a part of xs, element by element. *)
ArePartsMapped(xs, ys, n, T, g) ==
  /\ Len(xs) = n /\ Len(ys) = n
  /\ \A i \in 1..n : xs[i] \in Seq(T) /\ ys[i] = Mapped(xs[i], g)

(* Then the same holds of their concatenations. *)
LEMMA MapsFlatten ==
  ASSUME NEW n \in Nat \ {0}, NEW T, NEW g, NEW xs, NEW ys, ArePartsMapped(xs, ys, n, T, g)
  PROVE  FlattenSeq(xs) \in Seq(T) /\ FlattenSeq(ys) = Mapped(FlattenSeq(xs), g)
<1> DEFINE S == Seq(T)
           step == [x \in (1..n) \X S |-> x[2] \o xs[x[1]]]
<1>1. /\ Len(xs) = n /\ Len(ys) = n
      /\ \A i \in 1..n : xs[i] \in S /\ ys[i] = Mapped(xs[i], g)
  BY DEF ArePartsMapped
<1>2. \A x \in S, y \in S : x \o y \in S
  BY ConcatProperties
<1>3. <<>> \in S
  OBVIOUS
<1>4. \A i \in 1..n, x \in S : x \o xs[i] \in S
  BY <1>1, <1>2
<1> HIDE DEF S
<1>5. IsStep(step, n, S)
  BY <1>4 DEF IsStep
<1>6. \A i \in 1..n, x \in S : step[<<i, x>>] = x \o xs[i]
  OBVIOUS
<1> HIDE DEF step
<1>7. PICK f : Runs(f, n, S, <<>>, step)
  BY <1>3, <1>5, StepsExist
<1> DEFINE F == [i \in 1..n |-> f[i]]
           G == [i \in 1..n |-> Mapped(f[i], g)]
<1>8. ASSUME NEW i \in 1..n
      PROVE  /\ f[i - 1] \in S /\ f[i] = f[i - 1] \o xs[i]
             /\ i = 1 => f[i] = xs[i]
  <2>1. i - 1 \in 0..n
    OBVIOUS
  <2>2. f[i - 1] \in S /\ f[i] = step[<<i, f[i - 1]>>]
    BY <1>7, <2>1 DEF Runs
  <2>3. f[i] = f[i - 1] \o xs[i]
    BY <1>6, <2>2
  <2>4. ASSUME i = 1
        PROVE  f[i] = xs[i]
    <3>1. f[i - 1] = <<>>
      BY <1>7, <2>4 DEF Runs
    <3>2. xs[i] \in Seq(T)
      BY <1>1 DEF S
    <3>3. <<>> \o xs[i] = xs[i]
      BY <3>2, ConcatEmptySeq
    <3> QED
      BY <2>3, <3>1, <3>3
  <2> QED
    BY <2>2, <2>3, <2>4
<1>9. \A i \in 1..n : i # 1 => i - 1 \in 1..n
  OBVIOUS
<1>10. Concats(F, xs, n)
  <2>1. F = [i \in 1..n |-> F[i]]
    OBVIOUS
  <2>2. \A i \in 1..n : F[i] = f[i]
    OBVIOUS
  <2> HIDE DEF F
  <2>3. \A i \in 1..n : F[i] = IF i = 1 THEN xs[i] ELSE F[i - 1] \o xs[i]
    BY <1>8, <1>9, <2>2
  <2> QED
    BY <2>1, <2>3 DEF Concats
<1>11. Concats(G, ys, n)
  <2>1. G = [i \in 1..n |-> G[i]]
    OBVIOUS
  <2>2. \A i \in 1..n : G[i] = Mapped(f[i], g)
    OBVIOUS
  <2> HIDE DEF G
  <2>3. ASSUME NEW i \in 1..n
        PROVE  Mapped(f[i - 1] \o xs[i], g) = Mapped(f[i - 1], g) \o Mapped(xs[i], g)
    <3> DEFINE x == f[i - 1]
               y == xs[i]
    <3>1. x \in Seq(T) /\ y \in Seq(T)
      BY <1>1, <1>8 DEF S
    <3> HIDE DEF x, y
    <3>2. Mapped(x \o y, g) = Mapped(x, g) \o Mapped(y, g)
      BY <3>1, MappedJoins
    <3> QED
      BY <3>2 DEF x, y
  <2>4. ASSUME NEW i \in 1..n
        PROVE  G[i] = IF i = 1 THEN ys[i] ELSE G[i - 1] \o ys[i]
    <3>1. ys[i] = Mapped(xs[i], g) /\ G[i] = Mapped(f[i], g)
      BY <1>1, <2>2
    <3>2. CASE i = 1
      <4>1. f[i] = xs[i]
        BY <1>8, <3>2
      <4> QED
        BY <3>1, <3>2, <4>1
    <3>3. CASE i # 1
      <4>1. f[i] = f[i - 1] \o xs[i]
        BY <1>8
      <4>2. G[i - 1] = Mapped(f[i - 1], g)
        BY <1>9, <2>2, <3>3
      <4> QED
        BY <2>3, <3>1, <3>3, <4>1, <4>2
    <3> QED
      BY <3>2, <3>3
  <2> QED
    BY <2>1, <2>4 DEF Concats
<1>12. FlattenSeq(xs) = F[n]
  <2> HIDE DEF F
  <2> QED
    BY <1>1, <1>10, FlattenIs
<1>13. FlattenSeq(ys) = G[n]
  <2> HIDE DEF G
  <2> QED
    BY <1>1, <1>11, FlattenIs
<1>14. F[n] = f[n] /\ G[n] = Mapped(f[n], g)
  OBVIOUS
<1>15. f[n] \in Seq(T)
  BY <1>7 DEF Runs, S
<1> QED
  BY <1>12, <1>13, <1>14, <1>15

(* The addresses a name yields are the bits of its parts that are addresses. *)
LEMMA NamesAreExact ==
  ASSUME NEW label \in Seq(Nat)
  PROVE  NamesGiveTheirAddresses(label)
<1> DEFINE parts == Split(label, Dash)
           n == Len(parts)
           xs == [i \in DOMAIN parts |-> SetToSeq(DecodeIp(parts[i]))]
           ys == [i \in DOMAIN parts |->
                    IF IsAddress(parts[i]) THEN <<SubSeq(Bits(parts[i], 5), 1, FullBits(parts[i]))>>
                    ELSE <<>>]
           g == [b \in Seq(Octets) |-> Bits(b, 8)]
<1>1. parts \in PartLists(Nat)
  <2>1. PICK st : Splits(st, label, Dash, Nat)
    BY SplitGoes
  <2>2. Len(label) \in 0..Len(label)
    OBVIOUS
  <2> QED
    BY <2>1, <2>2 DEF Splits
<1> HIDE DEF parts
<1>2. n \in Nat \ {0} /\ DOMAIN parts = 1..n /\ \A i \in 1..n : parts[i] \in Seq(Nat)
  BY <1>1 DEF PartLists
<1> HIDE DEF n
<1>3. ASSUME NEW i \in 1..n
      PROVE  xs[i] \in Seq(Seq(Octets)) /\ ys[i] = Mapped(xs[i], g)
  <2> DEFINE p == parts[i]
             d == DecodeIp(p)
             y == SubSeq(Bits(p, 5), 1, FullBits(p))
  <2>1. AddressOf(p, d)
    BY <1>2, DecodeIpIs
  <2>2. xs[i] = SetToSeq(d) /\ ys[i] = IF IsAddress(p) THEN <<y>> ELSE <<>>
    BY <1>2
  <2> HIDE DEF p, d, y, xs, ys, g
  <2>3. CASE ~IsAddress(p)
    <3>1. d = {} /\ xs[i] = <<>> /\ ys[i] = <<>>
      BY <2>1, <2>2, <2>3, SmallSets DEF AddressOf
    <3>2. Mapped(<<>>, g) = <<>>
      BY DEF Mapped
    <3> QED
      BY <3>1, <3>2
  <2>4. CASE IsAddress(p)
    <3>1. PICK b \in Seq(Octets) : d = {b} /\ Bits(b, 8) = y
      BY <2>1, <2>4 DEF AddressOf, y
    <3>2. xs[i] = <<b>> /\ ys[i] = <<Bits(b, 8)>>
      BY <2>2, <2>4, <3>1, SmallSets
    <3>3. g[b] = Bits(b, 8)
      BY DEF g
    <3>4. Mapped(<<b>>, g) = <<g[b]>>
      BY DEF Mapped
    <3>5. <<b>> \in Seq(Seq(Octets))
      OBVIOUS
    <3> QED
      BY <3>2, <3>3, <3>4, <3>5
  <2> QED
    BY <2>3, <2>4
<1>4. Len(xs) = n /\ Len(ys) = n
  BY <1>2
<1> HIDE DEF xs, ys
<1>5. ArePartsMapped(xs, ys, n, Seq(Octets), g)
  BY <1>3, <1>4 DEF ArePartsMapped
<1> DEFINE addrs == FlattenSeq(xs)
<1>6. addrs \in Seq(Seq(Octets)) /\ FlattenSeq(ys) = Mapped(addrs, g)
  <2> DEFINE T == Seq(Octets)
  <2> HIDE DEF g, T
  <2>1. ArePartsMapped(xs, ys, n, T, g)
    BY <1>5 DEF T
  <2>2. addrs \in Seq(T) /\ FlattenSeq(ys) = Mapped(addrs, g)
    BY <1>2, <2>1, MapsFlatten
  <2> QED
    BY <2>2 DEF T
<1>7. \A i \in DOMAIN addrs : addrs[i] \in Seq(Octets)
  BY <1>6
<1>8. Mapped(addrs, g) = [i \in DOMAIN addrs |-> Bits(addrs[i], 8)]
  BY <1>7 DEF Mapped
<1> QED
  BY <1>6, <1>8 DEF NamesGiveTheirAddresses, LookupHost, xs, ys, parts
----------------------------------------------------------------------------
(***************************************************************************)
(* The inputs of the model are such bytes, replies and entries, so that    *)
(* what holds of all of these is an invariant of it.                       *)
(***************************************************************************)

LEMMA InputTyped == Spec => [](input \in Seq(Symbols))
<1>1. Init => input \in Seq(Symbols)
  BY DEF Init
<1>2. input \in Seq(Symbols) /\ [Next]_input => (input \in Seq(Symbols))'
  <2> SUFFICES ASSUME input \in Seq(Symbols), [Next]_input
               PROVE  input' \in Seq(Symbols)
    OBVIOUS
  <2>1. ASSUME NEW s \in Symbols, input' = Append(input, s)
        PROVE  input' \in Seq(Symbols)
    BY <2>1, AppendProperties
  <2> QED
    BY <2>1 DEF Next
<1> QED
  BY <1>1, <1>2, PTL DEF Spec

(* An alphabet of six members of S reads the input as a sequence over S. *)
LEMMA Alphabet ==
  ASSUME input \in Seq(Symbols), NEW S, NEW alphabet \in [1..6 -> S]
  PROVE  In(alphabet) \in Seq(S) /\ Len(In(alphabet)) = Len(input)
<1> DEFINE n == Len(input)
<1>1. n \in Nat /\ DOMAIN input = 1..n /\ \A i \in 1..n : input[i] \in 1..6
  BY DEF Symbols
<1>2. In(alphabet) = [i \in 1..n |-> alphabet[input[i]]]
  BY <1>1 DEF In
<1>3. \A i \in 1..n : alphabet[input[i]] \in S
  BY <1>1
<1> HIDE DEF n
<1>4. In(alphabet) \in [1..n -> S]
  BY <1>2, <1>3
<1> QED
  BY <1>1, <1>2, <1>4 DEF n

LEMMA WiredIs ==
  ASSUME input \in Seq(Symbols)
  PROVE  Wired \in Seq(Nat) /\ Len(Wired) = Len(input)
<1>1. <<0, 1, 2, 3, 4, 5>> \in [1..6 -> Nat]
  OBVIOUS
<1> QED
  BY <1>1, Alphabet DEF Wired

(* The last elements of a sequence. *)
LEMMA Lasts ==
  ASSUME NEW S, NEW s \in Seq(S), NEW n \in 0..Len(s)
  PROVE  LET u == SubSeq(s, n + 1, Len(s))
         IN  u \in Seq(S) /\ \A i \in DOMAIN u : \E j \in 1..Len(s) : u[i] = s[j]
<1> DEFINE k == Len(s)
           u == SubSeq(s, n + 1, k)
<1>1. k \in Nat /\ n \in 0..k /\ \A i \in 1..k : s[i] \in S
  OBVIOUS
<1>2. \A i \in (n + 1)..k : s[i] \in S
  <2>1. \A i \in (n + 1)..k : i \in 1..k
    BY <1>1
  <2> QED
    BY <1>1, <2>1
<1> HIDE DEF k
<1>3. n + 1 \in Int /\ k \in Int
  BY <1>1
<1>4. /\ u \in Seq(S) /\ Len(u) = IF n + 1 <= k THEN k - (n + 1) + 1 ELSE 0
      /\ \A i \in 1..(k - (n + 1) + 1) : u[i] = s[(n + 1) + i - 1]
  BY <1>2, <1>3, SubSeqProperties
<1>5. DOMAIN u = 1..Len(u)
  BY <1>4
<1> HIDE DEF u
<1>6. \A i \in 1..Len(u) : i \in 1..(k - (n + 1) + 1) /\ (n + 1) + i - 1 \in 1..k
  BY <1>1, <1>4
<1>7. \A i \in DOMAIN u : \E j \in 1..k : u[i] = s[j]
  BY <1>4, <1>5, <1>6
<1> QED
  BY <1>4, <1>7 DEF u, k

LEMMA DataIs ==
  ASSUME input \in Seq(Symbols)
  PROVE  /\ Data \in Seq(Octets) /\ Len(Data) = Len(input)
         /\ Name \in Seq(Nat) /\ Label \in Seq(Nat)
         /\ \A i \in 1..Len(input) : Data[i] # Slash
<1>1. <<0, 1, Dot, 128, 254, 255>> \in [1..6 -> Octets]
  BY DEF Dot, Octets
<1>2. <<LetterK, Dot, Slash, 5, 63, 66>> \in [1..6 -> Nat]
  BY DEF LetterK, Dot, Slash
<1>3. \A i \in 1..6 : <<0, 1, Dot, 128, 254, 255>>[i] # Slash
  BY DEF Dot, Slash
<1>4. \A i \in 1..Len(input) : input[i] \in 1..6
  BY DEF Symbols
<1>5. \A i \in 1..Len(input) : Data[i] = <<0, 1, Dot, 128, 254, 255>>[input[i]]
  BY <1>4 DEF Data, In
<1>6. Data \in Seq(Octets) /\ Len(Data) = Len(input)
  BY <1>1, Alphabet DEF Data
<1>7. Name \in Seq(Nat)
  BY <1>2, Alphabet DEF Name
<1>8. \A i \in 1..Len(input) : Data[i] # Slash
  BY <1>3, <1>4, <1>5
<1>9. <<0, 1, 16, 31, 32, Dash>> \in [1..6 -> Nat]
  BY DEF Dash
<1>10. Label \in Seq(Nat)
  BY <1>9, Alphabet DEF Label
<1> QED
  BY <1>6, <1>7, <1>8, <1>10

(* A client id leads back to the hash it was made from (recipient_hash,     *)
(* client.rs:259, undoes ClientId::fmt and base64url_encode): for a hash of *)
(* any length, any endpoint and any server without a slash; and so do the   *)
(* ids that get_group_members makes.                                        *)
THEOREM IdsLeadBack ==
  \A data \in Seq(0..255), endpoint \in Seq(Nat) :
    \A server \in Seq(Nat) :
      (\A i \in DOMAIN server : server[i] # Slash) => HashesRoundTrip(data, server, endpoint)
<1> SUFFICES ASSUME NEW data \in Seq(Octets), NEW endpoint \in Seq(Nat), NEW server \in Seq(Nat),
                    \A i \in DOMAIN server : server[i] # Slash
             PROVE  HashesRoundTrip(data, server, endpoint)
  BY DEF Octets
<1> DEFINE t == <<Slash>> \o endpoint
           u == Display(LetterK, server, Base64Encode(data))
<1>1. <<Slash>> \in Seq(Nat) /\ Len(<<Slash>>) = 1 /\ <<Slash>>[1] = Slash
  BY DEF Slash
<1>2. IsEnd(t)
  <2> DEFINE k == <<Slash>>
  <2> HIDE DEF k
  <2>1. /\ k \o endpoint \in Seq(Nat)
        /\ \A i \in 1..(1 + Len(endpoint)) :
             (k \o endpoint)[i] = IF i <= 1 THEN k[i] ELSE endpoint[i - 1]
    BY <1>1, ConcatProperties DEF k
  <2>2. 1 \in 1..(1 + Len(endpoint))
    OBVIOUS
  <2>3. (k \o endpoint)[1] = Slash
    BY <1>1, <2>1, <2>2 DEF k
  <2> QED
    BY <2>1, <2>3 DEF IsEnd, k
<1>3. RecipientHash(u \o t) = {data}
  <2> HIDE DEF t
  <2> QED
    BY <1>2, IdLeadsBack
<1>4. (u \o <<Slash>>) \o endpoint = u \o t
  <2>1. IsLead(Lead(server)) /\ Base64Encode(data) \in Seq(Digits)
    BY LeadIs, Base64ReadsBack
  <2>2. u = Lead(server) \o Base64Encode(data)
    BY DEF Display, Lead
  <2>3. u \in Seq(Nat)
    BY <2>1, <2>2, IdParts
  <2> HIDE DEF u
  <2> QED
    BY <1>1, <2>3, ConcatAssociative
<1> HIDE DEF u, t
<1>5. RecipientHash((u \o <<Slash>>) \o endpoint) = {data}
  BY <1>3, <1>4
<1> QED
  BY <1>5, MembersLeadBack, Zenon DEF HashesRoundTrip, u

(* The addresses in a name are found, no other ones, and all, whatever the *)
(* length of an address (resolver.rs:16): the register of base32_decode is *)
(* wide enough, since it never holds more than twelve bits that count.     *)
THEOREM NamesLeadToAddresses == \A label \in Seq(Nat) : NamesGiveTheirAddresses(label)
BY NamesAreExact

(* Both as an invariant of the model. *)
THEOREM TextsAlwaysOk == Spec => []TextsOk
<1>1. ASSUME input \in Seq(Symbols)
      PROVE  TextsOk
  <2> DEFINE n == Len(input) \div 2
             k == Len(input)
  <2>1. Data \in Seq(Octets) /\ Name \in Seq(Nat) /\ Len(Data) = k
    BY <1>1, DataIs
  <2>2. k \in Nat /\ n \in 0..k
    BY <1>1
  <2>3. \A i \in 1..k : Data[i] # Slash
    BY <1>1, DataIs
  <2> DEFINE a == SubSeq(Data, 1, n)
             b == SubSeq(Data, n + 1, k)
  <2> HIDE DEF n, k
  <2>4. a \in Seq(Octets)
    BY <2>1, <2>2, Firsts
  <2>5. b \in Seq(Nat) /\ \A i \in DOMAIN b : b[i] # Slash
    <3>1. b \in Seq(Octets) /\ \A i \in DOMAIN b : \E j \in 1..k : b[i] = Data[j]
      BY <2>1, <2>2, Lasts DEF b
    <3>2. Octets \subseteq Nat
      BY DEF Octets
    <3>3. b \in Seq(Nat)
      BY <3>1, <3>2, SeqMonotonic
    <3> QED
      BY <2>3, <3>1, <3>3
  <2>6. <<>> \in Seq(Nat) /\ \A i \in DOMAIN <<>> : <<>>[i] # Slash
    OBVIOUS
  <2> HIDE DEF a, b
  <2>7. HashesRoundTrip(Data, <<>>, Name)
    BY <2>1, <2>6, IdsLeadBack DEF Octets
  <2>8. HashesRoundTrip(a, b, <<>>)
    BY <2>4, <2>5, <2>6, IdsLeadBack DEF Octets
  <2>9. IdsOk
    BY <2>7, <2>8 DEF IdsOk, a, b, n, k
  <2>10. NamesOk
    <3>1. Label \in Seq(Nat)
      BY <1>1, DataIs
    <3> QED
      BY <3>1, NamesLeadToAddresses DEF NamesOk
  <2> QED
    BY <2>9, <2>10 DEF TextsOk
<1> QED
  BY <1>1, InputTyped, PTL

(* Packet::encode undoes parse on any bytes, and read_name keeps to its    *)
(* limit on every width of usize (message.rs, packet.rs).                  *)
THEOREM PacketsAreKept == \A buf \in Seq(Nat) : RelayKeepsPackets(buf) /\ NamesAreBounded(buf)
BY PacketsReadBack, NamesKeepToTheLimit

(* The same as an invariant of the model. *)
THEOREM PacketsAlwaysOk == Spec => []PacketsOk
<1>1. input \in Seq(Symbols) => PacketsOk
  BY WiredIs, PacketsAreKept DEF PacketsOk
<1> QED
  BY <1>1, InputTyped, PTL

(* Message, InstantMessage and the header reader agree on every message,   *)
(* with all the bits of its flags.                                         *)
THEOREM FormsAlwaysOk == (\A buf \in Seq(Nat) : FormsAgree(buf)) /\ (Spec => []FormsOk)
<1>1. \A buf \in Seq(Nat) : FormsAgree(buf)
  BY MessageFormsAgree
<1>2. input \in Seq(Symbols) => FormsOk
  BY <1>1, WiredIs DEF FormsOk
<1>3. Spec => []FormsOk
  BY <1>2, InputTyped, PTL
<1> QED
  BY <1>1, <1>3

(* parse_server_time is exact wherever a SystemTime can be, and panics     *)
(* nowhere else; the threshold of a host list can be met (conn.rs:77).     *)
THEOREM RepliesAlwaysOk ==
  /\ \A res \in Seq(Nat) : TimeIsExact(res)
  /\ \A T : \A status, result : \A hosts \in Seq(T), min_conn \in Nat :
       ThresholdFits([status |-> status, result |-> result,
                      min_conn |-> min_conn, hosts |-> hosts])
  /\ Spec => []RepliesOk
<1>1. \A res \in Seq(Nat) : TimeIsExact(res)
  BY TimesAreExact
<1>2. ASSUME NEW T, NEW status, NEW result, NEW hosts \in Seq(T), NEW min_conn \in Nat
      PROVE  ThresholdFits([status |-> status, result |-> result,
                            min_conn |-> min_conn, hosts |-> hosts])
  <2> DEFINE reply == [status |-> status, result |-> result,
                       min_conn |-> min_conn, hosts |-> hosts]
  <2>1. reply.hosts \in Seq(T) /\ reply.min_conn \in Nat
    OBVIOUS
  <2> HIDE DEF reply
  <2>2. ThresholdFits(reply)
    BY <2>1, ThresholdsFit
  <2> QED
    BY <2>2 DEF reply
<1>3. ASSUME input \in Seq(Symbols)
      PROVE  RepliesOk
  <2> DEFINE n == Len(input)
             hosts == [i \in 1..(n - 2) |-> IF Wired[i + 2] = 0 THEN NoText ELSE "host"]
  <2>1. Wired \in Seq(Nat) /\ Len(Wired) = n /\ n \in Nat
    BY <1>3, WiredIs
  <2>2. (Len(Wired) < 2 \/ Wired[2] \in Nat)
    BY <2>1
  <2>3. hosts \in Seq({NoText, "host"})
    <3>1. CASE n - 2 \in Nat
      BY <3>1
    <3>2. CASE n - 2 \notin Nat
      <4>1. 1..(n - 2) = {} /\ 1..0 = {} /\ 0 \in Nat
        BY <2>1, <3>2
      <4> QED
        BY <4>1
    <3> QED
      BY <3>1, <3>2
  <2> HIDE DEF hosts, n
  <2>4. Reply.hosts = hosts /\ Reply.min_conn \in Nat
    BY <2>1, <2>2 DEF Reply, hosts
  <2>5. ThresholdFits(Reply)
    BY <2>3, <2>4, ThresholdsFit
  <2> QED
    BY <1>1, <2>1, <2>5 DEF RepliesOk
<1>4. Spec => []RepliesOk
  BY <1>3, InputTyped, PTL
<1> QED
  BY <1>1, <1>2, <1>4

(* The signature of a response covers the entries that came, whatever they *)
(* are, and both packets of a handshake are read back from their encoding  *)
(* (handshake.rs:198).                                                     *)
THEOREM HandshakesAlwaysOk ==
  /\ \A N, V, L : HasNames(N) /\ HasEmpty(V) =>
       \A entries \in Seq(EntriesOf(N, V, L)) : \A pkix, card :
         HandshakeIsExact(entries, pkix, card)
  /\ Spec => []HandshakeOk
<1> DEFINE N == {"rdy", "srv", "cid", "rnd", "grp", "id", "key", "sig",
                 "bool", "text", "bytes", "array", "null", "new"}
           V == {"", "s", "t", "x"}
           L == {"m", "text"}
           E == EntriesOf(N, V, L)
           list == <<"m", "text">>
           alphabet == <<Entry("rdy", "bool", TRUE), Entry("srv", "text", "s"),
                         Entry("srv", "bytes", "t"), Entry("grp", "array", list),
                         Entry("grp", "null", ""), Entry("new", "text", "x")>>
<1>1. \A M, W, K : HasNames(M) /\ HasEmpty(W) =>
        \A entries \in Seq(EntriesOf(M, W, K)) : \A pkix, card :
          HandshakeIsExact(entries, pkix, card)
  BY HandshakesAreExact
<1>2. HasNames(N) /\ HasEmpty(V)
  BY DEF HasNames, HasEmpty
<1>3. alphabet \in [1..6 -> E]
  <2>1. list \in Seq(L)
    OBVIOUS
  <2>2. /\ "s" \in V /\ "t" \in V /\ "x" \in V
        /\ "srv" \in N /\ "new" \in N /\ "text" \in N /\ "bytes" \in N
        /\ "text" # "bool" /\ "text" # "array" /\ "bytes" # "bool" /\ "bytes" # "array"
    OBVIOUS
  <2>3. \A v \in {""} : v \in V
    OBVIOUS
  <2> HIDE DEF N, V, L, list
  <2>4. Entry("rdy", "bool", TRUE) \in E /\ Entry("srv", "text", "s") \in E
    BY <1>2, <2>2, EntriesAre
  <2>5. Entry("grp", "array", list) \in E
    BY <1>2, <2>1, EntriesAre
  <2>6. Entry("grp", "null", "") \in E
    BY <1>2, <2>3, EntriesAre
  <2>7. Entry("srv", "bytes", "t") \in E
    BY <2>2, EntryIs, Zenon
  <2>8. Entry("new", "text", "x") \in E
    BY <2>2, EntryIs, Zenon
  <2> DEFINE a == Entry("rdy", "bool", TRUE)
             b == Entry("srv", "text", "s")
             c == Entry("srv", "bytes", "t")
             d == Entry("grp", "array", list)
             e == Entry("grp", "null", "")
             f == Entry("new", "text", "x")
  <2> HIDE DEF E
  <2>9. a \in E /\ b \in E /\ c \in E /\ d \in E /\ e \in E /\ f \in E
    BY <2>4, <2>5, <2>6, <2>7, <2>8
  <2> HIDE DEF a, b, c, d, e, f
  <2>10. <<a, b, c, d, e, f>> \in [1..6 -> E]
    BY <2>9
  <2> QED
    BY <2>10 DEF a, b, c, d, e, f
<1> HIDE DEF N, V, L, E
<1>4. ASSUME input \in Seq(Symbols)
      PROVE  HandshakeOk
  <2>1. Entries \in Seq(E)
    BY <1>3, <1>4, Alphabet DEF Entries, list
  <2>2. \A pkix, card : HandshakeIsExact(Entries, pkix, card)
    BY <1>1, <1>2, <2>1 DEF E
  <2> QED
    BY <2>2 DEF HandshakeOk
<1>5. Spec => []HandshakeOk
  BY <1>4, InputTyped, PTL
<1> QED
  BY <1>1, <1>5
============================================================================
