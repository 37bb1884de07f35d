---------------------------- MODULE FoldInduction ----------------------------
(***************************************************************************)
(* What FoldLeft does to a sequence, one element at a time.  The handlers  *)
(* of a page that go through a list are folds; a module that proves        *)
(* something of one takes this module with its operator for Op and with    *)
(* what the handler keeps for Good: Good(c, i, x) says of the result x     *)
(* after i elements what is to be shown.  c is what stays the same while   *)
(* the list is gone through.                                               *)
(***************************************************************************)
EXTENDS Integers, Sequences
LOCAL INSTANCE WellFoundedInduction

CONSTANTS Op(_, _, _), Good(_, _, _)

(* FoldLeft of the community modules, written out for Op: this module is    *)
(* taken once for every handler, and takes no library with it.              *)
Latest(s) == CHOOSE x \in s : \A y \in s : x >= y
Fold(c, base, seq) ==
  LET iter[s \in SUBSET DOMAIN seq] ==
        IF s = {} THEN base ELSE Op(c, iter[s \ {Latest(s)}], seq[Latest(s)])
  IN  iter[DOMAIN seq]

(* The largest number of a set of numbers up to n. *)
LEMMA LatestIs ==
  ASSUME NEW s, NEW m \in s, \A k \in s : k \in Int /\ k <= m
  PROVE  Latest(s) = m
<1>1. m \in Int /\ \A k \in s : m >= k
  OBVIOUS
<1>2. \A x \in s : (\A y \in s : x >= y) => x = m
  BY <1>1
<1>3. QED
  BY <1>1, <1>2 DEF Latest

(* A set of naturals that is not empty has a least member. *)
LEMMA Least ==
  ASSUME NEW T, T \subseteq Nat, T # {}
  PROVE  \E m \in T : \A k \in T : m <= k
<1>1. PICK m \in T : \A k \in T : ~(<<k, m>> \in OpToRel(<, Nat))
  BY NatLessThanWellFounded, WFMin
<1>2. \A k \in T : ~(k < m)
  BY <1>1 DEF OpToRel
<1>3. QED
  BY <1>2

(* One step of the function that FoldLeft defines on sets of positions. *)
Body(c, g, s, base, seq) ==
  IF s = {} THEN base ELSE Op(c, g[s \ {Latest(s)}], seq[Latest(s)])

FoldsUpTo(c, g, k, base, seq) == g = [s \in SUBSET (1 .. k) |-> Body(c, g, s, base, seq)]

(* The function for k positions extends to k + 1. *)
LEMMA FoldsExtend ==
  ASSUME NEW c, NEW base, NEW seq, NEW k \in Nat, NEW g, FoldsUpTo(c, g, k, base, seq)
  PROVE  \E h : FoldsUpTo(c, h, k + 1, base, seq)
<1> DEFINE h == [s \in SUBSET (1 .. k + 1) |->
                   IF k + 1 \in s THEN Op(c, g[s \ {k + 1}], seq[k + 1]) ELSE g[s]]
<1>1. \A s \in SUBSET (1 .. k) : g[s] = Body(c, g, s, base, seq)
  BY DEF FoldsUpTo
<1>2. ASSUME NEW s \in SUBSET (1 .. k + 1)
      PROVE  h[s] = Body(c, h, s, base, seq)
  <2>1. \A t \in SUBSET (1 .. k + 1) : k + 1 \notin t => h[t] = g[t]
    OBVIOUS
  <2>2. CASE k + 1 \in s
    <3>1. Latest(s) = k + 1
      <4>1. \A j \in s : j \in Int /\ j <= k + 1
        OBVIOUS
      <4>2. QED
        BY <2>2, <4>1, LatestIs
    <3>2. s \ {k + 1} \in SUBSET (1 .. k + 1) /\ k + 1 \notin s \ {k + 1}
      OBVIOUS
    <3>3. h[s \ {k + 1}] = g[s \ {k + 1}]
      BY <2>1, <3>2
    <3>4. h[s] = Op(c, g[s \ {k + 1}], seq[k + 1])
      BY <2>2
    <3> HIDE DEF h
    <3>5. QED
      BY <2>2, <3>1, <3>3, <3>4 DEF Body
  <2>3. CASE k + 1 \notin s
    <3>1. s \in SUBSET (1 .. k)
      BY <2>3
    <3>2. h[s] = Body(c, g, s, base, seq)
      BY <1>1, <2>1, <2>3, <3>1
    <3>3. PICK t : t = s \ {Latest(s)}
      OBVIOUS
    <3>4. t \in SUBSET (1 .. k + 1) /\ k + 1 \notin t
      BY <2>3, <3>3
    <3>5. h[t] = g[t]
      BY <2>1, <3>4
    <3> HIDE DEF h
    <3>6. QED
      BY <3>2, <3>3, <3>5 DEF Body
  <2>4. QED
    BY <2>2, <2>3
<1>3. h = [s \in SUBSET (1 .. k + 1) |-> h[s]]
  OBVIOUS
<1> HIDE DEF h
<1>4. FoldsUpTo(c, h, k + 1, base, seq)
  BY <1>2, <1>3 DEF FoldsUpTo
<1>5. QED
  BY <1>4

(* So there is one for every number of positions. *)
LEMMA FoldsExist ==
  ASSUME NEW c, NEW base, NEW seq, NEW n \in Nat
  PROVE  \E g : FoldsUpTo(c, g, n, base, seq)
<1> SUFFICES ASSUME ~\E g : FoldsUpTo(c, g, n, base, seq)
             PROVE  FALSE
  OBVIOUS
<1>1. PICK T : T = {k \in Nat : ~\E g : FoldsUpTo(c, g, k, base, seq)}
  OBVIOUS
<1>2. PICK m \in T : \A k \in T : m <= k
  <2>1. T \subseteq Nat /\ T # {}
    BY <1>1
  <2>2. QED
    BY <2>1, Least
<1>3. CASE m = 0
  <2>1. PICK g : g = [s \in SUBSET (1 .. 0) |-> base]
    OBVIOUS
  <2>2. \A s \in SUBSET (1 .. 0) : Body(c, g, s, base, seq) = base
    BY DEF Body
  <2>3. FoldsUpTo(c, g, 0, base, seq)
    BY <2>1, <2>2 DEF FoldsUpTo
  <2>4. QED
    BY <1>1, <1>3, <2>3
<1>4. CASE m # 0
  <2>1. m \in Nat /\ m - 1 \in Nat /\ m - 1 \notin T /\ (m - 1) + 1 = m
    BY <1>1, <1>2, <1>4
  <2>2. PICK g : FoldsUpTo(c, g, m - 1, base, seq)
    BY <1>1, <2>1
  <2>3. \E h : FoldsUpTo(c, h, (m - 1) + 1, base, seq)
    BY <2>1, <2>2, FoldsExtend
  <2>4. QED
    BY <1>1, <2>1, <2>3
<1>5. QED
  BY <1>3, <1>4

LEMMA FoldIs ==
  ASSUME NEW c, NEW base, NEW seq, NEW n \in Nat, DOMAIN seq = 1 .. n
  PROVE  \E g : FoldsUpTo(c, g, n, base, seq) /\ Fold(c, base, seq) = g[1 .. n]
<1>1. Fold(c, base, seq)
        = (CHOOSE g : g = [s \in SUBSET DOMAIN seq |->
                             IF s = {} THEN base ELSE Op(c, g[s \ {Latest(s)}], seq[Latest(s)])])[DOMAIN seq]
  BY DEF Fold
<1>2. PICK g : /\ g = CHOOSE h : h = [s \in SUBSET DOMAIN seq |->
                             IF s = {} THEN base ELSE Op(c, h[s \ {Latest(s)}], seq[Latest(s)])]
               /\ Fold(c, base, seq) = g[1 .. n]
  BY <1>1
<1>3. \E h : h = [s \in SUBSET DOMAIN seq |->
                             IF s = {} THEN base ELSE Op(c, h[s \ {Latest(s)}], seq[Latest(s)])]
  <2>1. PICK h : FoldsUpTo(c, h, n, base, seq)
    BY FoldsExist
  <2>2. QED
    BY <2>1 DEF FoldsUpTo, Body
<1>4. g = [s \in SUBSET DOMAIN seq |->
             IF s = {} THEN base ELSE Op(c, g[s \ {Latest(s)}], seq[Latest(s)])]
  BY <1>2, <1>3
<1>5. FoldsUpTo(c, g, n, base, seq)
  BY <1>4 DEF FoldsUpTo, Body
<1>6. QED
  BY <1>2, <1>5

(* The results x[0], x[1], ... after each element of the sequence. *)
Trace(c, base, seq, n, x) ==
  x[0] = base /\ \A i \in 1 .. n : x[i] = Op(c, x[i - 1], seq[i])

(* The fold is the last of its intermediate results. *)
THEOREM FoldTrace ==
  ASSUME NEW c, NEW base, NEW seq, NEW n \in Nat, DOMAIN seq = 1 .. n
  PROVE  \E x : Trace(c, base, seq, n, x) /\ Fold(c, base, seq) = x[n]
<1>1. PICK g : FoldsUpTo(c, g, n, base, seq) /\ Fold(c, base, seq) = g[1 .. n]
  BY FoldIs
<1>2. \A s \in SUBSET (1 .. n) : g[s] = Body(c, g, s, base, seq)
  BY <1>1 DEF FoldsUpTo
<1>3. g[1 .. 0] = base
  <2>1. 1 .. 0 = {} /\ 1 .. 0 \in SUBSET (1 .. n)
    OBVIOUS
  <2>2. QED
    BY <1>2, <2>1 DEF Body
<1>4. ASSUME NEW k \in 1 .. n PROVE g[1 .. k] = Op(c, g[1 .. k - 1], seq[k])
  <2>1. PICK s \in SUBSET (1 .. n) : s = 1 .. k
    OBVIOUS
  <2>2. k \in s /\ s # {} /\ s \ {k} = 1 .. k - 1
    BY <2>1
  <2>3. Latest(s) = k
    <3>1. \A j \in s : j \in Int /\ j <= k
      BY <2>1
    <3>2. QED
      BY <2>2, <3>1, LatestIs
  <2>4. QED
    BY <1>2, <2>1, <2>2, <2>3 DEF Body
<1>5. PICK x : x = [i \in 0 .. n |-> g[1 .. i]]
  OBVIOUS
<1>6. \A i \in 0 .. n : x[i] = g[1 .. i]
  BY <1>5
<1>7. x[0] = base /\ x[n] = g[1 .. n]
  <2>1. 0 \in 0 .. n /\ n \in 0 .. n
    OBVIOUS
  <2>2. QED
    BY <1>3, <1>6, <2>1
<1>8. ASSUME NEW i \in 1 .. n PROVE x[i] = Op(c, x[i - 1], seq[i])
  <2>1. i \in 0 .. n /\ i - 1 \in 0 .. n
    OBVIOUS
  <2>2. QED
    BY <1>4, <1>6, <2>1
<1>9. QED
  BY <1>1, <1>7, <1>8 DEF Trace

(* A sequence has one trace. *)
LEMMA OneTrace ==
  ASSUME NEW c, NEW base, NEW seq, NEW n \in Nat, NEW x, NEW y,
         Trace(c, base, seq, n, x), Trace(c, base, seq, n, y)
  PROVE  x[n] = y[n]
<1> SUFFICES ASSUME x[n] # y[n] PROVE FALSE
  OBVIOUS
<1>1. PICK T : T = {k \in 0 .. n : x[k] # y[k]}
  OBVIOUS
<1>2. PICK m \in T : \A k \in T : m <= k
  <2>1. T \subseteq Nat /\ T # {}
    BY <1>1
  <2>2. QED
    BY <2>1, Least
<1>3. m # 0
  BY <1>1 DEF Trace
<1>4. m \in 1 .. n /\ m - 1 \in 0 .. n /\ m - 1 \notin T
  BY <1>1, <1>2, <1>3
<1>5. x[m - 1] = y[m - 1]
  BY <1>1, <1>4
<1>6. QED
  BY <1>1, <1>2, <1>4, <1>5 DEF Trace

(* Whatever goes through the sequence element by element ends with the fold. *)
THEOREM FoldOf ==
  ASSUME NEW c, NEW base, NEW seq, NEW n \in Nat, DOMAIN seq = 1 .. n,
         NEW x, Trace(c, base, seq, n, x)
  PROVE  Fold(c, base, seq) = x[n]
<1>1. PICK y : Trace(c, base, seq, n, y) /\ Fold(c, base, seq) = y[n]
  BY FoldTrace
<1>2. QED
  BY <1>1, OneTrace

(* One more element at the end is taken last. *)
THEOREM FoldAppend ==
  ASSUME NEW c, NEW base, NEW D, NEW seq \in Seq(D), NEW e \in D
  PROVE  Fold(c, base, Append(seq, e)) = Op(c, Fold(c, base, seq), e)
<1>1. PICK n \in Nat : n = Len(seq)
  OBVIOUS
<1>2. PICK z : z = Append(seq, e)
  OBVIOUS
<1>3. DOMAIN seq = 1 .. n /\ DOMAIN z = 1 .. n + 1 /\ z[n + 1] = e
  BY <1>1, <1>2
<1>4. \A i \in 1 .. n : z[i] = seq[i]
  BY <1>1, <1>2
<1>5. PICK y : Trace(c, base, z, n + 1, y) /\ Fold(c, base, z) = y[n + 1]
  BY <1>3, FoldTrace
<1>6. y[n + 1] = Op(c, y[n + 1 - 1], z[n + 1]) /\ n + 1 - 1 = n
  <2>1. n + 1 \in 1 .. n + 1 /\ n + 1 - 1 = n
    OBVIOUS
  <2>2. QED
    BY <1>5, <2>1 DEF Trace
<1>7. Trace(c, base, seq, n, y)
  <2>1. \A i \in 1 .. n : i \in 1 .. n + 1
    OBVIOUS
  <2>2. QED
    BY <1>4, <1>5, <2>1 DEF Trace
<1>8. Fold(c, base, seq) = y[n]
  BY <1>3, <1>7, FoldOf
<1>9. QED
  BY <1>2, <1>3, <1>5, <1>6, <1>8

(* What holds of the start and is passed on by every element holds of the  *)
(* result.                                                                 *)
THEOREM FoldKeeps ==
  ASSUME NEW c, NEW base, NEW seq, NEW n \in Nat, DOMAIN seq = 1 .. n,
         Good(c, 0, base),
         \A i \in 1 .. n : \A x : Good(c, i - 1, x) => Good(c, i, Op(c, x, seq[i]))
  PROVE  Good(c, n, Fold(c, base, seq))
<1>1. PICK x : Trace(c, base, seq, n, x) /\ Fold(c, base, seq) = x[n]
  BY FoldTrace
<1>2. x[0] = base /\ \A i \in 1 .. n : x[i] = Op(c, x[i - 1], seq[i])
  BY <1>1 DEF Trace
<1>3. SUFFICES ASSUME ~Good(c, n, x[n]) PROVE FALSE
  BY <1>1
<1>4. PICK T : T = {k \in 0 .. n : ~Good(c, k, x[k])}
  OBVIOUS
<1>5. PICK m \in T : \A k \in T : m <= k
  <2>1. T \subseteq Nat /\ T # {}
    BY <1>3, <1>4
  <2>2. QED
    BY <2>1, Least
<1>6. m # 0
  BY <1>2, <1>4
<1>7. m \in 1 .. n /\ m - 1 \in 0 .. n /\ m - 1 \notin T
  BY <1>4, <1>5, <1>6
<1>8. Good(c, m - 1, x[m - 1])
  BY <1>4, <1>7
<1>9. QED
  BY <1>2, <1>4, <1>7, <1>8
=============================================================================
