-------------------------------- MODULE Folding --------------------------------
(***************************************************************************)
(* What a fold over a sequence computes, for any step.  FoldLeft of the    *)
(* community modules recurs over sets of positions; here are the values it *)
(* goes through, one per position, and with them induction over a          *)
(* sequence.  A module instantiates Step by the step of its own fold.      *)
(***************************************************************************)
EXTENDS Integers, Sequences

CONSTANT Step(_, _, _)   \* of a parameter, the value so far and an element

Greatest(S) == CHOOSE x \in S : \A y \in S : x >= y

\* FoldLeft(LAMBDA v, x : Step(p, v, x), base, s), written out.
Folded(p, base, s) ==
  (CHOOSE iter :
     iter = [t \in SUBSET DOMAIN s |->
               IF t = {} THEN base
               ELSE Step(p, iter[t \ {Greatest(t)}], s[Greatest(t)])])[DOMAIN s]

\* Induction over the natural numbers, for a set.  The lemmas take it as a
\* premise: whoever folds has it from WellFoundedInduction, whose theorems need
\* not come with every instance.
Induction ==
  \A S : 0 \in S /\ (\A n \in Nat : n \in S => n + 1 \in S) => Nat \subseteq S

\* g has the values of the fold, from the base on.
Goes(g, p, base, s, n) ==
  g[0] = base /\ \A k \in 1..n : g[k] = Step(p, g[k-1], s[k])

-----------------------------------------------------------------------------
(* A non-empty set of positions has a last one. *)
LEMMA GreatestIs ==
  ASSUME Induction, NEW n \in Nat, NEW t \in SUBSET (1..n), t # {}
  PROVE  Greatest(t) \in t /\ \A y \in t : Greatest(t) >= y
<1> DEFINE Last(u, x) == x \in u /\ \A y \in u : x >= y
<1>1. PICK S : S = {m \in Nat : \A u \in SUBSET (1..m) : u # {} => \E x : Last(u, x)}
  OBVIOUS
<1>2. 0 \in S
  <2>1. \A u \in SUBSET (1..0) : u = {}
    OBVIOUS
  <2>2. QED
    BY <1>1, <2>1
<1>3. ASSUME NEW m \in Nat, m \in S PROVE m + 1 \in S
  <2>1. ASSUME NEW u \in SUBSET (1..(m+1)), u # {} PROVE \E x : Last(u, x)
    <3>1. CASE m + 1 \in u
      BY <3>1
    <3>2. CASE m + 1 \notin u
      <4>1. u \in SUBSET (1..m)
        BY <3>2
      <4>2. QED
        BY <1>1, <1>3, <2>1, <4>1
    <3>3. QED
      BY <3>1, <3>2
  <2>2. QED
    BY <1>1, <2>1
<1>4. n \in S
  BY <1>2, <1>3 DEF Induction
<1>5. \E x : Last(t, x)
  BY <1>1, <1>4
<1>6. QED
  BY <1>5 DEF Greatest

-----------------------------------------------------------------------------
(* The recursion over sets of positions. *)

IsIter(f, p, base, s, n) ==
  f = [t \in SUBSET (1..n) |->
         IF t = {} THEN base ELSE Step(p, f[t \ {Greatest(t)}], s[Greatest(t)])]

LEMMA IterExists ==
  ASSUME Induction, NEW p, NEW base, NEW s, NEW n \in Nat
  PROVE  \E f : IsIter(f, p, base, s, n)
<1>1. PICK S : S = {m \in Nat : \E f : IsIter(f, p, base, s, m)}
  OBVIOUS
<1>2. 0 \in S
  <2>1. PICK f : f = [t \in SUBSET (1..0) |-> base]
    OBVIOUS
  <2>2. \A t \in SUBSET (1..0) : t = {}
    OBVIOUS
  <2>3. IsIter(f, p, base, s, 0)
    BY <2>1, <2>2 DEF IsIter
  <2>4. QED
    BY <1>1, <2>3
<1>3. ASSUME NEW m \in Nat, m \in S PROVE m + 1 \in S
  <2>1. PICK f : IsIter(f, p, base, s, m)
    BY <1>1, <1>3
  <2>2. PICK g : g = [t \in SUBSET (1..(m+1)) |->
                       IF m + 1 \in t THEN Step(p, f[t \ {m+1}], s[m+1]) ELSE f[t]]
    OBVIOUS
  <2>3. ASSUME NEW t \in SUBSET (1..(m+1))
        PROVE  g[t] = IF t = {} THEN base
                      ELSE Step(p, g[t \ {Greatest(t)}], s[Greatest(t)])
    <3>1. CASE m + 1 \in t
      <4>1. Greatest(t) = m + 1
        <5>1. m + 1 \in Nat /\ t # {}
          BY <3>1
        <5>2. Greatest(t) \in t /\ Greatest(t) >= m + 1
          BY <3>1, <5>1, GreatestIs
        <5>3. Greatest(t) \in 1..(m+1)
          BY <5>2
        <5>4. QED
          BY <5>2, <5>3
      <4>2. t \ {m+1} \in SUBSET (1..m)
        OBVIOUS
      <4>3. g[t \ {m+1}] = f[t \ {m+1}]
        BY <2>2, <4>2
      <4>4. QED
        BY <2>2, <3>1, <4>1, <4>3
    <3>2. CASE m + 1 \notin t
      <4>1. t \in SUBSET (1..m) /\ g[t] = f[t]
        BY <2>2, <3>2
      <4>2. CASE t = {}
        BY <2>1, <4>1, <4>2 DEF IsIter
      <4>3. CASE t # {}
        <5>1. t \ {Greatest(t)} \in SUBSET (1..m) /\ m + 1 \notin t \ {Greatest(t)}
          BY <4>1, <4>3, GreatestIs
        <5>2. g[t \ {Greatest(t)}] = f[t \ {Greatest(t)}]
          BY <2>2, <5>1
        <5>3. f[t] = Step(p, f[t \ {Greatest(t)}], s[Greatest(t)])
          BY <2>1, <4>1, <4>3 DEF IsIter
        <5>4. QED
          BY <4>1, <4>3, <5>2, <5>3
      <4>4. QED
        BY <4>2, <4>3
    <3>3. QED
      BY <3>1, <3>2
  <2>4. IsIter(g, p, base, s, m + 1)
    BY <2>2, <2>3 DEF IsIter
  <2>5. QED
    BY <1>1, <2>4
<1>4. n \in S
  BY <1>2, <1>3 DEF Induction
<1>5. QED
  BY <1>1, <1>4

(* A function that goes through the values of the fold ends with the fold:   *)
(* of the sets of positions only the 1..k occur.                             *)
LEMMA FoldIs ==
  ASSUME Induction, NEW p, NEW base, NEW s, NEW n \in Nat, DOMAIN s = 1..n,
         NEW g, Goes(g, p, base, s, n)
  PROVE  Folded(p, base, s) = g[n]
<1> DEFINE Iterates(f, D) ==
      f = [t \in SUBSET D |->
             IF t = {} THEN base ELSE Step(p, f[t \ {Greatest(t)}], s[Greatest(t)])]
<1>1. PICK D : D = DOMAIN s
  OBVIOUS
<1>2. PICK f : f = CHOOSE h : Iterates(h, D)
  OBVIOUS
<1>3. Folded(p, base, s) = f[D]
  BY <1>1, <1>2 DEF Folded
<1>4. IsIter(f, p, base, s, n)
  <2>1. \E h : Iterates(h, D)
    <3>1. PICK h : IsIter(h, p, base, s, n)
      BY IterExists
    <3>2. Iterates(h, D)
      BY <1>1, <3>1 DEF IsIter
    <3>3. QED
      BY <3>2
  <2>2. Iterates(f, D)
    BY <1>2, <2>1
  <2>3. QED
    BY <1>1, <2>2 DEF IsIter
<1>5. PICK T : T = {k \in Nat : k <= n => f[1..k] = g[k]}
  OBVIOUS
<1>6. 0 \in T
  <2>1. 1..0 = {}
    OBVIOUS
  <2>2. {} \in SUBSET (1..n)
    OBVIOUS
  <2>3. f[{}] = base
    BY <1>4, <2>2 DEF IsIter
  <2>4. QED
    BY <1>5, <2>1, <2>3 DEF Goes
<1>7. ASSUME NEW k \in Nat, k \in T PROVE k + 1 \in T
  <2>1. CASE k + 1 <= n
    <3>1. PICK t : t = 1..(k+1)
      OBVIOUS
    <3>2. k + 1 \in t /\ t # {} /\ k + 1 \in Nat
      BY <3>1
    <3>3. t \in SUBSET (1..n) /\ t \in SUBSET (1..(k+1))
      <4>1. \A x \in t : x \in 1..n
        BY <2>1, <3>1
      <4>2. QED
        BY <3>1, <4>1
    <3>4. Greatest(t) = k + 1
      <4>1. Greatest(t) \in t /\ Greatest(t) >= k + 1
        BY <3>2, <3>3, GreatestIs
      <4>2. QED
        BY <3>1, <4>1
    <3>5. t \ {k+1} = 1..k
      BY <3>1
    <3>6. f[t] = Step(p, f[1..k], s[k+1])
      <4>1. f[t] = Step(p, f[t \ {Greatest(t)}], s[Greatest(t)])
        BY <1>4, <3>2, <3>3 DEF IsIter
      <4>2. t \ {Greatest(t)} = 1..k
        BY <3>4, <3>5
      <4>3. QED
        BY <3>4, <4>1, <4>2
    <3>7. f[1..k] = g[k]
      BY <1>5, <1>7, <2>1
    <3>8. g[k+1] = Step(p, g[k], s[k+1])
      <4>1. k + 1 \in 1..n /\ (k + 1) - 1 = k
        BY <2>1
      <4>2. g[k+1] = Step(p, g[(k + 1) - 1], s[k+1])
        BY <4>1 DEF Goes
      <4>3. QED
        BY <4>1, <4>2
    <3>9. QED
      BY <1>5, <3>1, <3>6, <3>7, <3>8
  <2>2. CASE ~(k + 1 <= n)
    BY <1>5, <2>2
  <2>3. QED
    BY <2>1, <2>2
<1>8. n \in T
  BY <1>6, <1>7 DEF Induction
<1>9. QED
  BY <1>1, <1>3, <1>5, <1>8

-----------------------------------------------------------------------------
(* The facts to use. *)

(* Every fold goes through some values. *)
LEMMA ValuesExist ==
  ASSUME Induction, NEW p, NEW base, NEW s, NEW n \in Nat
  PROVE  \E g : Goes(g, p, base, s, n)
<1>1. PICK S : S = {m \in Nat : \E g : Goes(g, p, base, s, m)}
  OBVIOUS
<1>2. 0 \in S
  <2>1. PICK g : g = [k \in {0} |-> base]
    OBVIOUS
  <2>2. Goes(g, p, base, s, 0)
    BY <2>1 DEF Goes
  <2>3. QED
    BY <1>1, <2>2
<1>3. ASSUME NEW m \in Nat, m \in S PROVE m + 1 \in S
  <2>1. PICK g : Goes(g, p, base, s, m)
    BY <1>1, <1>3
  <2>2. PICK h : h = [k \in 0..(m+1) |-> IF k = m + 1 THEN Step(p, g[m], s[m+1]) ELSE g[k]]
    OBVIOUS
  <2>3. Goes(h, p, base, s, m + 1)
    <3>1. h[0] = base
      BY <2>1, <2>2 DEF Goes
    <3>2. ASSUME NEW k \in 1..(m+1) PROVE h[k] = Step(p, h[k-1], s[k])
      BY <2>1, <2>2 DEF Goes
    <3>3. QED
      BY <3>1, <3>2 DEF Goes
  <2>4. QED
    BY <1>1, <2>3
<1>4. n \in S
  BY <1>2, <1>3 DEF Induction
<1>5. QED
  BY <1>1, <1>4

LEMMA FoldValues ==
  ASSUME Induction
  PROVE  \A p, base, S : \A s \in Seq(S) :
           \E g : Goes(g, p, base, s, Len(s)) /\ Folded(p, base, s) = g[Len(s)]
<1> SUFFICES ASSUME NEW p, NEW base, NEW S, NEW s \in Seq(S)
             PROVE  \E g : /\ Goes(g, p, base, s, Len(s))
                           /\ Folded(p, base, s) = g[Len(s)]
  OBVIOUS
<1>1. PICK n \in Nat : n = Len(s) /\ DOMAIN s = 1..n
  OBVIOUS
<1>2. PICK g : Goes(g, p, base, s, n)
  BY ValuesExist
<1>3. Folded(p, base, s) = g[n]
  BY <1>1, <1>2, FoldIs
<1>4. QED
  BY <1>1, <1>2, <1>3

LEMMA FoldEmpty ==
  ASSUME Induction
  PROVE  \A p, base : Folded(p, base, <<>>) = base
<1> SUFFICES ASSUME NEW p, NEW base PROVE Folded(p, base, <<>>) = base
  OBVIOUS
<1>1. PICK e : e = <<>>
  OBVIOUS
<1>2. e \in Seq({}) /\ Len(e) = 0
  BY <1>1
<1>3. PICK g : Goes(g, p, base, e, Len(e)) /\ Folded(p, base, e) = g[Len(e)]
  BY <1>2, FoldValues
<1>4. QED
  BY <1>1, <1>2, <1>3 DEF Goes

(* One more element is one more step. *)
LEMMA FoldAppend ==
  ASSUME Induction
  PROVE  \A p, base, S : \A s \in Seq(S), x \in S :
           Folded(p, base, Append(s, x)) = Step(p, Folded(p, base, s), x)
<1> SUFFICES ASSUME NEW p, NEW base, NEW S, NEW s \in Seq(S), NEW x \in S
             PROVE  Folded(p, base, Append(s, x)) = Step(p, Folded(p, base, s), x)
  OBVIOUS
<1>1. PICK n \in Nat : n = Len(s) /\ DOMAIN s = 1..n
  OBVIOUS
<1>2. PICK a : a = Append(s, x)
  OBVIOUS
<1>3. /\ a \in Seq(S) /\ Len(a) = n + 1 /\ DOMAIN a = 1..(n+1) /\ a[n+1] = x
      /\ \A k \in 1..n : a[k] = s[k]
  BY <1>1, <1>2
<1>4. PICK g : Goes(g, p, base, a, Len(a)) /\ Folded(p, base, a) = g[Len(a)]
  BY <1>3, FoldValues
<1>5. Goes(g, p, base, s, n)
  BY <1>3, <1>4 DEF Goes
<1>6. Folded(p, base, s) = g[n]
  BY <1>1, <1>5, FoldIs
<1>7. g[n+1] = Step(p, g[n], x)
  <2>1. n + 1 \in 1..(n + 1) /\ (n + 1) - 1 = n
    OBVIOUS
  <2>2. g[n+1] = Step(p, g[(n + 1) - 1], a[n+1])
    BY <1>3, <1>4, <2>1 DEF Goes
  <2>3. QED
    BY <1>3, <2>1, <2>2
<1>8. QED
  BY <1>2, <1>3, <1>4, <1>6, <1>7
=============================================================================
