---------------------------- MODULE DocumentProofs ----------------------------
(***************************************************************************)
(* What the functions on documents do, whatever the document: the tree     *)
(* that toItems makes of an array of bullets, the effect of an operation   *)
(* of a batch on the tree of a tab and on the outline of the store, and    *)
(* what the operations that diffDocuments finds say.  The loops of the     *)
(* source are folds in the model, and each is followed through the values  *)
(* it goes through: Visited says what holds of the walk of toItems after   *)
(* some steps, Under what holds of the tree and the operations that        *)
(* diffDocuments has by then.                                              *)
(*                                                                         *)
(* And then of a save that nobody interferes with (DiffApplied): arrays    *)
(* that make the same tree do so after the same operation (Alike), the     *)
(* operations diffDocuments finds lead from its array to the tree, each in *)
(* its turn one the store accepts (Leads), and so the store ends with what *)
(* the browser sent.                                                       *)
(***************************************************************************)
EXTENDS DiffApplied, FiniteSets, FiniteSetTheorems, SequenceTheorems, TLAPS

VisitOn(doc, seen, n) == Visit(doc, seen)
Visiting == INSTANCE Folding WITH Step <- VisitOn

-----------------------------------------------------------------------------
(* Induction over the natural numbers, for a set that has 0 and with each    *)
(* number the next: the least number outside would have a predecessor inside.*)
LEMMA NatSetInduction ==
  ASSUME NEW S, 0 \in S, \A n \in Nat : n \in S => n + 1 \in S
  PROVE  Nat \subseteq S
<1>1. SUFFICES ASSUME NEW T, T = Nat \ S, T # {} PROVE FALSE
  OBVIOUS
<1>2. PICK R : R = {ss \in Nat \X Nat : ss[1] < ss[2]}
  OBVIOUS
<1>3. IsWellFoundedOn(R, Nat) /\ T \subseteq Nat
  BY <1>1, <1>2, NatLessThanWellFounded DEF OpToRel
<1>4. PICK x \in T : \A y \in T : ~(<<y, x>> \in R)
  BY <1>1, <1>3, WFMin
<1>5. PICK y : y = x - 1
  OBVIOUS
<1>6. x \in Nat /\ x # 0
  BY <1>1
<1>7. y \in Nat /\ y + 1 = x /\ y < x
  BY <1>5, <1>6
<1>8. <<y, x>> \in R
  BY <1>2, <1>6, <1>7
<1> QED BY <1>1, <1>4, <1>7, <1>8

-----------------------------------------------------------------------------
(* Positions *)

\* The least of some positions is one of them.
LEMMA MinIs ==
  ASSUME NEW S \in SUBSET Nat, S # {}
  PROVE  Min(S) \in S /\ \A y \in S : Min(S) <= y
<1>1. SUFFICES \E x \in S : \A y \in S : x <= y
  BY Zenon DEF Min
<1>2. SUFFICES ASSUME \A x \in S : \E y \in S : ~(x <= y) PROVE FALSE
  OBVIOUS
<1>3. PICK T : T = {m \in Nat : \A y \in S : m <= y}
  BY Zenon
<1>4. 0 \in T
  BY <1>3
<1>5. ASSUME NEW m \in Nat, m \in T PROVE m + 1 \in T
  BY <1>2, <1>3, <1>5
<1>6. Nat \subseteq T
  BY <1>4, <1>5, NatSetInduction
<1>7. PICK x : x \in S
  OBVIOUS
<1>8. x + 1 \in T /\ x \in Nat
  BY <1>6, <1>7
<1> QED BY <1>3, <1>7, <1>8

\* And so is the greatest.
LEMMA MaxIs ==
  ASSUME NEW n \in Nat, NEW S \in SUBSET (1..n), S # {}
  PROVE  Max(S) \in S /\ \A y \in S : Max(S) >= y
BY Zenon, Visiting!GreatestIs, NatSetInduction DEF Visiting!Induction, Max

\* What is in a longer sequence.
LEMMA ToSetAppend ==
  ASSUME NEW S, NEW s \in Seq(S), NEW x \in S
  PROVE  ToSet(Append(s, x)) = ToSet(s) \cup {x}
BY LenProperties, AppendProperties DEF ToSet

-----------------------------------------------------------------------------
(* The walk of toItems *)

\* Whether the node's children have all been visited, if there are any.
Closed(doc, seen) ==
  \A p \in {Root} \cup ToSet(seen) : Unvisited(doc, seen, p) = {}

\* The walk goes on to node c.
GoesTo(doc, seen, c) ==
  /\ c \in ToSet(doc.order) \ ToSet(seen)
  /\ doc.node[c].parent \in {Root} \cup ToSet(seen)
  /\ Visit(doc, seen) = Append(seen, c)

\* The nodes whose children the walk may go to, the latest last.
PathTo(seen) == <<Root>> \o seen

\* Its length and what is on it.
LEMMA PathIs ==
  ASSUME NEW S, NEW seen \in Seq(S)
  PROVE  /\ DOMAIN PathTo(seen) = 1..(Len(seen) + 1) /\ Len(seen) + 1 \in Nat
         /\ ToSet(PathTo(seen)) = {Root} \cup ToSet(seen)
<1>1. PICK n \in Nat : n = Len(seen) /\ DOMAIN seen = 1..n
  BY LenProperties
<1>2. PICK R : R = S \cup {Root}
  BY Zenon
<1>3. PICK r : r = <<Root>>
  BY Zenon
<1>4. r \in Seq(R) /\ Len(r) = 1 /\ r[1] = Root /\ seen \in Seq(R)
  BY <1>2, <1>3
<1>5. PICK path : path = r \o seen
  BY Zenon
<1>6. /\ path \in Seq(R) /\ Len(path) = n + 1
      /\ \A i \in 1..(n+1) : path[i] = IF i <= 1 THEN r[i] ELSE seen[i - 1]
  <2>1. /\ path \in Seq(R) /\ Len(path) = Len(r) + Len(seen)
        /\ \A i \in 1..(Len(r) + Len(seen)) :
             path[i] = IF i <= Len(r) THEN r[i] ELSE seen[i - Len(r)]
    BY <1>4, <1>5, ConcatProperties
  <2>2. Len(r) = 1 /\ Len(seen) = n /\ 1 + n = n + 1
    BY <1>1, <1>4
  <2> QED BY <2>1, <2>2
<1>7. DOMAIN path = 1..(n+1)
  BY <1>6, LenProperties
<1>8. path[1] = Root /\ \A i \in 1..n : path[i + 1] = seen[i]
  BY <1>4, <1>6
<1>9. \A j \in 1..(n+1) : j = 1 \/ \E i \in 1..n : j = i + 1
  OBVIOUS
<1>10. ToSet(path) = {Root} \cup ToSet(seen)
  <2>1. ASSUME NEW x \in ToSet(path) PROVE x \in {Root} \cup ToSet(seen)
    <3>1. PICK j \in 1..(n+1) : x = path[j]
      BY <1>7 DEF ToSet
    <3>2. ASSUME NEW i \in 1..n PROVE seen[i] \in ToSet(seen)
      BY <1>1 DEF ToSet
    <3> QED BY <1>8, <1>9, <3>1, <3>2
  <2>2. 1 \in DOMAIN path /\ \A i \in 1..n : i + 1 \in DOMAIN path
    BY <1>7
  <2>3. ASSUME NEW x \in {Root} \cup ToSet(seen) PROVE x \in ToSet(path)
    BY <1>1, <1>8, <2>2 DEF ToSet
  <2> QED BY <2>1, <2>3
<1> QED BY <1>1, <1>3, <1>5, <1>7, <1>10 DEF PathTo

\* Where the walk goes is the first child left of the latest node with one.
LastOpen(doc, seen) ==
  PathTo(seen)[Max({i \in DOMAIN PathTo(seen) : Unvisited(doc, seen, PathTo(seen)[i]) # {}})]

\* One step: nothing is left, or the walk goes on to a child of LastOpen.
LEMMA VisitIs ==
  ASSUME NEW S, NEW doc, doc.order \in Seq(S), NEW seen \in Seq(S)
  PROVE  \/ Closed(doc, seen) /\ Visit(doc, seen) = seen
         \/ /\ ~Closed(doc, seen)
            /\ LET p == LastOpen(doc, seen)
               IN  /\ p \in {Root} \cup ToSet(seen) /\ Unvisited(doc, seen, p) # {}
                   /\ GoesTo(doc, seen, doc.order[Min(Unvisited(doc, seen, p))])
<1>1. PICK path, open :
        /\ path = PathTo(seen)
        /\ open = {i \in DOMAIN path : Unvisited(doc, seen, path[i]) # {}}
  BY Zenon
<1>2. PICK n \in Nat : DOMAIN path = 1..n /\ ToSet(path) = {Root} \cup ToSet(seen)
  BY <1>1, PathIs
<1>3. Visit(doc, seen) = IF open = {} THEN seen
        ELSE Append(seen, doc.order[Min(Unvisited(doc, seen, path[Max(open)]))])
  BY <1>1 DEF Visit, PathTo
<1>4. CASE open = {}
  BY Zenon, <1>1, <1>4, <1>2, <1>3 DEF ToSet, Closed
<1>5. CASE open # {}
  <2>1. open \in SUBSET (1..n)
    BY <1>1, <1>2
  <2>2. Max(open) \in open
    BY Zenon, <1>5, <2>1, MaxIs
  <2>3. PICK p : p = path[Max(open)]
    OBVIOUS
  <2>4. p = LastOpen(doc, seen)
    BY <1>1, <2>3 DEF LastOpen
  <2>5. p \in ToSet(path) /\ Unvisited(doc, seen, p) # {}
    BY Zenon, <1>1, <2>2, <2>3 DEF ToSet
  <2>6. Unvisited(doc, seen, p) \in SUBSET Nat
    BY LenProperties DEF Unvisited
  <2>7. PICK k : k = Min(Unvisited(doc, seen, p))
    OBVIOUS
  <2>8. k \in Unvisited(doc, seen, p)
    BY <2>5, <2>6, <2>7, MinIs
  <2>9. /\ k \in DOMAIN doc.order /\ doc.node[doc.order[k]].parent = p
        /\ doc.order[k] \notin ToSet(seen)
    BY <2>8 DEF Unvisited
  <2>10. Visit(doc, seen) = Append(seen, doc.order[k])
    BY <1>3, <1>5, <2>3, <2>7
  <2>11. doc.order[k] \in ToSet(doc.order)
    BY <2>9 DEF ToSet
  <2>12. GoesTo(doc, seen, doc.order[k])
    BY <1>2, <2>5, <2>9, <2>10, <2>11 DEF GoesTo
  <2>13. ~Closed(doc, seen)
    BY <1>2, <2>5 DEF Closed
  <2> QED BY <1>2, <2>4, <2>5, <2>7, <2>12, <2>13
<1> QED BY <1>4, <1>5

-----------------------------------------------------------------------------
(* The steps of the walk *)

\* What is visited after each of n steps.
Walk(doc, g, n) == g[0] = <<>> /\ \A k \in 1..n : g[k] = Visit(doc, g[k-1])

\* No element twice.
Distinct(s) == \A i, j \in DOMAIN s : s[i] = s[j] => i = j

\* s is the beginning of z.
Begins(s, z) == Len(s) <= Len(z) /\ \A i \in 1..Len(s) : s[i] = z[i]

\* What is visited after k steps: k nodes, each once and after its parent, or
\* all there are.
Visited(doc, s, k) ==
  /\ s \in Seq(ToSet(doc.order)) /\ Distinct(s) /\ Len(s) <= k
  /\ \A i \in DOMAIN s : doc.node[s[i]].parent \in {Root} \cup ToSet(s)
  /\ Len(s) = k \/ Closed(doc, s)

\* A sequence over a set is one over its own elements.
LEMMA SeqOfItsElements ==
  ASSUME NEW S, NEW s \in Seq(S)
  PROVE  s \in Seq(ToSet(s))
BY LenProperties DEF ToSet

\* Visited is kept by a step, which only adds to what was visited.
LEMMA VisitedNext ==
  ASSUME NEW S, NEW doc, doc.order \in Seq(S), NEW k \in Nat, NEW s, Visited(doc, s, k)
  PROVE  /\ Visited(doc, Visit(doc, s), k + 1) /\ Begins(s, Visit(doc, s))
         /\ Closed(doc, s) => Visit(doc, s) = s
<1>1. PICK T : T = ToSet(doc.order)
  OBVIOUS
<1>2. doc.order \in Seq(T) /\ s \in Seq(T)
  BY <1>1, SeqOfItsElements DEF Visited
<1>3. PICK n \in Nat : n = Len(s) /\ DOMAIN s = 1..n
  BY <1>2, LenProperties
<1>4. CASE Closed(doc, s)
  <2>1. Visit(doc, s) = s
    BY <1>2, <1>4, VisitIs
  <2> QED BY <1>3, <1>4, <2>1 DEF Visited, Begins
<1>5. CASE ~Closed(doc, s)
  <2>1. PICK c : GoesTo(doc, s, c)
    BY <1>2, <1>5, VisitIs
  <2>2. PICK z : z = Append(s, c)
    BY Zenon
  <2>3. c \in T /\ c \notin ToSet(s) /\ doc.node[c].parent \in {Root} \cup ToSet(s)
    BY <1>1, <2>1 DEF GoesTo
  <2>4. /\ z \in Seq(T) /\ Len(z) = n + 1 /\ z[n+1] = c /\ DOMAIN z = 1..(n+1)
        /\ \A i \in 1..n : z[i] = s[i]
    BY <1>2, <1>3, <2>2, <2>3, AppendProperties, LenProperties
  <2>5. ToSet(z) = ToSet(s) \cup {c}
    BY <1>2, <2>2, <2>3, ToSetAppend
  <2>6. \A i \in 1..n : s[i] \in ToSet(s)
    BY <1>3 DEF ToSet
  <2>7. Distinct(z)
    <3>1. \A i \in 1..n : z[i] # c
      BY <2>3, <2>4, <2>6
    <3>2. \A i, j \in 1..n : s[i] = s[j] => i = j
      BY <1>3 DEF Visited, Distinct
    <3>3. \A i \in 1..(n+1) : i = n + 1 \/ i \in 1..n
      OBVIOUS
    <3> QED BY <2>4, <3>1, <3>2, <3>3 DEF Distinct
  <2>8. \A i \in DOMAIN z : doc.node[z[i]].parent \in {Root} \cup ToSet(z)
    BY <1>3, <2>3, <2>4, <2>5 DEF Visited
  <2>9. Len(s) = k
    BY <1>5 DEF Visited
  <2>10. Visit(doc, s) = z
    BY <2>1, <2>2 DEF GoesTo
  <2>11. Visited(doc, z, k + 1)
    BY <1>1, <1>3, <2>4, <2>7, <2>8, <2>9 DEF Visited
  <2>12. Begins(s, z)
    BY <1>3, <2>4 DEF Begins
  <2> QED BY <1>5, <2>10, <2>11, <2>12
<1> QED BY <1>4, <1>5

\* Where the walk starts.
LEMMA BeginsNothing ==
  ASSUME NEW doc
  PROVE  Visited(doc, <<>>, 0)
BY DEF Visited, Distinct

\* So it holds after every step, and the walk that has ended stays where it is.
LEMMA WalkIs ==
  ASSUME NEW S, NEW doc, doc.order \in Seq(S), NEW n \in Nat, NEW g, Walk(doc, g, n)
  PROVE  \A k \in 0..n :
           /\ Visited(doc, g[k], k)
           /\ \A j \in k..n : /\ Begins(g[k], g[j])
                              /\ Closed(doc, g[k]) => g[j] = g[k]
<1>1. PICK T : T = {k \in Nat : k <= n => Visited(doc, g[k], k)}
  BY Zenon
<1>2. 0 \in T
  BY <1>1, BeginsNothing DEF Walk
<1>3. ASSUME NEW k \in Nat, k \in T PROVE k + 1 \in T
  <2>1. CASE k + 1 <= n
    <3>1. k + 1 \in 1..n /\ (k + 1) - 1 = k
      BY <2>1
    <3>2. g[k+1] = Visit(doc, g[(k + 1) - 1])
      BY <3>1 DEF Walk
    <3>3. g[k+1] = Visit(doc, g[k])
      BY <3>1, <3>2
    <3>4. Visited(doc, g[k], k)
      BY <1>1, <1>3, <2>1
    <3>5. Visited(doc, g[k+1], k + 1)
      BY <3>3, <3>4, VisitedNext
    <3> QED BY <1>1, <3>5
  <2> QED BY <1>1, <2>1
<1>4. \A k \in 0..n : Visited(doc, g[k], k)
  <2>1. Nat \subseteq T
    BY Zenon, <1>2, <1>3, NatSetInduction
  <2> QED BY <1>1, <2>1
<1>5. ASSUME NEW k \in 0..n
      PROVE  \A j \in k..n : /\ Begins(g[k], g[j])
                             /\ Closed(doc, g[k]) => g[j] = g[k]
  <2>1. PICK U : U = {d \in Nat : k + d <= n =>
                        /\ Begins(g[k], g[k+d])
                        /\ Closed(doc, g[k]) => g[k+d] = g[k]}
    BY Zenon
  <2>2. 0 \in U
    BY <1>4, LenProperties, <2>1 DEF Visited, Begins
  <2>3. ASSUME NEW d \in Nat, d \in U PROVE d + 1 \in U
    <3>1. CASE k + d + 1 <= n
      <4>1. k + d + 1 \in 1..n /\ (k + d + 1) - 1 = k + d /\ k + d \in 0..n
        BY <3>1
      <4>2. g[k+d+1] = Visit(doc, g[(k + d + 1) - 1])
        BY <4>1 DEF Walk
      <4>3. PICK s, z : s = g[k+d] /\ z = g[k+d+1]
        OBVIOUS
      <4>4. z = Visit(doc, s)
        BY <4>1, <4>2, <4>3
      <4>5. Visited(doc, s, k + d) /\ k + d \in Nat
        BY <1>4, <4>1, <4>3
      <4>6. Begins(s, z) /\ (Closed(doc, s) => z = s)
        BY <4>4, <4>5, VisitedNext
      <4>7. Begins(g[k], s) /\ (Closed(doc, g[k]) => s = g[k])
        BY <2>1, <2>3, <4>1, <4>3
      <4>8. Visited(doc, g[k], k) /\ Len(g[k]) \in Nat /\ Len(s) \in Nat
        BY <1>4, <4>5, LenProperties DEF Visited
      <4>9. Begins(g[k], z)
        <5>1. Len(z) \in Nat
          BY <4>4, <4>5, VisitedNext, LenProperties DEF Visited
        <5> QED BY <4>6, <4>7, <4>8, <5>1 DEF Begins
      <4>10. k + (d + 1) = k + d + 1
        OBVIOUS
      <4> QED BY <2>1, <4>3, <4>6, <4>7, <4>9, <4>10
    <3> QED BY <2>1, <3>1
  <2>4. Nat \subseteq U
    BY <2>2, <2>3, NatSetInduction
  <2>5. ASSUME NEW j \in k..n
        PROVE  /\ Begins(g[k], g[j])
               /\ Closed(doc, g[k]) => g[j] = g[k]
    <3>1. j - k \in Nat /\ k + (j - k) = j /\ j <= n
      OBVIOUS
    <3>2. j - k \in U
      BY <2>4, <3>1
    <3> QED BY <2>1, <3>1, <3>2
  <2> QED BY <2>5
<1> QED BY <1>4, <1>5

-----------------------------------------------------------------------------
(* Where the walk ends *)

\* The values DepthFirst goes through.
LEMMA DepthFirstIs ==
  ASSUME NEW S, NEW doc, doc.order \in Seq(S)
  PROVE  \E g : /\ Walk(doc, g, Len(doc.order)) /\ Len(doc.order) \in Nat
                /\ DepthFirst(doc) = g[Len(doc.order)]
<1>1. DepthFirst(doc) = Visiting!Folded(doc, <<>>, doc.order)
  BY DEF DepthFirst, FoldLeft, MapThenFoldSet, Max, Visiting!Folded,
         Visiting!Greatest, VisitOn
<1>2. PICK order, n : order = doc.order /\ n = Len(order)
  OBVIOUS
<1>3. order \in Seq(S) /\ n \in Nat
  BY <1>2
<1>4. PICK g : /\ Visiting!Goes(g, doc, <<>>, order, Len(order))
               /\ Visiting!Folded(doc, <<>>, order) = g[Len(order)]
  BY <1>3, Visiting!FoldValues, NatSetInduction DEF Visiting!Induction
<1>5. Walk(doc, g, n)
  BY <1>2, <1>4 DEF Walk, Visiting!Goes, VisitOn
<1> QED BY <1>1, <1>2, <1>3, <1>4, <1>5

\* n nodes visited, each once, are all the nodes there are in an array of n.
LEMMA AllVisited ==
  ASSUME NEW S, NEW doc, doc.order \in Seq(S), NEW s, Visited(doc, s, Len(doc.order))
  PROVE  Closed(doc, s)
<1>1. PICK n, order : /\ n \in Nat /\ order = doc.order
                      /\ n = Len(order) /\ DOMAIN order = 1..n
  BY LenProperties
<1>2. PICK T : T = ToSet(order)
  OBVIOUS
<1>3. CASE Len(s) = n
  <2>1. s \in [1..n -> T]
    <3>1. s \in Seq(T)
      BY <1>1, <1>2 DEF Visited
    <3> QED BY <1>3, <3>1, LenProperties
  <2>2. \A i, j \in 1..n : s[i] = s[j] => i = j
    BY <2>1 DEF Visited, Distinct
  <2>3. s \in Injection(1..n, T)
    BY <2>1, <2>2 DEF Injection, IsInjective
  <2>4. order \in Surjection(1..n, T)
    <3>1. order \in [1..n -> T]
      <4>1. order \in Seq(T)
        BY <1>1, <1>2, SeqOfItsElements
      <4> QED BY <1>1, <4>1, LenProperties
    <3>2. \A x \in T : \E i \in 1..n : order[i] = x
      BY <1>1, <1>2 DEF ToSet
    <3> QED BY <3>1, <3>2 DEF Surjection
  <2>5. IsFiniteSet(1..n) /\ Cardinality(1..n) = n
    <3>1. 1 \in Int /\ n \in Int
      BY <1>1
    <3>2. IsFiniteSet(1..n) /\ Cardinality(1..n) = IF 1 > n THEN 0 ELSE n - 1 + 1
      BY <3>1, FS_Interval
    <3> QED BY <1>1, <3>2
  <2>6. IsFiniteSet(T) /\ Cardinality(T) <= n
    BY <2>4, <2>5, FS_Surjection
  <2>7. n <= Cardinality(T)
    BY <2>3, <2>5, <2>6, FS_Injection
  <2>8. Cardinality(T) \in Nat
    BY <2>6, FS_CardinalityType
  <2>9. s \in Surjection(1..n, T)
    BY <1>1, <2>5, <2>6, <2>7, <2>8, <2>3, FS_Injection
  <2>10. T \subseteq ToSet(s)
    BY <2>1, <2>9 DEF Surjection, ToSet
  <2>11. \A k \in DOMAIN doc.order : doc.order[k] \in ToSet(s)
    BY Zenon, <1>1, <1>2, <2>10 DEF ToSet
  <2> QED BY <2>11 DEF Closed, Unvisited
<1>4. CASE Len(s) # n
  BY <1>1, <1>4 DEF Visited
<1> QED BY <1>3, <1>4

\* The walk has visited s, and the children of all of it; it got there by g.
Walked(doc, g, s) ==
  /\ Visited(doc, s, Len(s)) /\ Closed(doc, s)
  /\ Walk(doc, g, Len(s))
  /\ \A k \in 0..Len(s) : /\ g[k] \in Seq(ToSet(doc.order)) /\ Len(g[k]) = k
                          /\ \A i \in 1..k : g[k][i] = s[i]
  /\ g[Len(s)] = s

\* DepthFirst has visited all there is to visit.
LEMMA DepthFirstEnds ==
  ASSUME NEW S, NEW doc, doc.order \in Seq(S)
  PROVE  \E g : Walked(doc, g, DepthFirst(doc))
<1>1. PICK n \in Nat : n = Len(doc.order)
  BY LenProperties
<1>2. PICK g : Walk(doc, g, n) /\ DepthFirst(doc) = g[n]
  BY <1>1, DepthFirstIs
<1>3. PICK s, m : s = DepthFirst(doc) /\ m = Len(s)
  OBVIOUS
<1>4. PICK T : T = ToSet(doc.order)
  OBVIOUS
<1>5. \A k \in 0..n : Visited(doc, g[k], k)
  BY <1>1, <1>2, WalkIs
<1>6. ASSUME NEW k \in 0..n
      PROVE  Begins(g[k], s) /\ (Closed(doc, g[k]) => s = g[k])
  <2>1. n \in k..n
    OBVIOUS
  <2> QED BY <1>1, <1>2, <1>3, <2>1, WalkIs
<1>7. Visited(doc, s, n)
  <2>1. n \in 0..n
    OBVIOUS
  <2> QED BY <1>2, <1>3, <1>5, <2>1
<1>8. m \in Nat /\ m <= n
  <2>1. s \in Seq(T) /\ Len(s) <= n
    BY <1>4, <1>7 DEF Visited
  <2> QED BY <1>3, <2>1, LenProperties
<1>9. Closed(doc, s)
  BY <1>1, <1>7, AllVisited
<1>10. ASSUME NEW k \in 0..m
       PROVE  /\ g[k] \in Seq(T) /\ Len(g[k]) = k
              /\ \A i \in 1..k : g[k][i] = s[i]
  <2>1. k \in 0..n
    BY <1>8
  <2>2. PICK z : z = g[k]
    OBVIOUS
  <2>3. Visited(doc, z, k) /\ Begins(z, s) /\ (Closed(doc, z) => s = z)
    BY <1>5, <1>6, <2>1, <2>2
  <2>4. z \in Seq(T) /\ Len(z) <= k /\ (Len(z) = k \/ Closed(doc, z))
    BY <1>4, <2>3 DEF Visited
  <2>5. Len(z) = k
    BY <1>3, <2>3, <2>4
  <2>6. \A i \in 1..k : z[i] = s[i]
    BY <2>3, <2>5 DEF Begins
  <2> QED BY <2>2, <2>4, <2>5, <2>6
<1>11. g[m] = s
  BY <1>4, <1>7, <1>8, <1>10, <1>3, SeqEqual DEF Visited
<1>12. Visited(doc, s, m)
  BY <1>3, <1>7 DEF Visited
<1>13. Walk(doc, g, m)
  BY <1>2, <1>8 DEF Walk
<1> QED BY <1>3, <1>4, <1>9, <1>10, <1>11, <1>12, <1>13 DEF Walked

\* What a tree is: the ids in the order of the walk, each with a parent that is
\* there.
IsTree(items) ==
  /\ items = [node |-> items.node, order |-> items.order]
  /\ items.node = [n \in ToSet(items.order) |->
       [parent |-> items.node[n].parent, val |-> items.node[n].val]]
  /\ items.order \in Seq(ToSet(items.order)) /\ Distinct(items.order)
  /\ \A n \in ToSet(items.order) :
       items.node[n].parent \in {Root} \cup ToSet(items.order)

\* toItems makes a tree, of nodes of the array, with the texts they had.
LEMMA ToItemsIs ==
  ASSUME NEW S, NEW doc, doc.order \in Seq(S)
  PROVE  LET items == ToItems(doc)
         IN  /\ IsTree(items) /\ items.order = DepthFirst(doc)
             /\ ToSet(items.order) \subseteq ToSet(doc.order)
             /\ \A n \in ToSet(items.order) :
                  /\ items.node[n].val = doc.node[n].val
                  /\ items.node[n].parent = doc.node[n].parent
<1>1. PICK s, items : s = DepthFirst(doc) /\ items = ToItems(doc)
  OBVIOUS
<1>2. /\ items.order = s /\ items = [node |-> items.node, order |-> items.order]
      /\ items.node = [n \in ToSet(s) |->
           [parent |-> doc.node[n].parent, val |-> doc.node[n].val]]
  BY <1>1 DEF ToItems
<1>3. PICK g : Walked(doc, g, s)
  BY <1>1, DepthFirstEnds
<1>4. /\ s \in Seq(ToSet(doc.order)) /\ Distinct(s)
      /\ \A i \in DOMAIN s : doc.node[s[i]].parent \in {Root} \cup ToSet(s)
  BY <1>3 DEF Walked, Visited
<1>5. ToSet(s) \subseteq ToSet(doc.order) /\ s \in Seq(ToSet(s))
  BY <1>4, LenProperties, SeqOfItsElements DEF ToSet
<1>6. \A n \in ToSet(s) : doc.node[n].parent \in {Root} \cup ToSet(s)
  BY <1>4 DEF ToSet
<1>7. \A n \in ToSet(s) : /\ items.node[n].val = doc.node[n].val
                          /\ items.node[n].parent = doc.node[n].parent
  BY <1>2
<1>8. items.node = [n \in ToSet(s) |->
        [parent |-> items.node[n].parent, val |-> items.node[n].val]]
  BY <1>2, <1>7
<1>9. IsTree(items)
  BY <1>2, <1>4, <1>5, <1>6, <1>7, <1>8 DEF IsTree
<1> QED BY <1>1, <1>2, <1>5, <1>7, <1>9

\* One visit of the walk over a tree that was made by a walk.
LEMMA VisitAgain ==
  ASSUME NEW S, NEW doc, doc.order \in Seq(S), NEW g, NEW s, Walked(doc, g, s),
         NEW it, it.order = s,
         \A n \in ToSet(s) : it.node[n].parent = doc.node[n].parent,
         NEW k \in Nat, k < Len(s)
  PROVE  Visit(it, g[k]) = g[k+1]
<1>1. PICK T : T = ToSet(doc.order)
  OBVIOUS
<1>2. PICK m \in Nat : m = Len(s) /\ DOMAIN s = 1..m /\ s \in Seq(T)
  <2>1. s \in Seq(T)
    BY <1>1 DEF Walked, Visited
  <2> QED BY <2>1, LenProperties
<1>3. k \in 0..m /\ k + 1 \in 0..m /\ k + 1 \in 1..m /\ (k + 1) - 1 = k
  BY <1>2
<1>4. PICK z, y : z = g[k] /\ y = g[k+1]
  OBVIOUS
<1>5. z \in Seq(T) /\ Len(z) = k /\ \A i \in 1..k : z[i] = s[i]
  BY <1>1, <1>2, <1>3, <1>4 DEF Walked
<1>6. y \in Seq(T) /\ Len(y) = k + 1 /\ \A i \in 1..(k+1) : y[i] = s[i]
  BY <1>1, <1>2, <1>3, <1>4 DEF Walked
<1>7. y = Visit(doc, z)
  BY <1>2, <1>3, <1>4 DEF Walked, Walk
<1>8. y # z
  BY <1>5, <1>6
<1>9. PICK p : p = LastOpen(doc, z)
  OBVIOUS
<1>10. PICK c : /\ p \in {Root} \cup ToSet(z)
                /\ c \in DOMAIN doc.order /\ doc.node[doc.order[c]].parent = p
                /\ doc.order[c] \notin ToSet(z) /\ y = Append(z, doc.order[c])
  <2>1. PICK R : R = Unvisited(doc, z, p)
    OBVIOUS
  <2>2. /\ p \in {Root} \cup ToSet(z) /\ R # {}
        /\ GoesTo(doc, z, doc.order[Min(R)])
    BY <1>7, <1>8, <1>1, SeqOfItsElements, <1>5, VisitIs, <1>9, <2>1
  <2>3. R \in SUBSET Nat
    BY LenProperties, <2>1 DEF Unvisited
  <2>4. Min(R) \in R
    BY <2>2, <2>3, MinIs
  <2> QED BY Zenon, <1>7, <2>1, <2>2, <2>4 DEF Unvisited, GoesTo
<1>11. s[k+1] = doc.order[c]
  BY <1>1, <1>10, <1>5, AppendProperties, <1>6 DEF ToSet
<1>12. ToSet(z) = {s[i] : i \in 1..k}
  <2>1. DOMAIN z = 1..k
    BY <1>5, LenProperties
  <2> QED BY <1>5, <2>1 DEF ToSet
<1>13. \A j \in 1..m : s[j] \in ToSet(z) <=> j \in 1..k
  <2>1. \A i, j \in 1..m : s[i] = s[j] => i = j
    BY <1>2 DEF Walked, Visited, Distinct
  <2>2. 1..k \subseteq 1..m
    BY <1>3
  <2> QED BY <1>12, <2>1, <2>2
<1>14. ToSet(s) = {s[j] : j \in 1..m}
  BY <1>2 DEF ToSet
<1>15. \A q : Unvisited(it, z, q) =
         {j \in 1..m : doc.node[s[j]].parent = q /\ s[j] \notin ToSet(z)}
  BY <1>2, <1>14 DEF Unvisited
<1>16. \A q \in {Root} \cup ToSet(z) : Unvisited(it, z, q) # {} <=> Unvisited(doc, z, q) # {}
  <2> SUFFICES ASSUME NEW q \in {Root} \cup ToSet(z)
               PROVE  Unvisited(it, z, q) # {} <=> Unvisited(doc, z, q) # {}
    OBVIOUS
  <2>1. ASSUME NEW j \in Unvisited(it, z, q) PROVE Unvisited(doc, z, q) # {}
    <3>1. j \in 1..m /\ doc.node[s[j]].parent = q /\ s[j] \notin ToSet(z)
      BY <1>15
    <3>2. s[j] \in T
      BY <1>2, <3>1, ElementOfSeq
    <3>3. PICK i \in DOMAIN doc.order : doc.order[i] = s[j]
      BY <1>1, <3>2 DEF ToSet
    <3> QED BY <3>1, <3>3 DEF Unvisited
  <2>2. ASSUME NEW i \in Unvisited(doc, z, q) PROVE Unvisited(it, z, q) # {}
    <3>1. /\ i \in DOMAIN doc.order /\ doc.node[doc.order[i]].parent = q
          /\ doc.order[i] \notin ToSet(z)
      BY DEF Unvisited
    <3>2. q \in {Root} \cup ToSet(s)
      BY <1>3, <1>12, <1>14
    <3>3. Unvisited(doc, s, q) = {}
      BY <3>2 DEF Walked, Closed
    <3>4. doc.order[i] \in ToSet(s)
      BY <3>1, <3>3 DEF Unvisited
    <3>5. PICK j \in 1..m : s[j] = doc.order[i]
      BY <1>14, <3>4
    <3> QED BY <1>15, <3>1, <3>5
  <2> QED BY <2>1, <2>2
<1>17. PICK path, open :
         /\ path = PathTo(z)
         /\ open = {i \in DOMAIN path : Unvisited(doc, z, path[i]) # {}}
  BY Zenon
<1>18. DOMAIN path = 1..(k + 1) /\ ToSet(path) = {Root} \cup ToSet(z)
  BY <1>5, <1>17, PathIs
<1>19. {i \in DOMAIN path : Unvisited(it, z, path[i]) # {}} = open
  BY Zenon, <1>18, <1>16, <1>17 DEF ToSet
<1>20. p = path[Max(open)]
  BY <1>9, <1>17 DEF LastOpen
<1>21. open # {}
  BY Zenon, <1>10, <1>17, <1>18 DEF Unvisited, ToSet
<1>22. Visit(it, z) = Append(z, s[Min(Unvisited(it, z, p))])
  BY Zenon, <1>17, <1>19, <1>20, <1>21 DEF Visit, PathTo
<1>23. Min(Unvisited(it, z, p)) = k + 1
  <2>1. PICK R : R = Unvisited(it, z, p)
    OBVIOUS
  <2>2. k + 1 \in R
    BY <1>3, <1>10, <1>11, <1>15, <2>1
  <2>3. \A j \in R : j \in 1..m /\ j \notin 1..k
    BY <1>13, <1>15, <2>1
  <2>4. \A j \in R : j >= k + 1
    BY <2>3
  <2>5. R \in SUBSET Nat
    BY <2>3
  <2>6. Min(R) \in R /\ Min(R) <= k + 1
    BY <2>2, <2>5, MinIs
  <2>7. Min(R) >= k + 1 /\ Min(R) \in Nat
    BY <2>4, <2>5, <2>6
  <2> QED BY <2>1, <2>6, <2>7
<1> QED BY <1>4, <1>10, <1>11, <1>22, <1>23

\* Walking over a tree visits it in its own order.
LEMMA ToItemsAgain ==
  ASSUME NEW S, NEW doc, doc.order \in Seq(S)
  PROVE  ToItems(ToItems(doc)) = ToItems(doc)
<1>1. PICK it, s : it = ToItems(doc) /\ s = DepthFirst(doc)
  OBVIOUS
<1>2. /\ IsTree(it) /\ it.order = s
      /\ \A n \in ToSet(s) : it.node[n].parent = doc.node[n].parent
  BY <1>1, ToItemsIs
<1>3. PICK g : Walked(doc, g, s)
  BY <1>1, DepthFirstEnds
<1>4. s \in Seq(ToSet(s))
  BY <1>2 DEF IsTree
<1>5. PICK m \in Nat : m = Len(s)
  BY <1>4, LenProperties
<1>6. PICK h : Walk(it, h, m) /\ DepthFirst(it) = h[m]
  BY Zenon, <1>2, <1>4, <1>5, DepthFirstIs
<1>7. PICK U : U = {k \in Nat : k <= m => h[k] = g[k]}
  BY Zenon
<1>8. 0 \in U
  BY <1>3, <1>6, <1>7 DEF Walk, Walked
<1>9. ASSUME NEW k \in Nat, k \in U PROVE k + 1 \in U
  <2>1. CASE k + 1 <= m
    <3>1. k + 1 \in 1..m /\ (k + 1) - 1 = k /\ k < m
      BY <2>1
    <3>2. h[k+1] = Visit(it, h[(k + 1) - 1])
      BY <1>6, <3>1 DEF Walk
    <3>3. h[k] = g[k]
      BY <1>7, <1>9, <3>1
    <3>4. Visit(it, g[k]) = g[k+1]
      BY <1>2, <1>3, <1>5, <3>1, VisitAgain
    <3> QED BY <1>7, <3>1, <3>2, <3>3, <3>4
  <2> QED BY <1>7, <2>1
<1>10. m \in U
  BY <1>8, <1>9, NatSetInduction
<1>11. DepthFirst(it) = s
  BY <1>3, <1>5, <1>6, <1>7, <1>10 DEF Walked
<1>12. ToItems(it) = it
  BY <1>2, <1>11 DEF ToItems, IsTree
<1> QED BY <1>1, <1>12

-----------------------------------------------------------------------------
(* Arrays *)

\* The filter as a fold.
KeepOn(ids, kept, n) == IF n \in ids THEN kept ELSE Append(kept, n)
Keeping == INSTANCE Folding WITH Step <- KeepOn

\* What a filter keeps.
LEMMA RestIs ==
  ASSUME NEW K, NEW s \in Seq(K), NEW ids
  PROVE  Rest(s, ids) \in Seq(K) /\ ToSet(Rest(s, ids)) = ToSet(s) \ ids
<1>1. Rest(s, ids) = Keeping!Folded(ids, <<>>, s)
  BY DEF Rest, FoldLeft, MapThenFoldSet, Max, Keeping!Folded, Keeping!Greatest, KeepOn
<1>2. PICK n \in Nat : n = Len(s) /\ DOMAIN s = 1..n
  BY LenProperties
<1>3. PICK g : Keeping!Goes(g, ids, <<>>, s, n) /\ Keeping!Folded(ids, <<>>, s) = g[n]
  BY <1>2, Keeping!FoldValues, NatSetInduction DEF Keeping!Induction
<1>4. PICK U : U = {k \in Nat : k <= n => /\ g[k] \in Seq(K)
                                          /\ ToSet(g[k]) = {s[i] : i \in 1..k} \ ids}
  BY Zenon
<1>5. 0 \in U
  <2>1. PICK e : e = <<>>
    OBVIOUS
  <2>2. e \in Seq(K) /\ ToSet(e) = {}
    BY <2>1 DEF ToSet
  <2>3. g[0] = e /\ {s[i] : i \in 1..0} = {}
    BY <1>3, <2>1 DEF Keeping!Goes
  <2> QED BY <1>4, <2>2, <2>3
<1>6. ASSUME NEW k \in Nat, k \in U PROVE k + 1 \in U
  <2>1. CASE k + 1 <= n
    <3>1. k + 1 \in 1..n /\ (k + 1) - 1 = k
      BY <2>1
    <3>2. PICK z, y, x : z = g[k] /\ y = g[k+1] /\ x = s[k+1]
      OBVIOUS
    <3>3. g[k+1] = KeepOn(ids, g[(k + 1) - 1], s[k+1])
      BY <1>3, <3>1 DEF Keeping!Goes
    <3>4. y = IF x \in ids THEN z ELSE Append(z, x)
      BY <3>1, <3>2, <3>3 DEF KeepOn
    <3>5. z \in Seq(K) /\ ToSet(z) = {s[i] : i \in 1..k} \ ids
      BY <1>4, <1>6, <2>1, <3>2
    <3>6. x \in K
      BY <1>2, <3>1, <3>2
    <3>7. {s[i] : i \in 1..(k+1)} = {s[i] : i \in 1..k} \cup {x}
      BY <3>2
    <3>8. CASE x \in ids
      BY <3>4, <3>5, <3>7, <3>8, <1>4, <3>2
    <3>9. CASE x \notin ids
      <4>1. y = Append(z, x)
        BY <3>4, <3>9
      <4>2. y \in Seq(K) /\ ToSet(y) = ToSet(z) \cup {x}
        BY <3>5, <3>6, <4>1, AppendProperties, ToSetAppend
      <4>3. ToSet(y) = {s[i] : i \in 1..(k+1)} \ ids
        BY <3>5, <3>7, <3>9, <4>2
      <4> QED BY <1>4, <3>2, <4>2, <4>3
    <3> QED BY <3>8, <3>9
  <2> QED BY <1>4, <2>1
<1>7. n \in U
  BY <1>5, <1>6, NatSetInduction
<1>8. ToSet(s) = {s[i] : i \in 1..n}
  BY <1>2 DEF ToSet
<1>9. g[n] \in Seq(K) /\ ToSet(g[n]) = ToSet(s) \ ids
  BY <1>4, <1>7, <1>8
<1> QED BY <1>1, <1>3, <1>9

\* What is in two sequences put together.
LEMMA ToSetConcat ==
  ASSUME NEW K, NEW s \in Seq(K), NEW z \in Seq(K)
  PROVE  s \o z \in Seq(K) /\ ToSet(s \o z) = ToSet(s) \cup ToSet(z)
<1>1. PICK a, b, c : a = Len(s) /\ b = Len(z) /\ c = s \o z
  BY Zenon
<1>2. a \in Nat /\ b \in Nat /\ DOMAIN s = 1..a /\ DOMAIN z = 1..b
  BY <1>1, LenProperties
<1>3. /\ c \in Seq(K) /\ Len(c) = a + b
      /\ \A i \in 1..(a+b) : c[i] = IF i <= a THEN s[i] ELSE z[i - a]
  BY <1>1, ConcatProperties
<1>4. DOMAIN c = 1..(a+b)
  BY <1>3, LenProperties
<1>5. \A i \in 1..a : i \in 1..(a+b) /\ c[i] = s[i]
  BY <1>2, <1>3
<1>6. \A i \in 1..b : a + i \in 1..(a+b) /\ c[a+i] = z[i]
  BY <1>2, <1>3
<1>7. \A j \in 1..(a+b) : j \in 1..a \/ \E i \in 1..b : j = a + i
  BY <1>2
<1>8. ToSet(c) = ToSet(s) \cup ToSet(z)
  <2>1. /\ ToSet(c) = {c[i] : i \in 1..(a+b)}
        /\ ToSet(s) = {s[i] : i \in 1..a} /\ ToSet(z) = {z[i] : i \in 1..b}
    BY <1>2, <1>4 DEF ToSet
  <2>2. ASSUME NEW y \in ToSet(c) PROVE y \in ToSet(s) \cup ToSet(z)
    BY <2>1, <1>5, <1>6, <1>7
  <2>3. ASSUME NEW y \in ToSet(s) \cup ToSet(z) PROVE y \in ToSet(c)
    BY <1>5, <1>6, <2>1
  <2> QED BY <2>2, <2>3
<1> QED BY <1>1, <1>3, <1>8

\* And in one with an element put in.
LEMMA InsertAtIs ==
  ASSUME NEW K, NEW s \in Seq(K), NEW e \in K, NEW i \in 1..(Len(s) + 1)
  PROVE  /\ InsertAt(s, i, e) \in Seq(K)
         /\ ToSet(InsertAt(s, i, e)) = ToSet(s) \cup {e}
<1>1. PICK n \in Nat : n = Len(s) /\ DOMAIN s = 1..n
  BY LenProperties
<1>2. PICK a, b, x : a = SubSeq(s, 1, i - 1) /\ b = SubSeq(s, i, n) /\ x = <<e>>
  BY Zenon
<1>3. i \in Nat /\ i >= 1 /\ i <= n + 1 /\ i - 1 \in Nat
  BY <1>1
<1>4. /\ a \in Seq(K) /\ Len(a) = i - 1 /\ \A j \in 1..(i-1) : a[j] = s[j]
  BY <1>1, <1>3, <1>2, SubSeqProperties
<1>5. /\ b \in Seq(K) /\ Len(b) = n + 1 - i /\ \A j \in 1..(n + 1 - i) : b[j] = s[i + j - 1]
  BY <1>1, <1>3, <1>2, SubSeqProperties
<1>6. x \in Seq(K) /\ ToSet(x) = {e}
  BY <1>2 DEF ToSet
<1>7. DOMAIN a = 1..(i-1) /\ DOMAIN b = 1..(n + 1 - i)
  BY <1>4, <1>5, LenProperties
<1>8. ToSet(a) \cup ToSet(b) = ToSet(s)
  <2>1. ToSet(a) = {s[j] : j \in 1..(i-1)}
    BY Zenon, <1>4, <1>7 DEF ToSet
  <2>2. ToSet(b) = {s[i + j - 1] : j \in 1..(n + 1 - i)}
    BY Zenon, <1>5, <1>7 DEF ToSet
  <2>3. \A j \in 1..n : j \in 1..(i-1) \/ \E l \in 1..(n + 1 - i) : j = i + l - 1
    BY <1>3
  <2>4. /\ \A j \in 1..(i-1) : j \in 1..n
        /\ \A l \in 1..(n + 1 - i) : i + l - 1 \in 1..n
    BY <1>3
  <2>5. ToSet(s) = {s[j] : j \in 1..n}
    BY <1>1 DEF ToSet
  <2>6. ASSUME NEW y \in ToSet(s) PROVE y \in ToSet(a) \cup ToSet(b)
    <3>1. PICK j \in 1..n : y = s[j]
      BY <2>5
    <3> QED BY Zenon, <2>1, <2>2, <2>3, <3>1
  <2>7. ASSUME NEW y \in ToSet(a) \cup ToSet(b) PROVE y \in ToSet(s)
    BY <2>1, <2>2, <2>4, <2>5
  <2> QED BY <2>6, <2>7
<1>9. PICK c : c = a \o x
  BY Zenon
<1>10. c \in Seq(K) /\ ToSet(c) = ToSet(a) \cup {e}
  BY <1>4, <1>6, <1>9, ToSetConcat
<1>11. c \o b \in Seq(K) /\ ToSet(c \o b) = ToSet(c) \cup ToSet(b)
  BY <1>5, <1>10, ToSetConcat
<1>12. InsertAt(s, i, e) = c \o b
  BY <1>1, <1>2, <1>9 DEF InsertAt
<1> QED BY <1>8, <1>10, <1>11, <1>12

\* indexOf answers a position, or none.
LEMMA PositionIn ==
  ASSUME NEW K, NEW s \in Seq(K), NEW id
  PROVE  Position(s, id) \in 0..Len(s)
<1>1. PICK n \in Nat : n = Len(s)
  BY LenProperties
<1>2. PICK I : I = {i \in 1..n : s[i] = id}
  OBVIOUS
<1>3. Position(s, id) = IF I # {} THEN Min(I) ELSE 0
  BY <1>1, <1>2 DEF Position, SelectInSeq
<1>4. I \in SUBSET Nat
  BY <1>2
<1>5. I # {} => Min(I) \in 1..n
  BY <1>2, <1>4, MinIs
<1> QED BY <1>1, <1>3, <1>5

\* The positions of the children of a parent in an array.
Siblings(node, s, parent) == {i \in 1..Len(s) : node[s[i]].parent = parent}

\* The first and the last child are in the array.
LEMMA SiblingsAt ==
  ASSUME NEW K, NEW s \in Seq(K), NEW node, NEW parent, Siblings(node, s, parent) # {}
  PROVE  /\ Min(Siblings(node, s, parent)) \in 1..Len(s)
         /\ Max(Siblings(node, s, parent)) \in 1..Len(s)
<1>1. PICK n \in Nat : n = Len(s)
  BY LenProperties
<1>2. PICK I : I = Siblings(node, s, parent)
  OBVIOUS
<1>3. I \in SUBSET (1..n) /\ I \in SUBSET Nat /\ I # {}
  BY <1>1, <1>2 DEF Siblings
<1>4. Min(I) \in I /\ Max(I) \in I
  BY <1>3, MinIs, MaxIs
<1> QED BY <1>1, <1>2, <1>3, <1>4

\* A node is put in at a place of the array, or after its end.
LEMMA PutAtIs ==
  ASSUME NEW K, NEW doc, doc.order \in Seq(K), NEW parent, NEW after
  PROVE  PutAt(doc, parent, after) \in 1..(Len(doc.order) + 1)
<1>1. PICK s, n : s = doc.order /\ n = Len(s) /\ s \in Seq(K) /\ n \in Nat
  BY LenProperties
<1>2. PICK I, at, last, anchor :
        /\ I = Siblings(doc.node, s, parent) /\ at = PutAt(doc, parent, after)
        /\ last = IF I # {} THEN Max(I) ELSE 0
        /\ anchor = IF after = AtEnd /\ last # 0 THEN s[last] ELSE after
  OBVIOUS
<1>3. at = CASE anchor \in Id -> Position(s, anchor) + 1
             [] anchor \notin Id /\ last # 0 -> IF I # {} THEN Min(I) ELSE 0
             [] OTHER -> Len(s) + 1
  BY Zenon, <1>1, <1>2 DEF PutAt, Siblings, SelectInSeq, SelectLastInSeq
<1>4. CASE anchor \in Id
  BY <1>1, PositionIn, <1>3, <1>4, <1>2
<1>5. CASE anchor \notin Id /\ last # 0
  BY <1>2, <1>5, <1>3, <1>1, SiblingsAt
<1>6. CASE anchor \notin Id /\ last = 0
  BY <1>1, <1>2, <1>3, <1>6
<1> QED BY <1>4, <1>5, <1>6

-----------------------------------------------------------------------------
(* Documents *)

\* A document with ids of a set: what a node holds is known for the ids of its
\* array and for no others.
IsDoc(doc, K) ==
  /\ doc = [node |-> doc.node, order |-> doc.order]
  /\ doc.node = [n \in ToSet(doc.order) |->
                   [parent |-> doc.node[n].parent, val |-> doc.node[n].val]]
  /\ doc.order \in Seq(K)

\* Elements of a sequence over a set.
LEMMA ToSetIn ==
  ASSUME NEW K, NEW s \in Seq(K)
  PROVE  ToSet(s) \subseteq K
BY LenProperties DEF ToSet

\* The ids of a document are those of its array.
LEMMA IsDocIn ==
  ASSUME NEW K, NEW doc, IsDoc(doc, K)
  PROVE  DOMAIN doc.node = ToSet(doc.order) /\ DOMAIN doc.node \subseteq K
BY ToSetIn DEF IsDoc

\* A document with ids of a set is one with ids of a larger set,
LEMMA IsDocMore ==
  ASSUME NEW K, NEW L, K \subseteq L, NEW doc, IsDoc(doc, K)
  PROVE  IsDoc(doc, L)
BY SeqMonotonic DEF IsDoc

\* and of any set its ids are in.
LEMMA IsDocFewer ==
  ASSUME NEW K, NEW L, NEW doc, IsDoc(doc, K), DOMAIN doc.node \subseteq L
  PROVE  IsDoc(doc, L)
BY IsDocIn, SeqOfItsElements, SeqMonotonic DEF IsDoc

\* A tree is a document.
LEMMA TreeIsDoc ==
  ASSUME NEW items, IsTree(items)
  PROVE  IsDoc(items, ToSet(items.order)) /\ DOMAIN items.node = ToSet(items.order)
BY DEF IsTree, IsDoc

\* toItems of a document has ids and texts of that document.
LEMMA ToItemsIsDoc ==
  ASSUME NEW K, NEW doc, IsDoc(doc, K)
  PROVE  /\ IsDoc(ToItems(doc), K) /\ IsTree(ToItems(doc))
         /\ \A n \in DOMAIN ToItems(doc).node :
              n \in DOMAIN doc.node /\ ToItems(doc).node[n].val = doc.node[n].val
<1>1. PICK items, T : items = ToItems(doc) /\ T = ToSet(items.order)
  OBVIOUS
<1>2. doc.order \in Seq(K) /\ DOMAIN doc.node = ToSet(doc.order)
  BY IsDocIn DEF IsDoc
<1>3. /\ IsTree(items) /\ T \subseteq ToSet(doc.order)
      /\ \A n \in T : items.node[n].val = doc.node[n].val
  BY <1>1, <1>2, ToItemsIs
<1>4. IsDoc(items, T) /\ DOMAIN items.node = T
  BY <1>1, <1>3, TreeIsDoc
<1>5. T \subseteq K
  BY <1>2, <1>3, ToSetIn
<1>6. IsDoc(items, K)
  BY <1>4, <1>5, IsDocMore
<1> QED BY <1>1, <1>2, <1>3, <1>4, <1>6

-----------------------------------------------------------------------------
(* Replay *)

\* A node taken out of a document.
LEMMA DropIs ==
  ASSUME NEW K, NEW doc, IsDoc(doc, K), NEW ids
  PROVE  /\ IsDoc(Drop(doc, ids), K)
         /\ DOMAIN Drop(doc, ids).node = DOMAIN doc.node \ ids
         /\ \A n \in DOMAIN doc.node \ ids : Drop(doc, ids).node[n] = doc.node[n]
<1>1. PICK d, s : d = Drop(doc, ids) /\ s = doc.order
  OBVIOUS
<1>2. s \in Seq(K) /\ DOMAIN doc.node = ToSet(s)
  BY <1>1, IsDocIn DEF IsDoc
<1>3. d = [node |-> Without(doc.node, ids), order |-> Rest(s, ids)]
  BY <1>1 DEF Drop
<1>4. /\ d = [node |-> d.node, order |-> d.order] /\ d.order = Rest(s, ids)
      /\ d.node = [n \in ToSet(s) \ ids |-> doc.node[n]]
  BY <1>2, <1>3 DEF Without
<1>5. d.order \in Seq(K) /\ ToSet(d.order) = ToSet(s) \ ids
  BY <1>2, <1>4, RestIs
<1>6. \A n \in ToSet(s) : doc.node[n] =
        [parent |-> doc.node[n].parent, val |-> doc.node[n].val]
  BY <1>1 DEF IsDoc
<1>7. \A n \in ToSet(s) \ ids : d.node[n] = doc.node[n]
  BY <1>4
<1>8. d.node = [n \in ToSet(d.order) |->
                  [parent |-> d.node[n].parent, val |-> d.node[n].val]]
  BY <1>4, <1>5, <1>6, <1>7
<1>9. IsDoc(d, K)
  BY <1>4, <1>5, <1>8 DEF IsDoc
<1> QED BY <1>1, <1>2, <1>4, <1>7, <1>9

\* A node put into a document.
LEMMA PutIs ==
  ASSUME NEW K, NEW doc, IsDoc(doc, K), NEW id \in K, NEW parent, NEW val, NEW after
  PROVE  LET d == Put(doc, id, parent, val, after)
         IN  /\ IsDoc(d, K)
             /\ DOMAIN d.node = DOMAIN doc.node \cup {id}
             /\ d.node[id].val = val
             /\ \A n \in DOMAIN doc.node \ {id} : d.node[n] = doc.node[n]
<1>1. PICK d, rest : d = Put(doc, id, parent, val, after) /\ rest = Drop(doc, {id})
  OBVIOUS
<1>2. /\ IsDoc(rest, K) /\ DOMAIN rest.node = DOMAIN doc.node \ {id}
      /\ \A n \in DOMAIN doc.node \ {id} : rest.node[n] = doc.node[n]
  BY <1>1, DropIs
<1>3. PICK s, at : s = rest.order /\ at = PutAt(rest, parent, after)
  OBVIOUS
<1>4. s \in Seq(K) /\ DOMAIN rest.node = ToSet(s)
  BY <1>2, <1>3, IsDocIn DEF IsDoc
<1>5. at \in 1..(Len(s) + 1)
  BY <1>3, <1>4, PutAtIs
<1>6. d = [node |-> With(rest.node, id, [parent |-> parent, val |-> val]),
           order |-> InsertAt(s, at, id)]
  BY <1>1, <1>3 DEF Put
<1>7. /\ d = [node |-> d.node, order |-> d.order] /\ d.order = InsertAt(s, at, id)
      /\ d.node = [n \in ToSet(s) \cup {id} |->
           IF n = id THEN [parent |-> parent, val |-> val] ELSE rest.node[n]]
  BY <1>4, <1>6 DEF With
<1>8. d.order \in Seq(K) /\ ToSet(d.order) = ToSet(s) \cup {id}
  BY <1>4, <1>5, <1>7, InsertAtIs
<1>9. /\ d.node[id] = [parent |-> parent, val |-> val]
      /\ \A n \in ToSet(s) : n # id => d.node[n] = rest.node[n]
  BY <1>7
<1>10. \A n \in ToSet(s) : rest.node[n] =
         [parent |-> rest.node[n].parent, val |-> rest.node[n].val]
  BY <1>2, <1>3 DEF IsDoc
<1>11. \A n \in ToSet(s) \cup {id} :
         d.node[n] = [parent |-> d.node[n].parent, val |-> d.node[n].val]
  BY <1>9, <1>10
<1>12. d.node = [n \in ToSet(d.order) |->
                   [parent |-> d.node[n].parent, val |-> d.node[n].val]]
  BY <1>7, <1>8, <1>11
<1>13. IsDoc(d, K)
  BY <1>7, <1>8, <1>12 DEF IsDoc
<1>14. DOMAIN d.node = DOMAIN doc.node \cup {id}
  BY <1>2, <1>4, <1>7
<1>15. \A n \in DOMAIN doc.node \ {id} : d.node[n] = doc.node[n]
  BY <1>2, <1>4, <1>9
<1> QED BY <1>1, <1>9, <1>13, <1>14, <1>15

\* An operation on ids of a set; a move may be of a node that is gone, which
\* leaves a node without an id.
IsOp(op, K) ==
  /\ op.type \in {"insert", "update", "move", "delete"}
  /\ op.id \in K

\* What one operation does to a node: its text changes in an insert or an
\* update of it, and it appears in an insert or a move of it.
LEMMA ReplayOpIs ==
  ASSUME NEW K, NEW doc, IsDoc(doc, K), NEW op, IsOp(op, K),
         op.type = "move" => op.id \in DOMAIN doc.node \/ Undefined \in K
  PROVE  LET d == ReplayOp(doc, op)
         IN  /\ IsDoc(d, K)
             /\ \A n \in DOMAIN d.node : n # Undefined =>
                  \/ op.type \in {"insert", "update"} /\ op.id = n /\ d.node[n].val = op.val
                  \/ /\ n \in DOMAIN doc.node /\ d.node[n].val = doc.node[n].val
                     /\ ~(op.type = "update" /\ op.id = n)
             /\ op.type # "delete" =>
                  DOMAIN d.node \subseteq DOMAIN doc.node \cup {op.id, Undefined}
                  /\ DOMAIN doc.node \subseteq DOMAIN d.node
             /\ op.type = "move" /\ op.id \in DOMAIN doc.node =>
                  DOMAIN d.node = DOMAIN doc.node
                  /\ \A n \in DOMAIN doc.node : d.node[n].val = doc.node[n].val
<1>1. PICK d : d = ReplayOp(doc, op)
  OBVIOUS
<1>2. CASE op.type = "update" /\ op.id \notin DOMAIN doc.node
  <2>1. d = doc
    BY <1>1, <1>2 DEF ReplayOp
  <2> QED BY <1>1, <1>2, <2>1
<1>3. CASE op.type = "update" /\ op.id \in DOMAIN doc.node
  <2>1. d = [doc EXCEPT !.node[op.id].val = op.val]
    BY <1>1, <1>3 DEF ReplayOp
  <2>2. PICK s, node : s = doc.order /\ node = doc.node
    OBVIOUS
  <2>3. /\ doc = [node |-> node, order |-> s] /\ s \in Seq(K) /\ DOMAIN node = ToSet(s)
        /\ node = [n \in ToSet(s) |-> [parent |-> node[n].parent, val |-> node[n].val]]
    BY <2>2, IsDocIn DEF IsDoc
  <2>4. PICK x : x = [node EXCEPT ![op.id].val = op.val]
    BY Zenon
  <2>5. d = [node |-> x, order |-> s]
    BY <2>1, <2>3, <2>4
  <2>6. x = [n \in ToSet(s) |-> IF n = op.id THEN [node[n] EXCEPT !.val = op.val]
                                ELSE node[n]]
    BY Zenon, <1>3, <2>2, <2>3, <2>4
  <2>7. \A n \in ToSet(s) : x[n] =
          [parent |-> node[n].parent, val |-> IF n = op.id THEN op.val ELSE node[n].val]
    BY <2>3, <2>6
  <2>8. ASSUME NEW n \in ToSet(s)
        PROVE  /\ x[n] = [parent |-> x[n].parent, val |-> x[n].val]
               /\ n = op.id => x[n].val = op.val
               /\ n # op.id => x[n].val = node[n].val
    <3>1. PICK e, v : e = x[n] /\ v = IF n = op.id THEN op.val ELSE node[n].val
      OBVIOUS
    <3>2. e = [parent |-> node[n].parent, val |-> v]
      BY <2>7, <3>1
    <3>3. e = [parent |-> e.parent, val |-> e.val] /\ e.val = v
      BY <3>2
    <3> QED BY <3>1, <3>3
  <2>9. x = [n \in ToSet(s) |-> [parent |-> x[n].parent, val |-> x[n].val]]
    BY <2>6, <2>8
  <2>10. d.node = x /\ d.order = s /\ DOMAIN x = ToSet(s)
    BY <2>5, <2>6
  <2>11. IsDoc(d, K)
    BY <2>3, <2>5, <2>9, <2>10 DEF IsDoc
  <2> QED BY Zenon, <1>1, <1>3, <2>2, <2>3, <2>8, <2>10, <2>11
<1>4. CASE op.type = "delete"
  BY <1>1, <1>4, DropIs DEF ReplayOp
<1>5. CASE op.type = "insert"
  <2>1. d = Put(doc, op.id, op.parent, op.val, op.after)
    BY <1>1, <1>5 DEF ReplayOp
  <2>2. op.id \in K
    BY DEF IsOp
  <2>3. /\ IsDoc(d, K) /\ DOMAIN d.node = DOMAIN doc.node \cup {op.id}
        /\ d.node[op.id].val = op.val
        /\ \A n \in DOMAIN doc.node \ {op.id} : d.node[n] = doc.node[n]
    BY <2>1, <2>2, PutIs
  <2> QED BY <1>1, <1>5, <2>3
<1>6. CASE op.type = "move" /\ op.id \in DOMAIN doc.node
  <2>1. d = Put(doc, op.id, op.parent, doc.node[op.id].val, op.after)
    BY <1>1, <1>6 DEF ReplayOp
  <2>2. op.id \in K
    BY DEF IsOp
  <2>3. /\ IsDoc(d, K) /\ DOMAIN d.node = DOMAIN doc.node \cup {op.id}
        /\ d.node[op.id].val = doc.node[op.id].val
        /\ \A n \in DOMAIN doc.node \ {op.id} : d.node[n] = doc.node[n]
    BY <2>1, <2>2, PutIs
  <2> QED BY <1>1, <1>6, <2>3
<1>7. CASE op.type = "move" /\ op.id \notin DOMAIN doc.node
  BY <1>1, <1>7, PutIs DEF ReplayOp
<1> QED BY <1>2, <1>3, <1>4, <1>5, <1>6, <1>7 DEF IsOp

\* Replay as a fold.
EditOn(p, doc, op) == ReplayOp(doc, op)
Editing == INSTANCE Folding WITH Step <- EditOn

LEMMA ReplayAsFold == \A doc, ops : Replay(doc, ops) = Editing!Folded(0, doc, ops)
BY DEF Replay, FoldLeft, MapThenFoldSet, Max, Editing!Folded, Editing!Greatest, EditOn

\* No operation changes nothing.
LEMMA ReplayNothing == \A doc : Replay(doc, <<>>) = doc
BY ReplayAsFold, Editing!FoldEmpty, NatSetInduction DEF Editing!Induction

\* An operation on the way to a tree: the text it writes is that of the tree.
Wants(op, items, K) ==
  /\ IsOp(op, K)
  /\ op.type \in {"insert", "update"} => op.val = items.node[op.id].val

\* All operations of a sequence lead to the tree.
LeadsTo(ops, items, K) == \E S : ops \in Seq(S) /\ \A op \in S : Wants(op, items, K)

\* One of the operations writes the text of n.
Updates(ops, n) == \E i \in DOMAIN ops : ops[i].type = "update" /\ ops[i].id = n

\* After a replay a node has the text the operations write, or still its own,
\* which then none of them updates.
LEMMA ReplayIs ==
  ASSUME NEW K, Undefined \in K, NEW doc, IsDoc(doc, K),
         NEW items, NEW ops, LeadsTo(ops, items, K)
  PROVE  /\ IsDoc(Replay(doc, ops), K)
         /\ \A n \in DOMAIN Replay(doc, ops).node : n # Undefined =>
              \/ Replay(doc, ops).node[n].val = items.node[n].val
              \/ ~Updates(ops, n)
<1>1. PICK S : ops \in Seq(S) /\ \A op \in S : Wants(op, items, K)
  BY DEF LeadsTo
<1>2. PICK m \in Nat : m = Len(ops) /\ DOMAIN ops = 1..m /\ \A i \in 1..m : ops[i] \in S
  BY <1>1, LenProperties
<1>3. PICK g : Editing!Goes(g, 0, doc, ops, m) /\ Editing!Folded(0, doc, ops) = g[m]
  BY <1>1, <1>2, Editing!FoldValues, NatSetInduction DEF Editing!Induction
<1> DEFINE Told(d, k) ==
      \A n \in DOMAIN d.node : n # Undefined =>
        \/ d.node[n].val = items.node[n].val
        \/ \A i \in 1..k : ~(ops[i].type = "update" /\ ops[i].id = n)
<1>4. PICK U : U = {k \in Nat : k <= m => IsDoc(g[k], K) /\ Told(g[k], k)}
  BY Zenon
<1>5. 0 \in U
  BY <1>3, <1>4 DEF Editing!Goes
<1>6. ASSUME NEW k \in Nat, k \in U PROVE k + 1 \in U
  <2>1. CASE k + 1 <= m
    <3>1. k + 1 \in 1..m /\ (k + 1) - 1 = k
      BY <2>1
    <3>2. PICK d, e, op : d = g[k] /\ e = g[k+1] /\ op = ops[k+1]
      OBVIOUS
    <3>3. g[k+1] = EditOn(0, g[(k + 1) - 1], ops[k+1])
      BY <1>3, <3>1 DEF Editing!Goes
    <3>4. e = ReplayOp(d, op)
      BY <3>1, <3>2, <3>3 DEF EditOn
    <3>5. IsDoc(d, K) /\ Told(d, k)
      BY <1>4, <1>6, <2>1, <3>2
    <3>6. Wants(op, items, K)
      BY <1>1, <1>2, <3>1, <3>2
    <3>7. /\ IsDoc(e, K)
          /\ \A n \in DOMAIN e.node : n # Undefined =>
               \/ op.type \in {"insert", "update"} /\ op.id = n /\ e.node[n].val = op.val
               \/ /\ n \in DOMAIN d.node /\ e.node[n].val = d.node[n].val
                  /\ ~(op.type = "update" /\ op.id = n)
      BY <3>4, <3>5, <3>6, ReplayOpIs DEF Wants
    <3>8. Told(e, k + 1)
      BY <3>6, <3>7, <3>5, <3>2 DEF Wants
    <3> QED BY <1>4, <3>2, <3>7, <3>8
  <2> QED BY <1>4, <2>1
<1>7. m \in U
  BY <1>5, <1>6, NatSetInduction
<1>8. IsDoc(g[m], K) /\ Told(g[m], m)
  BY <1>4, <1>7
<1>9. Replay(doc, ops) = g[m]
  BY <1>3, ReplayAsFold
<1> QED BY <1>2, <1>8, <1>9 DEF Updates

\* What is updated still is.
Longer(ops, more) == \A n : Updates(ops, n) => Updates(more, n)

-----------------------------------------------------------------------------
(* Diff *)

\* A state of diff on the way to a tree.
Under(d, items, K) ==
  /\ d = [working |-> d.working, ops |-> d.ops]
  /\ IsDoc(d.working, K) /\ LeadsTo(d.ops, items, K)

\* What diff moves is there.
Finds(d, op) == op.type = "move" => op.id \in DOMAIN d.working.node

\* add: the operation is recorded and applied.
LEMMA AddIs ==
  ASSUME NEW K, NEW items, NEW d, Under(d, items, K), NEW op, Wants(op, items, K),
         Finds(d, op)
  PROVE  /\ Under(Add(d, op), items, K)
         /\ Add(d, op).working = ReplayOp(d.working, op)
         /\ Longer(d.ops, Add(d, op).ops)
         /\ op.type = "update" => Updates(Add(d, op).ops, op.id)
<1>1. PICK e, ops, more : e = Add(d, op) /\ ops = d.ops /\ more = Append(ops, op)
  BY Zenon
<1>2. e = [working |-> ReplayOp(d.working, op), ops |-> more]
  BY <1>1 DEF Add
<1>3. /\ e = [working |-> e.working, ops |-> e.ops]
      /\ e.working = ReplayOp(d.working, op) /\ e.ops = more
  BY <1>2
<1>4. IsDoc(e.working, K)
  BY <1>3, ReplayOpIs DEF Under, Wants, Finds
<1>5. PICK S : ops \in Seq(S) /\ \A x \in S : Wants(x, items, K)
  BY <1>1 DEF Under, LeadsTo
<1>6. PICK R : R = S \cup {op}
  BY Zenon
<1>7. ops \in Seq(R) /\ op \in R /\ \A x \in R : Wants(x, items, K)
  BY <1>5, <1>6, SeqMonotonic
<1>8. PICK m \in Nat : m = Len(ops) /\ DOMAIN ops = 1..m
  BY <1>7, LenProperties
<1>9. /\ more \in Seq(R) /\ DOMAIN more = 1..(m+1) /\ more[m+1] = op
      /\ \A i \in 1..m : more[i] = ops[i]
  BY <1>1, <1>7, <1>8, AppendProperties, LenProperties
<1>10. LeadsTo(more, items, K)
  BY <1>7, <1>9 DEF LeadsTo
<1>11. Longer(ops, more)
  BY <1>8, <1>9 DEF Updates, Longer
<1>12. op.type = "update" => Updates(more, op.id)
  <2>1. m + 1 \in 1..(m+1)
    OBVIOUS
  <2> QED BY <1>9, <2>1 DEF Updates
<1> QED BY <1>1, <1>3, <1>4, <1>10, <1>11, <1>12 DEF Under

\* What one turn of the first loop of diff does to the nodes so far.
Turns(d, e, id, items, K) ==
  /\ Under(e, items, K)
  /\ Longer(d.ops, e.ops)
  /\ \A n \in DOMAIN d.working.node : n # Undefined =>
       /\ n \in DOMAIN e.working.node
       /\ \/ e.working.node[n].val = d.working.node[n].val
          \/ n = id /\ Updates(e.ops, n)

\* A node whose text differs is updated.
LEMMA UpdateInIs ==
  ASSUME NEW K, NEW items, NEW d, Under(d, items, K),
         NEW id \in K, id \in DOMAIN d.working.node
  PROVE  LET e == UpdateIn(d, items, id)
         IN  /\ Turns(d, e, id, items, K)
             /\ id \in DOMAIN e.working.node
             /\ d.working.node[id].val # items.node[id].val => Updates(e.ops, id)
<1>1. PICK e, op : /\ e = UpdateIn(d, items, id)
                   /\ op = [type |-> "update", id |-> id, val |-> items.node[id].val]
  BY Zenon
<1>2. CASE d.working.node[id].val = items.node[id].val
  <2>1. e = d
    BY <1>1, <1>2 DEF UpdateIn
  <2> QED BY <1>1, <1>2, <2>1 DEF Turns, Longer
<1>3. CASE d.working.node[id].val # items.node[id].val
  <2>1. e = Add(d, op)
    BY <1>1, <1>3 DEF UpdateIn
  <2>2. op.type = "update" /\ op.id = id /\ op.val = items.node[id].val
    BY <1>1
  <2>3. Wants(op, items, K) /\ IsOp(op, K) /\ op.type # "move"
    BY <2>2 DEF Wants, IsOp
  <2>4. /\ Under(e, items, K) /\ e.working = ReplayOp(d.working, op)
        /\ Longer(d.ops, e.ops)
        /\ Updates(e.ops, id)
    BY <2>3, AddIs, <2>1, <2>2 DEF Finds
  <2>5. PICK w, z : w = d.working /\ z = e.working
    OBVIOUS
  <2>6. IsDoc(w, K) /\ z = ReplayOp(w, op)
    BY <2>4, <2>5 DEF Under
  <2>7. DOMAIN w.node \subseteq DOMAIN z.node
    BY <2>2, <2>3, <2>6, ReplayOpIs
  <2>8. \A n \in DOMAIN z.node : n # Undefined /\ n # id =>
          n \in DOMAIN w.node /\ z.node[n].val = w.node[n].val
    BY <2>2, <2>3, <2>6, ReplayOpIs
  <2> QED BY <1>1, <2>4, <2>5, <2>7, <2>8 DEF Turns
<1> QED BY <1>2, <1>3

\* A node that is elsewhere is moved.
LEMMA MoveInIs ==
  ASSUME NEW K, NEW items, NEW d, Under(d, items, K),
         NEW id \in K, id \in DOMAIN d.working.node
  PROVE  Turns(d, MoveIn(d, items, id), id, items, K)
<1>1. PICK e, op : /\ e = MoveIn(d, items, id)
                   /\ op = [type |-> "move", id |-> id, parent |-> items.node[id].parent,
                            after |-> Before(items, id)]
  BY Zenon
<1>2. CASE e = d
  BY <1>1, <1>2 DEF Turns, Longer
<1>3. CASE e # d
  <2>1. e = Add(d, op)
    BY <1>1, <1>3 DEF MoveIn
  <2>2. op.type = "move" /\ op.id = id
    BY <1>1
  <2>3. Wants(op, items, K) /\ IsOp(op, K) /\ Finds(d, op)
    BY <2>2 DEF Wants, IsOp, Finds
  <2>4. /\ Under(e, items, K) /\ e.working = ReplayOp(d.working, op)
        /\ Longer(d.ops, e.ops)
    BY <2>1, <2>2, <2>3, AddIs
  <2>5. PICK w, z : w = d.working /\ z = e.working
    OBVIOUS
  <2>6. IsDoc(w, K) /\ z = ReplayOp(w, op) /\ op.id \in DOMAIN w.node
    BY <2>2, <2>4, <2>5 DEF Under
  <2>7. DOMAIN z.node = DOMAIN w.node /\ \A n \in DOMAIN w.node : z.node[n].val = w.node[n].val
    BY <2>2, <2>3, <2>6, ReplayOpIs
  <2> QED BY <1>1, <2>4, <2>5, <2>7 DEF Turns
<1> QED BY <1>2, <1>3

\* A node that is not there is inserted.
LEMMA InsertIntoIs ==
  ASSUME NEW K, NEW items, NEW d, Under(d, items, K),
         NEW id \in K, id \notin DOMAIN d.working.node
  PROVE  Turns(d, InsertInto(d, items, id), id, items, K)
<1>1. PICK e, op : /\ e = InsertInto(d, items, id)
                   /\ op = [type |-> "insert", id |-> id, parent |-> items.node[id].parent,
                            after |-> Before(items, id), val |-> items.node[id].val]
  OBVIOUS
<1>2. e = Add(d, op)
  BY <1>1 DEF InsertInto
<1>3. op.type = "insert" /\ op.id = id /\ op.val = items.node[id].val
  BY <1>1
<1>4. Wants(op, items, K) /\ IsOp(op, K) /\ Finds(d, op) /\ op.type # "move"
  BY <1>3 DEF Wants, IsOp, Finds
<1>5. /\ Under(e, items, K) /\ e.working = ReplayOp(d.working, op)
      /\ Longer(d.ops, e.ops)
  BY <1>2, <1>3, <1>4, AddIs
<1>6. PICK w, z : w = d.working /\ z = e.working
  OBVIOUS
<1>7. IsDoc(w, K) /\ z = ReplayOp(w, op) /\ id \notin DOMAIN w.node
  BY <1>5, <1>6 DEF Under
<1>8. DOMAIN w.node \subseteq DOMAIN z.node
  BY <1>3, <1>4, <1>7, ReplayOpIs
<1>9. \A n \in DOMAIN z.node : n # Undefined /\ n # id =>
        n \in DOMAIN w.node /\ z.node[n].val = w.node[n].val
  BY <1>3, <1>4, <1>7, ReplayOpIs
<1> QED BY <1>1, <1>5, <1>6, <1>7, <1>8, <1>9 DEF Turns

\* The whole turn of the loop for one node.
LEMMA WantIs ==
  ASSUME NEW K, NEW items, NEW d, Under(d, items, K), NEW id \in K
  PROVE  LET e == Want(d, items, id)
         IN  /\ Turns(d, e, id, items, K)
             /\ id \in DOMAIN d.working.node
                /\ d.working.node[id].val # items.node[id].val => Updates(e.ops, id)
<1>1. CASE id \notin DOMAIN d.working.node
  BY <1>1, InsertIntoIs DEF Want
<1>2. CASE id \in DOMAIN d.working.node
  <2>1. PICK f, e : f = UpdateIn(d, items, id) /\ e = MoveIn(f, items, id)
    OBVIOUS
  <2>2. Want(d, items, id) = e
    BY <1>2, <2>1 DEF Want
  <2>3. /\ Turns(d, f, id, items, K) /\ id \in DOMAIN f.working.node
        /\ d.working.node[id].val # items.node[id].val => Updates(f.ops, id)
    BY <1>2, <2>1, UpdateInIs
  <2>4. Turns(f, e, id, items, K)
    BY <2>1, <2>3, MoveInIs DEF Turns
  <2>5. Turns(d, e, id, items, K)
    BY <2>3, <2>4 DEF Turns, Longer
  <2>6. d.working.node[id].val # items.node[id].val => Updates(e.ops, id)
    BY <2>3, <2>4 DEF Turns, Longer
  <2> QED BY <2>2, <2>5, <2>6
<1> QED BY <1>1, <1>2

\* The two loops of diff as folds.
WantOn(items, d, id) == Want(d, items, id)
Wanting == INSTANCE Folding WITH Step <- WantOn

DeleteOn(items, d, id) == DeleteUnwanted(d, items, id)
Deleting == INSTANCE Folding WITH Step <- DeleteOn

\* The second loop only adds deletions.
LEMMA DeleteUnwantedIs ==
  ASSUME NEW K, NEW items, NEW d, Under(d, items, K), NEW id \in K
  PROVE  /\ Under(DeleteUnwanted(d, items, id), items, K)
         /\ Longer(d.ops, DeleteUnwanted(d, items, id).ops)
<1>1. PICK e, op : e = DeleteUnwanted(d, items, id) /\ op = [type |-> "delete", id |-> id]
  BY Zenon
<1>2. CASE e = d
  BY <1>1, <1>2 DEF Longer
<1>3. CASE e # d
  BY <1>1, <1>3, AddIs DEF DeleteUnwanted, Wants, IsOp, Finds
<1> QED BY <1>2, <1>3

\* The document so far, before the first loop of diff comes to n: n has the
\* text of doc.
Behind(d, items, n) ==
  n \in DOMAIN d.working.node /\ d.working.node[n].val # items.node[n].val

\* Diff, as two folds.
LEMMA DiffAsFolds ==
  \A doc, items :
    LET e == Wanting!Folded(items, [working |-> doc, ops |-> <<>>], items.order)
    IN  Diff(doc, items) = Deleting!Folded(items, e, e.working.order).ops
BY DEF Diff, FoldLeft, MapThenFoldSet, Max, Wanting!Folded, Wanting!Greatest, WantOn,
       Deleting!Folded, Deleting!Greatest, DeleteOn

\* The operations diff finds lead to the tree, and each node that both trees have
\* with different texts is updated by one of them.
LEMMA DiffIs ==
  ASSUME NEW K, NEW doc, IsDoc(doc, K), NEW items, IsDoc(items, K)
  PROVE  /\ LeadsTo(Diff(doc, items), items, K)
         /\ \A n \in DOMAIN doc.node \cap DOMAIN items.node :
              n # Undefined /\ doc.node[n].val # items.node[n].val =>
                Updates(Diff(doc, items), n)
<1>1. PICK s, d, e, w :
        /\ s = items.order /\ d = [working |-> doc, ops |-> <<>>]
        /\ e = Wanting!Folded(items, d, s) /\ w = e.working.order
  BY Zenon
<1>2. Diff(doc, items) = Deleting!Folded(items, e, w).ops
  BY Zenon, <1>1, DiffAsFolds
<1>3. s \in Seq(K) /\ ToSet(s) = DOMAIN items.node
  BY <1>1, IsDocIn DEF IsDoc
<1>4. PICK m \in Nat : m = Len(s) /\ DOMAIN s = 1..m /\ \A i \in 1..m : s[i] \in K
  BY <1>3, LenProperties
<1>5. PICK g : Wanting!Goes(g, items, d, s, m) /\ Wanting!Folded(items, d, s) = g[m]
  BY <1>3, <1>4, Wanting!FoldValues, NatSetInduction DEF Wanting!Induction
<1>6. Under(d, items, K)
  <2>1. PICK S, ops : S = {} /\ ops = <<>>
    OBVIOUS
  <2>2. ops \in Seq(S) /\ \A x \in S : Wants(x, items, K)
    BY <2>1
  <2>3. LeadsTo(ops, items, K)
    BY <2>2 DEF LeadsTo
  <2>4. d = [working |-> doc, ops |-> ops]
    BY <1>1, <2>1
  <2>5. d = [working |-> d.working, ops |-> d.ops] /\ d.working = doc /\ d.ops = ops
    BY <2>4
  <2> QED BY <2>3, <2>5 DEF Under
<1> DEFINE Met(k, n) ==
      n # Undefined /\ Behind(d, items, n) =>
        \/ Updates(g[k].ops, n)
        \/ Behind(g[k], items, n) /\ \A i \in 1..k : s[i] # n
<1>7. PICK U : U = {k \in Nat : k <= m => /\ Under(g[k], items, K)
                                          /\ \A n : Met(k, n)}
  BY Zenon
<1>8. 0 \in U
  <2>1. g[0] = d
    BY <1>5 DEF Wanting!Goes
  <2> QED BY <1>6, <1>7, <2>1
<1>9. ASSUME NEW k \in Nat, k \in U PROVE k + 1 \in U
  <2>1. CASE k + 1 <= m
    <3>1. k + 1 \in 1..m /\ (k + 1) - 1 = k
      BY <2>1
    <3>2. PICK x, y, id : x = g[k] /\ y = g[k+1] /\ id = s[k+1]
      OBVIOUS
    <3>3. g[k+1] = WantOn(items, g[(k + 1) - 1], s[k+1])
      BY <1>5, <3>1 DEF Wanting!Goes
    <3>4. y = Want(x, items, id)
      BY <3>1, <3>2, <3>3 DEF WantOn
    <3>5. Under(x, items, K) /\ \A n : Met(k, n)
      BY <1>7, <1>9, <2>1, <3>2
    <3>6. id \in K
      BY <1>4, <3>1, <3>2
    <3>7. /\ Turns(x, y, id, items, K)
          /\ Behind(x, items, id) => Updates(y.ops, id)
      BY <3>4, <3>5, <3>6, WantIs DEF Behind
    <3>8. ASSUME NEW n PROVE Met(k + 1, n)
      <4> SUFFICES ASSUME n # Undefined, Behind(d, items, n), ~Updates(y.ops, n)
                   PROVE  Behind(y, items, n) /\ \A i \in 1..(k+1) : s[i] # n
        BY <3>2
      <4>1. ~Updates(x.ops, n)
        BY <3>7 DEF Turns, Longer
      <4>2. Behind(x, items, n) /\ \A i \in 1..k : s[i] # n
        BY <3>2, <3>5, <4>1
      <4>3. n # id
        BY <3>7, <4>2
      <4>4. Behind(y, items, n)
        BY <3>7, <4>2, <4>3 DEF Turns, Behind
      <4>5. \A i \in 1..(k+1) : i = k + 1 \/ i \in 1..k
        OBVIOUS
      <4> QED BY <3>2, <4>2, <4>3, <4>4, <4>5
    <3>9. Under(y, items, K)
      BY <3>7 DEF Turns
    <3> QED BY <1>7, <3>2, <3>8, <3>9
  <2> QED BY <1>7, <2>1
<1>10. m \in U
  BY <1>8, <1>9, NatSetInduction
<1>11. e = g[m]
  BY <1>1, <1>5
<1>12. Under(e, items, K)
  BY <1>7, <1>10, <1>11
<1>13. ASSUME NEW n \in DOMAIN items.node, n # Undefined, Behind(d, items, n)
       PROVE  Updates(e.ops, n)
  BY <1>7, <1>10, <1>3, <1>4, <1>13, <1>11 DEF ToSet
<1>14. w \in Seq(K)
  BY <1>1, <1>12 DEF Under, IsDoc
<1>15. PICK l \in Nat : l = Len(w) /\ DOMAIN w = 1..l /\ \A i \in 1..l : w[i] \in K
  BY <1>14, LenProperties
<1>16. PICK h : Deleting!Goes(h, items, e, w, l) /\ Deleting!Folded(items, e, w) = h[l]
  BY Zenon, <1>14, <1>15, Deleting!FoldValues, NatSetInduction DEF Deleting!Induction
<1>17. PICK V : V = {k \in Nat : k <= l => /\ Under(h[k], items, K)
                                           /\ Longer(e.ops, h[k].ops)}
  BY Zenon
<1>18. 0 \in V
  <2>1. h[0] = e
    BY <1>16 DEF Deleting!Goes
  <2> QED BY <1>12, <1>17, <2>1 DEF Longer
<1>19. ASSUME NEW k \in Nat, k \in V PROVE k + 1 \in V
  <2>1. CASE k + 1 <= l
    <3>1. k + 1 \in 1..l /\ (k + 1) - 1 = k
      BY <2>1
    <3>2. PICK x, y, id : x = h[k] /\ y = h[k+1] /\ id = w[k+1]
      OBVIOUS
    <3>3. h[k+1] = DeleteOn(items, h[(k + 1) - 1], w[k+1])
      BY <1>16, <3>1 DEF Deleting!Goes
    <3>4. y = DeleteUnwanted(x, items, id)
      BY <3>1, <3>2, <3>3 DEF DeleteOn
    <3>5. Under(x, items, K) /\ Longer(e.ops, x.ops) /\ id \in K
      BY <1>15, <1>17, <1>19, <2>1, <3>1, <3>2
    <3>6. Under(y, items, K) /\ Longer(x.ops, y.ops)
      BY <3>4, <3>5, DeleteUnwantedIs
    <3>7. Longer(e.ops, y.ops)
      BY <3>5, <3>6 DEF Longer
    <3> QED BY <1>17, <3>2, <3>6, <3>7
  <2> QED BY <1>17, <2>1
<1>20. l \in V
  BY <1>18, <1>19, NatSetInduction
<1>21. PICK z : z = h[l]
  OBVIOUS
<1>22. Under(z, items, K) /\ Longer(e.ops, z.ops)
  BY <1>17, <1>20, <1>21
<1>23. Diff(doc, items) = z.ops
  BY <1>2, <1>16, <1>21
<1>24. LeadsTo(z.ops, items, K)
  BY <1>22 DEF Under
<1>25. ASSUME NEW n \in DOMAIN doc.node \cap DOMAIN items.node, n # Undefined,
              doc.node[n].val # items.node[n].val
       PROVE  Updates(z.ops, n)
  BY <1>1, <1>25, <1>13, <1>22 DEF Behind, Longer
<1> QED BY <1>23, <1>24, <1>25

-----------------------------------------------------------------------------
(* Outlines *)

\* An outline with ids of a set: what its array names is there, and nothing
\* that was deleted is there.
IsOutline(w, K) ==
  /\ w = [node |-> w.node, order |-> w.order, tombs |-> w.tombs]
  /\ w.order \in Seq(DOMAIN w.node)
  /\ DOMAIN w.node \subseteq K /\ DOMAIN w.tombs \subseteq K
  /\ DOMAIN w.node \cap DOMAIN w.tombs = {}

\* A node placed among its siblings.
LEMMA PlaceIs ==
  ASSUME NEW K, NEW s \in Seq(K), NEW id \in K, NEW node, NEW parent, NEW after
  PROVE  Place(node, s, id, parent, after) \in Seq(K)
<1>1. PICK n : n = Len(s) /\ DOMAIN s = 1..n /\ n \in Nat
  BY LenProperties
<1>2. PICK I, p, at :
        /\ I = Siblings(node, s, parent) /\ p = Place(node, s, id, parent, after)
        /\ at = CASE after \in Id -> Position(s, after) + 1
                  [] after = AtEnd -> (IF I # {} THEN Max(I) ELSE 0) + 1
                  [] OTHER -> IF I # {} THEN Min(I) ELSE 0
  BY Zenon
<1>3. I = {} \equiv ~\E j \in DOMAIN s : node[s[j]].parent = parent
  BY <1>1, <1>2 DEF Siblings
<1>4. p = IF I = {} THEN Append(s, id) ELSE InsertAt(s, at, id)
  <2>1. p = IF ~\E j \in DOMAIN s : node[s[j]].parent = parent
            THEN Append(s, id) ELSE InsertAt(s, at, id)
    BY <1>1, <1>2 DEF Place, Siblings, SelectInSeq, SelectLastInSeq
  <2> QED BY <1>3, <2>1
<1>5. CASE I = {}
  BY <1>2, <1>4, <1>5, AppendProperties
<1>6. CASE I # {}
  <2>1. Min(I) \in 1..n /\ Max(I) \in 1..n
    BY <1>1, <1>2, <1>6, SiblingsAt
  <2>2. Position(s, after) \in 0..n
    BY <1>1, PositionIn
  <2>3. at \in {Position(s, after) + 1, Max(I) + 1, Min(I)}
    BY <1>2, AfterAssumption, <1>6
  <2>4. at \in 1..(n + 1)
    BY <1>1, <2>1, <2>2, <2>3
  <2> QED BY <1>1, <1>2, <1>4, <1>6, <2>4, InsertAtIs
<1> QED BY <1>5, <1>6

\* What the array keeps is not among what was taken out.
LEMMA RestApart ==
  ASSUME NEW K, NEW s \in Seq(K), NEW ids
  PROVE  Rest(s, ids) \in Seq(K \ ids)
BY RestIs, ToSetIn, SeqOfItsElements, SeqMonotonic

\* An accepted operation of a batch makes an outline of an outline.
LEMMA EffectIs ==
  ASSUME NEW K, NEW w, IsOutline(w, K), NEW op, IsOp(op, K),
         NEW initial, NEW base, Accepts(op, w, initial, base), NEW rev
  PROVE  IsOutline(Effect(op, w, rev), K)
<1>1. PICK node, s, tombs : node = w.node /\ s = w.order /\ tombs = w.tombs
  OBVIOUS
<1>2. PICK D : D = DOMAIN node
  OBVIOUS
<1>3. /\ w = [node |-> node, order |-> s, tombs |-> tombs] /\ s \in Seq(D)
      /\ D \subseteq K /\ DOMAIN tombs \subseteq K /\ D \cap DOMAIN tombs = {}
  BY <1>1, <1>2 DEF IsOutline
<1>4. PICK e : e = Effect(op, w, rev)
  OBVIOUS
<1>5. ASSUME NEW x, NEW y, NEW z, e = [node |-> x, order |-> y, tombs |-> z],
             y \in Seq(DOMAIN x), DOMAIN x \subseteq K, DOMAIN z \subseteq K,
             DOMAIN x \cap DOMAIN z = {}
      PROVE  IsOutline(e, K)
  BY <1>5 DEF IsOutline
<1>6. CASE op.type = "insert"
  <2>1. op.id \in K /\ op.id \notin DOMAIN tombs
    BY <1>1, <1>6 DEF Accepts, IsOp
  <2>2. PICK x, y : /\ x = With(node, op.id,
                             [parent |-> op.parent, val |-> op.val, changedAt |-> rev])
                    /\ y = Place(node, s, op.id, op.parent, op.after)
    OBVIOUS
  <2>3. e = [w EXCEPT !.node = x, !.order = y]
    BY <1>1, <1>4, <1>6, <2>2 DEF Effect, Inserted
  <2>4. e = [node |-> x, order |-> y, tombs |-> tombs]
    BY Zenon, <1>3, <2>3
  <2>5. DOMAIN x = D \cup {op.id}
    BY <1>2, <2>2 DEF With
  <2>6. y \in Seq(D \cup {op.id})
    <3>1. s \in Seq(D \cup {op.id})
      BY <1>3, SeqMonotonic
    <3> QED BY Zenon, <2>2, <3>1, PlaceIs
  <2> QED BY <1>3, <1>4, <1>5, <2>1, <2>4, <2>5, <2>6
<1>7. CASE op.type = "update"
  <2>1. op.id \in D
    BY <1>1, <1>2, <1>7 DEF Accepts
  <2>2. PICK v : e = [w EXCEPT !.node = With(node, op.id, v)]
    BY <1>1, <1>4, <1>7 DEF Effect, Updated
  <2>3. PICK x : x = With(node, op.id, v)
    OBVIOUS
  <2>4. DOMAIN x = D
    BY <1>2, <2>1, <2>3 DEF With
  <2>5. e = [node |-> x, order |-> s, tombs |-> tombs]
    BY <1>3, <2>2, <2>3
  <2> QED BY <1>3, <1>4, <1>5, <2>4, <2>5
<1>8. CASE op.type = "move"
  <2>1. op.id \in D
    BY <1>1, <1>2, <1>8 DEF Accepts
  <2>2. PICK rest, v :
          /\ rest = Without(node, {op.id})
          /\ e = [w EXCEPT !.node = With(rest, op.id, v),
                           !.order = Place(rest, Rest(s, {op.id}), op.id,
                                           op.parent, op.after)]
    BY Zenon, <1>1, <1>4, <1>8 DEF Effect, Moved
  <2>3. PICK x, y : /\ x = With(rest, op.id, v)
                    /\ y = Place(rest, Rest(s, {op.id}), op.id, op.parent, op.after)
    OBVIOUS
  <2>4. DOMAIN x = D
    BY <1>2, <2>1, <2>2, <2>3 DEF With, Without
  <2>5. y \in Seq(D)
    BY <1>3, RestIs, <2>1, <2>3, PlaceIs
  <2>6. e = [node |-> x, order |-> y, tombs |-> tombs]
    BY Zenon, <1>3, <2>2, <2>3
  <2> QED BY <1>3, <1>4, <1>5, <2>4, <2>5, <2>6
<1>9. CASE op.type = "delete"
  <2>1. op.id \in D
    BY <1>1, <1>2, <1>9 DEF Accepts
  <2>2. PICK ids : ids = DescendantIds(node, op.id)
    OBVIOUS
  <2>3. ids \subseteq D
    BY <1>2, <2>1, <2>2 DEF DescendantIds
  <2>4. PICK x, y, z :
          /\ x = Without(node, ids) /\ y = Rest(s, ids)
          /\ z = [t \in DOMAIN tombs \cup ids |-> IF t \in ids THEN rev ELSE tombs[t]]
    BY Zenon
  <2>5. e = [node |-> x, order |-> y, tombs |-> z]
    BY <1>1, <1>4, <1>9, <2>2, <2>4 DEF Effect, Deleted
  <2>6. DOMAIN x = D \ ids /\ DOMAIN z = DOMAIN tombs \cup ids
    BY <1>2, <2>4 DEF Without
  <2>7. y \in Seq(D \ ids)
    BY <1>3, <2>4, RestApart
  <2> QED BY <1>3, <1>4, <1>5, <2>3, <2>5, <2>6, <2>7
<1> QED BY <1>4, <1>6, <1>7, <1>8, <1>9 DEF IsOp

\* The tree of an outline: its ids are the outline's, so none was deleted.
LEMMA OutlineTree ==
  ASSUME NEW K, NEW w, IsOutline(w, K)
  PROVE  /\ IsTree(ToItems(w)) /\ IsDoc(ToItems(w), K)
         /\ DOMAIN ToItems(w).node \subseteq DOMAIN w.node
         /\ ToItems(ToItems(w)) = ToItems(w)
<1>1. PICK items, s, D : items = ToItems(w) /\ s = w.order /\ D = DOMAIN w.node
  OBVIOUS
<1>2. s \in Seq(D) /\ D \subseteq K
  BY <1>1 DEF IsOutline
<1>3. IsTree(items) /\ ToSet(items.order) \subseteq ToSet(s) /\ ToItems(items) = items
  BY <1>1, <1>2, ToItemsIs, ToItemsAgain
<1>4. IsDoc(items, ToSet(items.order)) /\ DOMAIN items.node = ToSet(items.order)
  BY <1>3, TreeIsDoc
<1>5. ToSet(s) \subseteq D
  BY <1>2, ToSetIn
<1>6. IsDoc(items, K)
  BY <1>2, <1>3, <1>4, <1>5, IsDocMore
<1> QED BY <1>1, <1>3, <1>4, <1>5, <1>6

-----------------------------------------------------------------------------
(* The order of an array *)

\* x comes before y.
Earlier(s, x, y) == \E i, j \in DOMAIN s : i < j /\ s[i] = x /\ s[j] = y

\* What comes before what is in the array.
LEMMA EarlierIn ==
  ASSUME NEW s, NEW x, NEW y, Earlier(s, x, y)
  PROVE  x \in ToSet(s) /\ y \in ToSet(s)
BY DEF Earlier, ToSet

\* In an array without repetitions, of two elements one comes first.
LEMMA EarlierOrder ==
  ASSUME NEW K, NEW s \in Seq(K), Distinct(s)
  PROVE  /\ \A x, y \in ToSet(s) : x # y => Earlier(s, x, y) \/ Earlier(s, y, x)
         /\ \A x, y : ~(Earlier(s, x, y) /\ Earlier(s, y, x))
         /\ \A x : ~Earlier(s, x, x)
         /\ \A x, y, z : Earlier(s, x, y) /\ Earlier(s, y, z) => Earlier(s, x, z)
<1>1. PICK n \in Nat : DOMAIN s = 1..n
  BY LenProperties
<1>2. \A i, j \in 1..n : s[i] = s[j] => i = j
  BY <1>1 DEF Distinct
<1>3. \A x, y \in ToSet(s) : x # y => Earlier(s, x, y) \/ Earlier(s, y, x)
  BY <1>1 DEF ToSet, Earlier
<1>4. ASSUME NEW x, NEW y, NEW z, Earlier(s, x, y), Earlier(s, y, z)
      PROVE  Earlier(s, x, z) /\ x # z
  BY <1>1, <1>4, <1>2 DEF Earlier
<1>5. \A x : ~Earlier(s, x, x)
  BY <1>4
<1> QED BY <1>3, <1>4, <1>5

\* Arrays of the same elements, each once, are as long.
LEMMA SameLength ==
  ASSUME NEW K, NEW s \in Seq(K), Distinct(s), NEW z \in Seq(K), Distinct(z),
         ToSet(s) = ToSet(z)
  PROVE  Len(s) = Len(z)
<1>1. ASSUME NEW r \in Seq(K), Distinct(r)
      PROVE  Len(r) \in Nat /\ Cardinality(ToSet(r)) = Len(r)
  <2>1. PICK T : T = ToSet(r)
    OBVIOUS
  <2>2. PICK n \in Nat : n = Len(r) /\ DOMAIN r = 1..n /\ r \in [1..n -> T]
    <3>1. r \in Seq(T)
      BY <2>1, SeqOfItsElements
    <3> QED BY <3>1, LenProperties
  <2>3. r \in Bijection(1..n, T)
    BY <1>1, <2>2, <2>1 DEF Distinct, ToSet, Bijection, Injection, IsInjective,
       Surjection
  <2>4. IsFiniteSet(1..n) /\ Cardinality(1..n) = n
    BY FS_Interval
  <2>5. Cardinality(T) = Cardinality(1..n)
    <3>1. ExistsBijection(1..n, T)
      BY <2>3 DEF ExistsBijection
    <3> QED BY <2>4, <3>1, FS_Bijection
  <2> QED BY <2>1, <2>2, <2>4, <2>5
<1> QED BY <1>1

\* A filter keeps the order of what it keeps.
LEMMA RestEarlier ==
  ASSUME NEW K, NEW s \in Seq(K), Distinct(s), NEW ids
  PROVE  /\ Distinct(Rest(s, ids))
         /\ \A x, y : Earlier(Rest(s, ids), x, y) <=>
                        Earlier(s, x, y) /\ x \notin ids /\ y \notin ids
<1>1. Rest(s, ids) = Keeping!Folded(ids, <<>>, s)
  BY DEF Rest, FoldLeft, MapThenFoldSet, Max, Keeping!Folded, Keeping!Greatest, KeepOn
<1>2. PICK n \in Nat : n = Len(s) /\ DOMAIN s = 1..n /\ \A i \in 1..n : s[i] \in K
  BY LenProperties
<1>3. PICK g : Keeping!Goes(g, ids, <<>>, s, n) /\ Keeping!Folded(ids, <<>>, s) = g[n]
  BY <1>2, Keeping!FoldValues, NatSetInduction DEF Keeping!Induction
\* The elements kept come from increasing positions.
<1> DEFINE From(z, k, f) ==
      /\ z \in Seq(K)
      /\ \A i \in DOMAIN z : f[i] \in 1..k /\ z[i] = s[f[i]] /\ z[i] \notin ids
      /\ \A i, j \in DOMAIN z : i < j => f[i] < f[j]
      /\ \A l \in 1..k : s[l] \notin ids => \E i \in DOMAIN z : f[i] = l
<1>4. PICK U : U = {k \in Nat : k <= n => \E f : From(g[k], k, f)}
  BY Zenon
<1>5. 0 \in U
  <2>1. PICK e : e = <<>>
    OBVIOUS
  <2>2. e \in Seq(K) /\ DOMAIN e = {}
    BY <2>1
  <2>3. From(e, 0, e)
    BY <2>2
  <2>4. g[0] = e
    BY <1>3, <2>1 DEF Keeping!Goes
  <2>5. \E f : From(g[0], 0, f)
    BY <2>3, <2>4
  <2> QED BY <1>4, <2>5
<1>6. ASSUME NEW k \in Nat, k \in U PROVE k + 1 \in U
  <2>1. CASE k + 1 <= n
    <3>1. k + 1 \in 1..n /\ (k + 1) - 1 = k
      BY <2>1
    <3>2. PICK z, y, x : z = g[k] /\ y = g[k+1] /\ x = s[k+1]
      OBVIOUS
    <3>3. g[k+1] = KeepOn(ids, g[(k + 1) - 1], s[k+1])
      BY <1>3, <3>1 DEF Keeping!Goes
    <3>4. y = IF x \in ids THEN z ELSE Append(z, x)
      BY <3>1, <3>2, <3>3 DEF KeepOn
    <3>5. PICK f : From(z, k, f)
      <4> HIDE DEF From
      <4>1. \E f : From(g[k], k, f)
        BY <1>4, <1>6, <2>1
      <4> QED BY <3>2, <4>1
    <3>6. PICK m \in Nat : m = Len(z) /\ DOMAIN z = 1..m
      BY <3>5, LenProperties
    <3>7. CASE x \in ids
      <4>1. y = z
        BY <3>4, <3>7
      <4>2. \A l \in 1..(k+1) : s[l] \notin ids => l \in 1..k
        BY <3>2, <3>7
      <4>3. \A l \in 1..k : l \in 1..(k+1)
        OBVIOUS
      <4>4. From(y, k + 1, f)
        BY <3>5, <4>1, <4>2, <4>3
      <4> HIDE DEF From
      <4>5. \E e : From(g[k+1], k + 1, e)
        BY <3>2, <4>4
      <4> QED BY <1>4, <4>5
    <3>8. CASE x \notin ids
      <4>1. y = Append(z, x) /\ x \in K
        BY <1>2, <3>1, <3>2, <3>4, <3>8
      <4>2. /\ y \in Seq(K) /\ DOMAIN y = 1..(m+1) /\ y[m+1] = x
            /\ \A i \in 1..m : y[i] = z[i]
        BY <3>5, <3>6, <4>1, AppendProperties, LenProperties
      <4>3. PICK h : h = [i \in 1..(m+1) |-> IF i = m + 1 THEN k + 1 ELSE f[i]]
        BY Zenon
      <4>4. h[m+1] = k + 1 /\ \A i \in 1..m : h[i] = f[i]
        BY <4>3
      <4>5. \A i \in 1..(m+1) : i = m + 1 \/ i \in 1..m
        OBVIOUS
      <4>6. \A i \in 1..m : f[i] \in 1..k /\ z[i] = s[f[i]] /\ z[i] \notin ids
        BY <3>5, <3>6
      <4>7. \A i \in 1..(m+1) : h[i] \in 1..(k+1) /\ y[i] = s[h[i]] /\ y[i] \notin ids
        <5> SUFFICES ASSUME NEW i \in 1..(m+1)
                     PROVE  h[i] \in 1..(k+1) /\ y[i] = s[h[i]] /\ y[i] \notin ids
          OBVIOUS
        <5>1. CASE i = m + 1
          BY <3>2, <3>8, <4>2, <4>4, <5>1
        <5>2. CASE i \in 1..m
          <6>1. f[i] \in 1..(k+1)
            BY <4>6, <5>2
          <6> QED BY <4>2, <4>4, <4>6, <5>2, <6>1
        <5> QED BY <4>5, <5>1, <5>2
      <4>8. \A i, j \in 1..(m+1) : i < j => h[i] < h[j]
        <5> SUFFICES ASSUME NEW i \in 1..(m+1), NEW j \in 1..(m+1), i < j
                     PROVE  h[i] < h[j]
          OBVIOUS
        <5>1. i \in 1..m
          OBVIOUS
        <5>2. CASE j = m + 1
          <6>1. f[i] < k + 1
            BY <4>6, <5>1
          <6> QED BY <4>4, <5>1, <5>2, <6>1
        <5>3. CASE j \in 1..m
          BY Zenon, <3>5, <3>6, <4>4, <5>1, <5>3
        <5> QED BY <4>5, <5>2, <5>3
      <4>9. \A l \in 1..(k+1) : s[l] \notin ids => \E i \in 1..(m+1) : h[i] = l
        <5> SUFFICES ASSUME NEW l \in 1..(k+1), s[l] \notin ids
                     PROVE  \E i \in 1..(m+1) : h[i] = l
          OBVIOUS
        <5>1. CASE l = k + 1
          <6>1. m + 1 \in 1..(m+1)
            OBVIOUS
          <6> QED BY <4>4, <5>1, <6>1
        <5>2. CASE l \in 1..k
          <6>1. PICK i \in 1..m : f[i] = l
            BY <3>5, <3>6, <5>2
          <6>2. i \in 1..(m+1)
            OBVIOUS
          <6> QED BY <4>4, <6>1, <6>2
        <5> QED BY <5>1, <5>2
      <4>10. From(y, k + 1, h)
        BY <4>2, <4>7, <4>8, <4>9
      <4> HIDE DEF From
      <4>11. \E e : From(g[k+1], k + 1, e)
        BY <3>2, <4>10
      <4> QED BY <1>4, <4>11
    <3> QED BY <3>7, <3>8
  <2> QED BY <1>4, <2>1
<1>7. n \in U
  BY <1>5, <1>6, NatSetInduction
<1>8. PICK z : z = g[n]
  OBVIOUS
<1>9. PICK f : From(z, n, f)
  <2> HIDE DEF From
  <2>1. \E f : From(g[n], n, f)
    BY <1>4, <1>7
  <2> QED BY Zenon, <1>8, <2>1
<1>10. PICK m \in Nat : DOMAIN z = 1..m
  BY <1>9, LenProperties
<1>11. \A i, j \in 1..n : s[i] = s[j] => i = j
  BY <1>2 DEF Distinct
<1>12. /\ \A i \in 1..m : f[i] \in 1..n /\ z[i] = s[f[i]] /\ z[i] \notin ids
       /\ \A i, j \in 1..m : i < j => f[i] < f[j]
       /\ \A l \in 1..n : s[l] \notin ids => \E i \in 1..m : f[i] = l
  BY Zenon, <1>9, <1>10
<1>13. \A i, j \in 1..m : f[i] < f[j] => i < j
  <2> SUFFICES ASSUME NEW i \in 1..m, NEW j \in 1..m, f[i] < f[j], ~(i < j) PROVE FALSE
    OBVIOUS
  <2>1. i = j \/ j < i
    OBVIOUS
  <2>2. f[i] \in 1..n /\ f[j] \in 1..n
    BY <1>12
  <2> QED BY <1>12, <2>1, <2>2
<1>14. Distinct(z)
  <2> SUFFICES ASSUME NEW i \in 1..m, NEW j \in 1..m, z[i] = z[j] PROVE i = j
    BY <1>10 DEF Distinct
  <2>1. f[i] = f[j] /\ f[i] \in 1..n /\ f[j] \in 1..n
    BY <1>11, <1>12
  <2>2. i < j \/ j < i \/ i = j
    OBVIOUS
  <2> QED BY <1>12, <2>1, <2>2
<1>15. ASSUME NEW x, NEW y, Earlier(z, x, y)
       PROVE  Earlier(s, x, y) /\ x \notin ids /\ y \notin ids
  <2>1. PICK i, j \in 1..m : i < j /\ z[i] = x /\ z[j] = y
    BY <1>10, <1>15 DEF Earlier
  <2> QED BY <1>2, <1>12, <2>1 DEF Earlier
<1>16. ASSUME NEW x, NEW y, Earlier(s, x, y), x \notin ids, y \notin ids
       PROVE  Earlier(z, x, y)
  <2>1. PICK a, b \in 1..n : a < b /\ s[a] = x /\ s[b] = y
    BY <1>2, <1>16 DEF Earlier
  <2>2. PICK i, j \in 1..m : f[i] = a /\ f[j] = b
    BY <1>12, <1>16, <2>1
  <2>3. i < j /\ z[i] = x /\ z[j] = y
    BY <1>12, <1>13, <2>1, <2>2
  <2> QED BY <1>10, <2>3 DEF Earlier
<1> QED BY <1>1, <1>3, <1>8, <1>14, <1>15, <1>16

\* Where the elements are when one was put in: those from its place on are one
\* further.
LEMMA InsertAtAt ==
  ASSUME NEW K, NEW s \in Seq(K), NEW e \in K, NEW i \in 1..(Len(s) + 1)
  PROVE  /\ DOMAIN InsertAt(s, i, e) = 1..(Len(s) + 1) /\ InsertAt(s, i, e)[i] = e
         /\ \A j \in 1..Len(s) :
              InsertAt(s, i, e)[IF j < i THEN j ELSE j + 1] = s[j]
<1>1. PICK n \in Nat : n = Len(s) /\ DOMAIN s = 1..n
  BY LenProperties
<1>2. PICK a, b, x : a = SubSeq(s, 1, i - 1) /\ b = SubSeq(s, i, n) /\ x = <<e>>
  BY Zenon
<1>3. i \in Nat /\ i >= 1 /\ i <= n + 1 /\ i - 1 \in Nat
  BY <1>1
<1>4. /\ a \in Seq(K) /\ Len(a) = i - 1 /\ \A j \in 1..(i-1) : a[j] = s[j]
  BY <1>1, <1>3, <1>2, SubSeqProperties
<1>5. /\ b \in Seq(K) /\ Len(b) = n + 1 - i /\ \A j \in 1..(n + 1 - i) : b[j] = s[i + j - 1]
  BY <1>1, <1>3, <1>2, SubSeqProperties
<1>6. x \in Seq(K) /\ Len(x) = 1 /\ x[1] = e
  BY <1>2
<1>7. PICK c : c = a \o x
  BY Zenon
<1>8. c \in Seq(K) /\ Len(c) = i /\ c[i] = e /\ \A j \in 1..(i-1) : c[j] = s[j]
  <2>1. /\ c \in Seq(K) /\ Len(c) = (i - 1) + 1
        /\ \A j \in 1..((i-1) + 1) : c[j] = IF j <= i - 1 THEN a[j] ELSE x[j - (i - 1)]
    <3>1. /\ c \in Seq(K) /\ Len(c) = Len(a) + Len(x)
          /\ \A j \in 1..(Len(a) + Len(x)) :
               c[j] = IF j <= Len(a) THEN a[j] ELSE x[j - Len(a)]
      BY <1>4, <1>6, <1>7, ConcatProperties
    <3> QED BY <1>4, <1>6, <3>1
  <2>2. (i - 1) + 1 = i /\ i - (i - 1) = 1 /\ ~(i <= i - 1) /\ i \in 1..i
    BY <1>3
  <2>3. \A j \in 1..(i-1) : j \in 1..i /\ j <= i - 1
    BY <1>3
  <2>4. \A j \in 1..i : c[j] = IF j <= i - 1 THEN a[j] ELSE x[j - (i - 1)]
    BY <2>1, <2>2
  <2>5. c[i] = x[i - (i - 1)]
    BY <2>2, <2>4
  <2>6. \A j \in 1..(i-1) : c[j] = a[j]
    BY <2>3, <2>4
  <2> QED BY <1>4, <1>6, <2>1, <2>2, <2>5, <2>6
<1>9. PICK z : z = c \o b
  BY Zenon
<1>10. /\ z \in Seq(K) /\ Len(z) = n + 1
       /\ \A j \in 1..(n + 1) : z[j] = IF j <= i THEN c[j] ELSE b[j - i]
  <2>1. /\ z \in Seq(K) /\ Len(z) = i + (n + 1 - i)
        /\ \A j \in 1..(i + (n + 1 - i)) : z[j] = IF j <= i THEN c[j] ELSE b[j - i]
    <3>1. /\ z \in Seq(K) /\ Len(z) = Len(c) + Len(b)
          /\ \A j \in 1..(Len(c) + Len(b)) :
               z[j] = IF j <= Len(c) THEN c[j] ELSE b[j - Len(c)]
      BY <1>5, <1>8, <1>9, ConcatProperties
    <3> QED BY <1>5, <1>8, <3>1
  <2>2. i + (n + 1 - i) = n + 1
    BY <1>3
  <2> QED BY <2>1, <2>2
<1>11. DOMAIN z = 1..(n+1)
  BY <1>10, LenProperties
<1>12. z[i] = e
  BY <1>3, <1>8, <1>10
<1>13. ASSUME NEW j \in 1..n PROVE z[IF j < i THEN j ELSE j + 1] = s[j]
  <2>1. CASE j < i
    BY <1>3, <2>1, <1>8, <1>10
  <2>2. CASE ~(j < i)
    <3>1. /\ j + 1 \in 1..(n+1) /\ ~(j + 1 <= i) /\ (j + 1) - i \in 1..(n + 1 - i)
          /\ i + ((j + 1) - i) - 1 = j
      BY <1>3, <2>2
    <3>2. z[j+1] = b[(j + 1) - i]
      BY <1>10, <3>1
    <3>3. b[(j + 1) - i] = s[i + ((j + 1) - i) - 1]
      BY <1>5, <3>1
    <3> QED BY <2>2, <3>1, <3>2, <3>3
  <2> QED BY <2>1, <2>2
<1>14. InsertAt(s, i, e) = z
  BY <1>1, <1>2, <1>7, <1>9 DEF InsertAt
<1> QED BY <1>1, <1>11, <1>12, <1>13, <1>14

\* A new element of an array leaves the others in their order, after those
\* before its place.
LEMMA InsertAtEarlier ==
  ASSUME NEW K, NEW s \in Seq(K), Distinct(s), NEW e \in K \ ToSet(s),
         NEW i \in 1..(Len(s) + 1)
  PROVE  LET z == InsertAt(s, i, e)
         IN  /\ Distinct(z)
             /\ \A x, y \in ToSet(s) : Earlier(z, x, y) <=> Earlier(s, x, y)
             /\ \A j \in 1..Len(s) : Earlier(z, s[j], e) <=> j < i
<1>1. PICK n \in Nat : n = Len(s) /\ DOMAIN s = 1..n
  BY LenProperties
<1>2. PICK z : z = InsertAt(s, i, e)
  OBVIOUS
<1>3. i \in 1..(n+1) /\ i \in Nat
  BY <1>1
<1> DEFINE higher(j) == IF j < i THEN j ELSE j + 1
<1>4. DOMAIN z = 1..(n+1) /\ z[i] = e /\ \A j \in 1..n : z[higher(j)] = s[j]
  BY <1>1, <1>2, InsertAtAt
<1>5. \A j \in 1..n : higher(j) \in 1..(n+1) /\ higher(j) # i /\ (higher(j) < i <=> j < i)
  BY <1>3
<1>6. \A j, l \in 1..n : higher(j) < higher(l) <=> j < l
  BY <1>3
<1>7. \A k \in 1..(n+1) : k = i \/ \E j \in 1..n : k = higher(j)
  <2> SUFFICES ASSUME NEW k \in 1..(n+1), k # i PROVE \E j \in 1..n : k = higher(j)
    BY Zenon
  <2>1. CASE k < i
    BY <1>3, <2>1
  <2>2. CASE k > i
    BY <1>3, <2>2
  <2> QED BY <1>3, <2>1, <2>2
<1>8. \A j \in 1..n : s[j] # e
  BY <1>1 DEF ToSet
<1>9. \A j, l \in 1..n : s[j] = s[l] => j = l
  BY <1>1 DEF Distinct
<1> HIDE DEF higher
<1>10. \A k, l \in 1..(n+1) : z[k] = z[l] => k = l
  <2> SUFFICES ASSUME NEW k \in 1..(n+1), NEW l \in 1..(n+1), z[k] = z[l] PROVE k = l
    OBVIOUS
  <2>1. CASE k = i
    BY Zenon, <1>4, <1>7, <1>8, <2>1
  <2>2. CASE l = i
    BY <1>4, <1>7, <1>8, <2>2
  <2>3. CASE k # i /\ l # i
    <3>1. PICK a \in 1..n, b \in 1..n : k = higher(a) /\ l = higher(b)
      BY <1>7, <2>3
    <3> QED BY <1>4, <1>9, <3>1
  <2> QED BY <2>1, <2>2, <2>3
<1>11. Distinct(z)
  BY <1>4, <1>10 DEF Distinct
<1>12. ASSUME NEW x \in ToSet(s), NEW y \in ToSet(s)
       PROVE  Earlier(z, x, y) <=> Earlier(s, x, y)
  <2>1. PICK a \in 1..n, b \in 1..n : s[a] = x /\ s[b] = y
    BY <1>1 DEF ToSet
  <2>2. /\ higher(a) \in 1..(n+1) /\ higher(b) \in 1..(n+1)
        /\ z[higher(a)] = x /\ z[higher(b)] = y /\ (higher(a) < higher(b) <=> a < b)
    BY <1>4, <1>5, <1>6, <2>1
  <2>3. Earlier(z, x, y) <=> higher(a) < higher(b)
    BY <1>4, <1>10, <2>2 DEF Earlier
  <2>4. Earlier(s, x, y) <=> a < b
    BY <1>1, <1>9, <2>1 DEF Earlier
  <2> QED BY <2>2, <2>3, <2>4
<1>13. ASSUME NEW j \in 1..n PROVE Earlier(z, s[j], e) <=> j < i
  <2>1. higher(j) \in 1..(n+1) /\ z[higher(j)] = s[j] /\ (higher(j) < i <=> j < i)
    BY <1>4, <1>5
  <2>2. Earlier(z, s[j], e) <=> higher(j) < i
    BY <1>3, <1>4, <1>10, <2>1 DEF Earlier
  <2> QED BY <2>1, <2>2
<1> QED BY <1>1, <1>2, <1>11, <1>12, <1>13

\* indexOf of an element is its position.
LEMMA PositionOf ==
  ASSUME NEW K, NEW s \in Seq(K), NEW id \in ToSet(s)
  PROVE  Position(s, id) \in 1..Len(s) /\ s[Position(s, id)] = id
<1>1. PICK n \in Nat : n = Len(s) /\ DOMAIN s = 1..n
  BY LenProperties
<1>2. PICK I : I = {i \in 1..n : s[i] = id}
  OBVIOUS
<1>3. Position(s, id) = IF I # {} THEN Min(I) ELSE 0
  BY <1>1, <1>2 DEF Position, SelectInSeq
<1>4. I \in SUBSET Nat /\ I # {}
  BY <1>1, <1>2 DEF ToSet
<1>5. Min(I) \in I
  BY <1>4, MinIs
<1> QED BY <1>1, <1>2, <1>3, <1>4, <1>5

\* The siblings a new node comes after.
ComesAfter(s, after, x) ==
  \/ after = AtEnd
  \/ after \in Id /\ (x = after \/ Earlier(s, x, after))

\* A place among siblings: z is s with the node where the anchor says.
PlacedIn(z, s, node, id, parent, after) ==
  /\ ToSet(z) = ToSet(s) \cup {id} /\ Distinct(z)
  /\ \A x, y \in ToSet(s) : Earlier(z, x, y) <=> Earlier(s, x, y)
  /\ \A x \in ToSet(s) :
       node[x].parent = parent => (Earlier(z, x, id) <=> ComesAfter(s, after, x))

\* A position that comes after just these siblings is such a place.
LEMMA InsertAtPlaces ==
  ASSUME NEW K, NEW s \in Seq(K), Distinct(s), NEW id \in K \ ToSet(s),
         NEW node, NEW parent, NEW after, NEW at \in 1..(Len(s) + 1),
         \A j \in Siblings(node, s, parent) : j < at <=> ComesAfter(s, after, s[j])
  PROVE  PlacedIn(InsertAt(s, at, id), s, node, id, parent, after)
<1>1. PICK n \in Nat : n = Len(s) /\ DOMAIN s = 1..n
  BY LenProperties
<1>2. PICK z : z = InsertAt(s, at, id)
  OBVIOUS
<1>3. ToSet(z) = ToSet(s) \cup {id}
  BY <1>2, InsertAtIs
<1>4. /\ Distinct(z) /\ \A x, y \in ToSet(s) : Earlier(z, x, y) <=> Earlier(s, x, y)
      /\ \A j \in 1..n : Earlier(z, s[j], id) <=> j < at
  BY <1>1, <1>2, InsertAtEarlier
<1>5. ASSUME NEW x \in ToSet(s), node[x].parent = parent
      PROVE  Earlier(z, x, id) <=> ComesAfter(s, after, x)
  BY <1>1, <1>5, <1>4 DEF ToSet, Siblings
<1> QED BY <1>2, <1>3, <1>4, <1>5 DEF PlacedIn

\* The anchor's successors, the end and the beginning of the siblings are.
LEMMA AfterAnchor ==
  ASSUME NEW K, NEW s \in Seq(K), Distinct(s), NEW x \in ToSet(s), NEW j \in 1..Len(s)
  PROVE  j < Position(s, x) + 1 <=> s[j] = x \/ Earlier(s, s[j], x)
BY LenProperties, PositionOf DEF Distinct, Earlier

\* To append is to put in after the end.
LEMMA AppendIsInsert ==
  ASSUME NEW K, NEW s \in Seq(K), NEW e \in K
  PROVE  Append(s, e) = InsertAt(s, Len(s) + 1, e)
<1>1. PICK n \in Nat : n = Len(s) /\ DOMAIN s = 1..n
  BY LenProperties
<1>2. PICK a, z : a = Append(s, e) /\ z = InsertAt(s, n + 1, e)
  BY Zenon
<1>3. a \in Seq(K) /\ Len(a) = n + 1 /\ a[n+1] = e /\ \A j \in 1..n : a[j] = s[j]
  BY <1>1, <1>2, AppendProperties
<1>4. n + 1 \in 1..(Len(s) + 1)
  BY <1>1
<1>5. z \in Seq(K) /\ DOMAIN z = 1..(n+1) /\ z[n+1] = e
  BY <1>1, <1>2, <1>4, InsertAtIs, InsertAtAt
<1>6. \A j \in 1..n : z[IF j < n + 1 THEN j ELSE j + 1] = s[j]
  BY <1>1, <1>2, <1>4, InsertAtAt
<1>7. \A j \in 1..n : j < n + 1
  OBVIOUS
<1>8. \A j \in 1..n : z[j] = s[j]
  BY <1>6, <1>7
<1>9. PICK m \in Nat : m = Len(z) /\ DOMAIN z = 1..m
  BY <1>5, LenProperties
<1>10. m = n + 1
  BY <1>5, <1>9
<1>11. \A j \in 1..(n+1) : a[j] = z[j]
  BY <1>3, <1>5, <1>8
<1>12. a = z
  BY <1>3, <1>5, <1>9, <1>10, <1>11, SeqEqual
<1> QED BY <1>1, <1>2, <1>12

\* The first and the last sibling, when there are any.
LEMMA Extremes ==
  ASSUME NEW K, NEW s \in Seq(K), NEW node, NEW parent, Siblings(node, s, parent) # {}
  PROVE  LET I == Siblings(node, s, parent)
         IN  /\ Min(I) \in I /\ Max(I) \in I
             /\ \A j \in I : j \in 1..Len(s) /\ Min(I) <= j /\ j <= Max(I)
<1>1. PICK n \in Nat : n = Len(s)
  BY LenProperties
<1>2. PICK I : I = Siblings(node, s, parent)
  OBVIOUS
<1>3. I \in SUBSET (1..n) /\ I \in SUBSET Nat /\ I # {}
  BY <1>1, <1>2 DEF Siblings
<1>4. Min(I) \in I /\ \A y \in I : Min(I) <= y
  BY <1>3, MinIs
<1>5. Max(I) \in I /\ \A y \in I : Max(I) >= y
  BY <1>3, MaxIs
<1>6. \A y \in I : y <= Max(I) /\ y \in 1..n
  BY <1>3, <1>5
<1> QED BY <1>1, <1>2, <1>4, <1>5, <1>6

\* An anchor is an element of the array with the parent.
Anchored(s, node, parent, after) ==
  /\ after \in Id \cup {AtStart, AtEnd}
  /\ after \in Id => after \in ToSet(s) /\ node[after].parent = parent

\* place() of the store.
LEMMA PlacePlaces ==
  ASSUME NEW K, NEW s \in Seq(K), Distinct(s), NEW id \in K \ ToSet(s),
         NEW node, NEW parent, NEW after, Anchored(s, node, parent, after)
  PROVE  PlacedIn(Place(node, s, id, parent, after), s, node, id, parent, after)
<1>1. PICK n \in Nat : n = Len(s) /\ DOMAIN s = 1..n
  BY LenProperties
<1>2. PICK I, p, at :
        /\ I = Siblings(node, s, parent) /\ p = Place(node, s, id, parent, after)
        /\ at = CASE after \in Id -> Position(s, after) + 1
                  [] after = AtEnd -> (IF I # {} THEN Max(I) ELSE 0) + 1
                  [] OTHER -> IF I # {} THEN Min(I) ELSE 0
  BY Zenon
<1>3. I = {} \equiv ~\E j \in DOMAIN s : node[s[j]].parent = parent
  BY <1>1, <1>2 DEF Siblings
<1>4. p = IF I = {} THEN Append(s, id) ELSE InsertAt(s, at, id)
  BY <1>1, <1>2, <1>3 DEF Place, Siblings, SelectInSeq, SelectLastInSeq
<1>5. CASE I = {}
  <2>1. p = InsertAt(s, Len(s) + 1, id)
    BY <1>4, <1>5, AppendIsInsert
  <2>2. Len(s) + 1 \in 1..(Len(s) + 1)
    BY <1>1
  <2> QED BY <1>2, <1>5, <2>1, <2>2, InsertAtPlaces
<1>6. CASE I # {}
  <2>1. /\ Min(I) \in I /\ Max(I) \in I
        /\ \A j \in I : j \in 1..n /\ Min(I) <= j /\ j <= Max(I)
    BY <1>1, <1>2, <1>6, Extremes
  <2>2. at \in 1..(n+1) /\ \A j \in I : j < at <=> ComesAfter(s, after, s[j])
    <3>1. CASE after \in Id
      <4>1. after \in ToSet(s)
        BY <3>1 DEF Anchored
      <4>2. at = Position(s, after) + 1
        BY <1>2, <3>1, AfterAssumption
      <4>3. Position(s, after) \in 1..n
        BY <1>1, <4>1, PositionOf
      <4>4. \A j \in I : j < at <=> s[j] = after \/ Earlier(s, s[j], after)
        BY <1>1, <2>1, <4>1, <4>2, AfterAnchor
      <4>5. after # AtEnd
        BY <3>1, AfterAssumption
      <4>6. \A x : ComesAfter(s, after, x) <=> x = after \/ Earlier(s, x, after)
        BY <3>1, <4>5 DEF ComesAfter
      <4>7. at \in 1..(n+1)
        BY <4>2, <4>3
      <4> QED BY <4>4, <4>6, <4>7
    <3>2. CASE after = AtEnd
      BY <1>2, <1>6, <3>2, AfterAssumption, <2>1 DEF ComesAfter
    <3>3. CASE after \notin Id /\ after # AtEnd
      BY <1>2, <1>6, <3>3, <2>1 DEF ComesAfter
    <3> QED BY <3>1, <3>2, <3>3
  <2>3. p = InsertAt(s, at, id)
    BY <1>4, <1>6
  <2>4. /\ at \in 1..(Len(s) + 1)
        /\ \A j \in Siblings(node, s, parent) : j < at <=> ComesAfter(s, after, s[j])
    BY <1>1, <1>2, <2>2
  <2> QED BY <1>2, <2>3, <2>4, InsertAtPlaces
<1> QED BY <1>5, <1>6

\* The search for the place in replay.
LEMMA PutAtPlaces ==
  ASSUME NEW doc, doc.order \in Seq(Id), Distinct(doc.order), NEW id \in Id \ ToSet(doc.order),
         NEW parent, NEW after, Anchored(doc.order, doc.node, parent, after)
  PROVE  PlacedIn(InsertAt(doc.order, PutAt(doc, parent, after), id),
                  doc.order, doc.node, id, parent, after)
<1>1. PICK s, n : s = doc.order /\ n = Len(s) /\ s \in Seq(Id) /\ n \in Nat /\ DOMAIN s = 1..n
  BY LenProperties
<1>2. PICK I, at, last, anchor :
        /\ I = Siblings(doc.node, s, parent) /\ at = PutAt(doc, parent, after)
        /\ last = IF I # {} THEN Max(I) ELSE 0
        /\ anchor = IF after = AtEnd /\ last # 0 THEN s[last] ELSE after
  BY Zenon
<1>3. at = CASE anchor \in Id -> Position(s, anchor) + 1
             [] anchor \notin Id /\ last # 0 -> IF I # {} THEN Min(I) ELSE 0
             [] OTHER -> Len(s) + 1
  BY Zenon, <1>1, <1>2 DEF PutAt, Siblings, SelectInSeq, SelectLastInSeq
<1>4. at \in 1..(n + 1)
  BY <1>1, <1>2, PutAtIs
<1>5. I # {} => /\ Min(I) \in I /\ Max(I) \in I
                /\ \A j \in I : j \in 1..n /\ Min(I) <= j /\ j <= Max(I)
  BY <1>1, <1>2, Extremes
<1>6. ASSUME NEW j \in I PROVE j < at <=> ComesAfter(s, after, s[j])
  <2>1. /\ Min(I) \in I /\ Max(I) \in I /\ j \in 1..n
        /\ Max(I) \in 1..n /\ Min(I) \in 1..n /\ Min(I) <= j /\ j <= Max(I)
    BY <1>5
  <2>2. last = Max(I) /\ last # 0 /\ I # {}
    BY <1>2, <2>1
  <2>3. CASE after \in Id
    BY <1>1, <2>3, <1>2, AfterAssumption, <1>3, <2>1, AfterAnchor DEF Anchored,
       ComesAfter
  <2>4. CASE after = AtEnd
    <3>1. anchor = s[last] /\ s[last] \in Id /\ s[last] \in ToSet(s)
      BY <1>1, <1>2, <2>1, <2>2, <2>4, ElementOfSeq DEF ToSet
    <3>2. at = Position(s, anchor) + 1
      BY <1>3, <3>1
    <3>3. j < at <=> s[j] = anchor \/ Earlier(s, s[j], anchor)
      BY <1>1, <2>1, <3>1, <3>2, AfterAnchor
    <3>4. j = last \/ j < last
      BY <2>1, <2>2
    <3>5. j < last => Earlier(s, s[j], anchor)
      BY <1>1, <2>1, <2>2, <3>1 DEF Earlier
    <3>6. j = last => s[j] = anchor
      BY <3>1
    <3>7. j < at
      BY <3>3, <3>4, <3>5, <3>6
    <3>8. ComesAfter(s, after, s[j])
      BY <2>4 DEF ComesAfter
    <3> QED BY <3>7, <3>8
  <2>5. CASE after \notin Id /\ after # AtEnd
    BY <1>2, <1>3, <2>2, <2>5, <2>1 DEF ComesAfter
  <2> QED BY <2>3, <2>4, <2>5
<1>7. /\ s \in Seq(Id) /\ Distinct(s) /\ id \in Id \ ToSet(s) /\ at \in 1..(Len(s) + 1)
      /\ \A j \in Siblings(doc.node, s, parent) : j < at <=> ComesAfter(s, after, s[j])
  BY <1>1, <1>2, <1>4, <1>6
<1>8. PlacedIn(InsertAt(s, at, id), s, doc.node, id, parent, after)
  BY <1>7, InsertAtPlaces
<1> QED BY <1>1, <1>2, <1>8

-----------------------------------------------------------------------------
(* Arrays that make the same tree *)

\* The array names each node once.
Neat(doc, K) ==
  doc.order \in Seq(K) /\ Distinct(doc.order) /\ ToSet(doc.order) = DOMAIN doc.node

\* The same nodes, and the siblings in the same order.
Alike(d, w) ==
  /\ ToSet(d.order) = ToSet(w.order)
  /\ \A n \in ToSet(w.order) : /\ d.node[n].parent = w.node[n].parent
                               /\ d.node[n].val = w.node[n].val
  /\ \A x, y \in ToSet(w.order) : w.node[x].parent = w.node[y].parent =>
       (Earlier(d.order, x, y) <=> Earlier(w.order, x, y))

\* A child the walk has not visited.
Left(doc, seen, p, c) ==
  c \in ToSet(doc.order) \ ToSet(seen) /\ doc.node[c].parent = p

LEMMA LeftIs ==
  ASSUME NEW doc, NEW seen, NEW p
  PROVE  Unvisited(doc, seen, p) # {} <=> \E c : Left(doc, seen, p, c)
BY DEF Unvisited, Left, ToSet

\* The walk goes to the first of them.
LEMMA FirstLeft ==
  ASSUME NEW K, NEW doc, doc.order \in Seq(K), NEW seen, NEW p,
         Unvisited(doc, seen, p) # {}
  PROVE  LET c == doc.order[Min(Unvisited(doc, seen, p))]
         IN  /\ Left(doc, seen, p, c)
             /\ \A x : Left(doc, seen, p, x) /\ x # c => Earlier(doc.order, c, x)
<1>1. PICK n \in Nat : DOMAIN doc.order = 1..n
  BY LenProperties
<1>2. PICK U : U = Unvisited(doc, seen, p)
  OBVIOUS
<1>3. U = {k \in 1..n : doc.node[doc.order[k]].parent = p /\ doc.order[k] \notin ToSet(seen)}
  BY <1>1, <1>2 DEF Unvisited
<1>4. U \in SUBSET Nat /\ U # {}
  BY <1>2, <1>3
<1>5. Min(U) \in U /\ \A k \in U : Min(U) <= k
  BY <1>4, MinIs
<1>6. PICK m, c : m \in 1..n /\ m = Min(U) /\ c = doc.order[m] /\ m \in U
  BY Zenon, <1>3, <1>5
<1>7. Left(doc, seen, p, c)
  BY Zenon, <1>1, <1>3, <1>6 DEF Left, ToSet
<1>8. ASSUME NEW x, Left(doc, seen, p, x), x # c PROVE Earlier(doc.order, c, x)
  <2>1. PICK k \in 1..n : doc.order[k] = x
    BY <1>1, <1>8 DEF Left, ToSet
  <2>2. k \in U
    BY <1>3, <1>8, <2>1 DEF Left
  <2>3. m < k
    BY <1>5, <1>6, <1>8, <2>1, <2>2
  <2> QED BY <1>1, <1>6, <2>1, <2>3 DEF Earlier
<1> QED BY <1>2, <1>6, <1>7, <1>8

\* So it goes the same way over both.
LEMMA AlikeVisit ==
  ASSUME NEW K, NEW d, NEW w, Neat(d, K), Neat(w, K), Alike(d, w),
         NEW seen \in Seq(ToSet(w.order))
  PROVE  Visit(d, seen) = Visit(w, seen)
<1>1. PICK T : T = ToSet(w.order) /\ T = ToSet(d.order)
  BY DEF Alike
<1>2. \A p, c : Left(d, seen, p, c) <=> Left(w, seen, p, c)
  BY <1>1 DEF Left, Alike
<1>3. \A p : Unvisited(d, seen, p) # {} <=> Unvisited(w, seen, p) # {}
  BY <1>2, LeftIs
<1>4. LastOpen(d, seen) = LastOpen(w, seen)
  <2>1. {i \in DOMAIN PathTo(seen) : Unvisited(d, seen, PathTo(seen)[i]) # {}} =
        {i \in DOMAIN PathTo(seen) : Unvisited(w, seen, PathTo(seen)[i]) # {}}
    BY <1>3
  <2> QED BY <2>1 DEF LastOpen
<1>5. Closed(d, seen) <=> Closed(w, seen)
  BY <1>3 DEF Closed
<1>6. d.order \in Seq(K) /\ w.order \in Seq(K) /\ seen \in Seq(K)
  BY <1>1, ToSetIn, SeqMonotonic DEF Neat
<1>7. CASE Closed(w, seen)
  BY Zenon, <1>5, <1>6, <1>7, VisitIs
<1>8. CASE ~Closed(w, seen)
  <2>1. PICK p : p = LastOpen(w, seen) /\ p = LastOpen(d, seen)
    BY <1>4
  <2>2. PICK b, c : /\ b = d.order[Min(Unvisited(d, seen, p))]
                    /\ c = w.order[Min(Unvisited(w, seen, p))]
    OBVIOUS
  <2>3. Unvisited(d, seen, p) # {} /\ Visit(d, seen) = Append(seen, b)
    <3>1. ~Closed(d, seen)
      BY <1>5, <1>8
    <3> QED BY Zenon, <1>6, <2>1, <2>2, <3>1, VisitIs DEF GoesTo
  <2>4. Unvisited(w, seen, p) # {} /\ Visit(w, seen) = Append(seen, c)
    BY Zenon, <1>6, <1>8, <2>1, <2>2, VisitIs DEF GoesTo
  <2>5. /\ Left(d, seen, p, b)
        /\ \A x : Left(d, seen, p, x) /\ x # b => Earlier(d.order, b, x)
    BY Zenon, <1>6, <2>2, <2>3, FirstLeft
  <2>6. /\ Left(w, seen, p, c)
        /\ \A x : Left(w, seen, p, x) /\ x # c => Earlier(w.order, c, x)
    BY <1>6, <2>2, <2>4, FirstLeft
  <2>7. b = c
    BY <1>2, <2>5, <2>6, <1>1, <1>6, EarlierOrder DEF Left, Alike, Neat
  <2> QED BY <2>3, <2>4, <2>7
<1> QED BY <1>7, <1>8

LEMMA AlikeTree ==
  ASSUME NEW K, NEW d, NEW w, Neat(d, K), Neat(w, K), Alike(d, w)
  PROVE  ToItems(d) = ToItems(w)
<1>1. PICK T : T = ToSet(w.order) /\ T = ToSet(d.order)
  BY DEF Alike
<1>2. d.order \in Seq(K) /\ w.order \in Seq(K)
  BY DEF Neat
<1>3. PICK n \in Nat : n = Len(w.order) /\ n = Len(d.order)
  <2>1. Len(d.order) = Len(w.order)
    BY <1>1, <1>2, SameLength DEF Neat
  <2> QED BY <1>2, <2>1, LenProperties
<1>4. PICK g : Walk(d, g, n) /\ DepthFirst(d) = g[n]
  BY <1>2, <1>3, DepthFirstIs
<1>5. PICK h : Walk(w, h, n) /\ DepthFirst(w) = h[n]
  BY Zenon, <1>2, <1>3, DepthFirstIs
<1>6. \A k \in 0..n : Visited(w, h[k], k)
  BY <1>2, <1>5, WalkIs
<1>7. PICK U : U = {k \in Nat : k <= n => g[k] = h[k]}
  BY Zenon
<1>8. 0 \in U
  BY <1>4, <1>5, <1>7 DEF Walk
<1>9. ASSUME NEW k \in Nat, k \in U PROVE k + 1 \in U
  <2>1. CASE k + 1 <= n
    BY <2>1, <1>7, <1>9, <1>4, <1>5, <1>6, AlikeVisit DEF Walk, Visited
  <2> QED BY <1>7, <2>1
<1>10. n \in U
  BY <1>8, <1>9, NatSetInduction
<1>11. PICK s : s = DepthFirst(w) /\ s = DepthFirst(d)
  BY <1>4, <1>5, <1>7, <1>10
<1>12. ToSet(s) \subseteq T
  <2>1. s \in Seq(T)
    <3>1. n \in 0..n
      OBVIOUS
    <3>2. Visited(w, s, n)
      BY <1>5, <1>6, <1>11, <3>1
    <3> QED BY <1>1, <3>2 DEF Visited
  <2> QED BY <2>1, ToSetIn
<1>13. \A m \in ToSet(s) : d.node[m].parent = w.node[m].parent /\ d.node[m].val = w.node[m].val
  BY <1>1, <1>12 DEF Alike
<1>14. [m \in ToSet(s) |-> [parent |-> d.node[m].parent, val |-> d.node[m].val]] =
       [m \in ToSet(s) |-> [parent |-> w.node[m].parent, val |-> w.node[m].val]]
  BY <1>13
<1> QED BY <1>11, <1>14 DEF ToItems

\* Every node of a forest is visited, and siblings in the order of the array.
LEMMA ForestTree ==
  ASSUME NEW K, NEW w, Neat(w, K), Forest(w.node)
  PROVE  Neat(ToItems(w), K) /\ Alike(ToItems(w), w)
<1>1. PICK T : T = ToSet(w.order) /\ T = DOMAIN w.node /\ w.order \in Seq(K)
  BY DEF Neat
<1>2. PICK items, s : items = ToItems(w) /\ s = DepthFirst(w)
  OBVIOUS
<1>3. /\ IsTree(items) /\ items.order = s /\ ToSet(s) \subseteq T
      /\ \A n \in ToSet(s) : /\ items.node[n].val = w.node[n].val
                             /\ items.node[n].parent = w.node[n].parent
  <2>1. w.order \in Seq(K)
    BY <1>1
  <2>2. IsTree(items) /\ items.order = s /\ ToSet(items.order) \subseteq T
    BY <1>1, <1>2, <2>1, ToItemsIs
  <2>3. \A n \in ToSet(items.order) : /\ items.node[n].val = w.node[n].val
                                     /\ items.node[n].parent = w.node[n].parent
    BY <1>2, <2>1, ToItemsIs
  <2> QED BY <2>2, <2>3
<1>4. PICK g : Walked(w, g, s)
  BY <1>1, <1>2, DepthFirstEnds
<1>5. s \in Seq(T) /\ Distinct(s) /\ Closed(w, s)
  BY <1>1, <1>4 DEF Walked, Visited
<1>6. PICK m \in Nat : m = Len(s) /\ DOMAIN s = 1..m
  BY <1>5, LenProperties
<1>7. T \subseteq ToSet(s)
  <2>1. PICK S : S = T \ ToSet(s)
    BY Zenon
  <2>2. \A n \in S : w.node[n].parent \in S
    <3> SUFFICES ASSUME NEW n \in S PROVE w.node[n].parent \in S
      OBVIOUS
    <3>1. PICK p : p = w.node[n].parent
      OBVIOUS
    <3>2. p \in T \cup {Root}
      BY <1>1, <2>1, <3>1 DEF Forest, ParentsExist
    <3>3. Left(w, s, p, n)
      BY <1>1, <2>1, <3>1 DEF Left
    <3>4. Unvisited(w, s, p) # {}
      BY <3>3, LeftIs
    <3>5. p \notin {Root} \cup ToSet(s)
      BY <1>5, <3>4 DEF Closed
    <3> QED BY <2>1, <3>1, <3>2, <3>5
  <2>3. S \in SUBSET DOMAIN w.node
    BY <1>1, <2>1
  <2>4. S = {}
    BY <2>2, <2>3 DEF Forest, Acyclic
  <2> QED BY <2>1, <2>4
<1>8. ToSet(s) = T
  BY Zenon, <1>3, <1>7
<1>9. ASSUME NEW x, NEW y, Earlier(s, x, y), w.node[x].parent = w.node[y].parent
      PROVE  Earlier(w.order, x, y)
  <2>1. PICK i, j \in 1..m : i < j /\ s[i] = x /\ s[j] = y
    BY <1>6, <1>9 DEF Earlier
  <2>2. i - 1 \in Nat /\ i - 1 \in 0..m /\ i \in 0..m /\ i \in 1..m
    BY <2>1
  <2>3. PICK z : z = g[i-1]
    OBVIOUS
  <2>4. z \in Seq(T) /\ Len(z) = i - 1 /\ \A l \in 1..(i-1) : z[l] = s[l]
    BY Zenon, <1>1, <1>4, <1>6, <2>2, <2>3 DEF Walked
  <2>5. g[i] \in Seq(T) /\ Len(g[i]) = i /\ g[i] = Visit(w, z)
    BY <1>1, <1>4, <1>6, <2>2, <2>3 DEF Walked, Walk
  <2>6. g[i][i] = x
    BY <1>4, <1>6, <2>2, <2>1 DEF Walked
  <2>7. Visit(w, z) # z
    BY <2>4, <2>5
  <2>8. PICK p : /\ p = LastOpen(w, z) /\ Unvisited(w, z, p) # {}
                 /\ Visit(w, z) = Append(z, w.order[Min(Unvisited(w, z, p))])
    <3>1. w.order \in Seq(T)
      BY Zenon, <1>1, SeqOfItsElements
    <3> QED BY <2>4, <2>7, <3>1, VisitIs DEF GoesTo
  <2>9. PICK c : c = w.order[Min(Unvisited(w, z, p))]
    OBVIOUS
  <2>10. /\ Left(w, z, p, c)
         /\ \A v : Left(w, z, p, v) /\ v # c => Earlier(w.order, c, v)
    BY <1>1, <2>8, <2>9, FirstLeft
  <2>11. c = x
    <3>1. c \in T
      BY <1>1, <2>10 DEF Left
    <3>2. Append(z, c)[(i - 1) + 1] = c
      BY <2>4, <3>1, AppendProperties
    <3>3. (i - 1) + 1 = i
      BY <2>2
    <3> QED BY <2>5, <2>6, <2>8, <2>9, <3>2, <3>3
  <2>12. y \notin ToSet(z)
    BY <2>4, LenProperties, <2>1, <2>2, <1>5, <1>6 DEF ToSet, Distinct
  <2>13. Left(w, z, p, y) /\ y # x
    <3>1. y \in T
      BY <1>9, <1>8, EarlierIn
    <3>2. w.node[y].parent = p
      BY <1>9, <2>10, <2>11 DEF Left
    <3>3. y # x
      BY <1>5, <1>6, <2>1 DEF Distinct
    <3> QED BY <1>1, <2>12, <3>1, <3>2, <3>3 DEF Left
  <2> QED BY <2>10, <2>11, <2>13
<1>10. ASSUME NEW x \in T, NEW y \in T, w.node[x].parent = w.node[y].parent
       PROVE  Earlier(s, x, y) <=> Earlier(w.order, x, y)
  <2>1. CASE Earlier(s, x, y)
    BY <1>9, <1>10, <2>1
  <2>2. CASE Earlier(s, y, x)
    BY <1>9, <1>10, <2>2, <1>1, EarlierOrder, <1>5 DEF Neat
  <2>3. CASE x = y
    <3>1. ~Earlier(s, x, x)
      BY <1>5, EarlierOrder
    <3>2. ~Earlier(w.order, x, x)
      BY <1>1, EarlierOrder DEF Neat
    <3> QED BY <2>3, <3>1, <3>2
  <2> QED BY <1>5, <1>8, <2>1, <2>2, <2>3, EarlierOrder
<1>11. Alike(items, w)
  BY <1>1, <1>3, <1>8, <1>10 DEF Alike
<1>12. Neat(items, K)
  <2>1. DOMAIN items.node = ToSet(s)
    BY <1>3, TreeIsDoc
  <2>2. s \in Seq(K)
    <3>1. T \subseteq K
      BY Zenon, <1>1, ToSetIn
    <3> QED BY <1>5, <3>1, SeqMonotonic
  <2> QED BY <1>3, <1>5, <2>1, <2>2 DEF Neat
<1> QED BY <1>2, <1>11, <1>12

\* The array b is d with a node put at a place, with a text.
PutsIn(b, d, id, parent, after, val) ==
  /\ b.order \in Seq(Id)
  /\ Anchored(Rest(d.order, {id}), d.node, parent, after)
  /\ PlacedIn(b.order, Rest(d.order, {id}), d.node, id, parent, after)
  /\ \A n \in ToSet(d.order) \ {id} : /\ b.node[n].parent = d.node[n].parent
                                       /\ b.node[n].val = d.node[n].val
  /\ b.node[id].parent = parent /\ b.node[id].val = val

\* A node put at the same place among the same siblings.
LEMMA AlikePlaced ==
  ASSUME NEW d, NEW w, Neat(d, Id), Neat(w, Id), Alike(d, w),
         NEW id \in Id, NEW parent, NEW after, NEW val,
         NEW b, PutsIn(b, d, id, parent, after, val),
         NEW z, PutsIn(z, w, id, parent, after, val)
  PROVE  Alike(b, z)
<1>1. PICK T : T = ToSet(w.order) /\ T = ToSet(d.order)
  BY DEF Alike
<1>2. PICK r, s : r = Rest(d.order, {id}) /\ s = Rest(w.order, {id})
  OBVIOUS
<1>3. /\ ToSet(r) = T \ {id} /\ ToSet(s) = T \ {id}
      /\ \A x, y \in T \ {id} : Earlier(r, x, y) <=> Earlier(d.order, x, y)
      /\ \A x, y \in T \ {id} : Earlier(s, x, y) <=> Earlier(w.order, x, y)
  <2>1. /\ d.order \in Seq(Id) /\ Distinct(d.order)
        /\ w.order \in Seq(Id) /\ Distinct(w.order)
    BY DEF Neat
  <2>2. ToSet(r) = T \ {id} /\ ToSet(s) = T \ {id}
    <3>1. ToSet(r) = ToSet(d.order) \ {id}
      BY <1>2, <2>1, RestIs
    <3>2. ToSet(s) = ToSet(w.order) \ {id}
      BY <1>2, <2>1, RestIs
    <3> QED BY <1>1, <3>1, <3>2
  <2>3. \A x, y : Earlier(r, x, y) <=>
                    Earlier(d.order, x, y) /\ x \notin {id} /\ y \notin {id}
    BY <1>2, <2>1, RestEarlier
  <2>4. \A x, y : Earlier(s, x, y) <=>
                    Earlier(w.order, x, y) /\ x \notin {id} /\ y \notin {id}
    BY <1>2, <2>1, RestEarlier
  <2> QED BY <2>2, <2>3, <2>4
<1>4. \A x, y \in T \ {id} : w.node[x].parent = w.node[y].parent =>
        (Earlier(r, x, y) <=> Earlier(s, x, y))
  BY <1>1, <1>3 DEF Alike
<1>5. /\ ToSet(b.order) = T \cup {id} /\ Distinct(b.order) /\ b.order \in Seq(Id)
      /\ \A x, y \in T \ {id} : Earlier(b.order, x, y) <=> Earlier(r, x, y)
      /\ \A x \in T \ {id} :
           d.node[x].parent = parent => (Earlier(b.order, x, id) <=> ComesAfter(r, after, x))
  BY Zenon, <1>2, <1>3 DEF PutsIn, PlacedIn
<1>6. /\ ToSet(z.order) = T \cup {id} /\ Distinct(z.order) /\ z.order \in Seq(Id)
      /\ \A x, y \in T \ {id} : Earlier(z.order, x, y) <=> Earlier(s, x, y)
      /\ \A x \in T \ {id} :
           w.node[x].parent = parent => (Earlier(z.order, x, id) <=> ComesAfter(s, after, x))
  BY Zenon, <1>2, <1>3 DEF PutsIn, PlacedIn
<1>7. \A n \in T \ {id} : /\ b.node[n].parent = w.node[n].parent
                          /\ z.node[n].parent = w.node[n].parent
                          /\ d.node[n].parent = w.node[n].parent
                          /\ b.node[n].val = z.node[n].val
  BY <1>1 DEF Alike, PutsIn
<1>8. ASSUME NEW x \in T \ {id}, w.node[x].parent = parent
      PROVE  Earlier(b.order, x, id) <=> Earlier(z.order, x, id)
  <2>1. ComesAfter(r, after, x) <=> ComesAfter(s, after, x)
    <3>1. CASE after \in Id
      BY Zenon, <1>2, <1>3, <3>1, <1>4, <1>8 DEF PutsIn, Anchored, ComesAfter
    <3>2. CASE after \notin Id
      BY <3>2 DEF ComesAfter
    <3> QED BY <3>1, <3>2
  <2> QED BY <1>5, <1>6, <1>7, <1>8, <2>1
<1>9. ASSUME NEW x \in T \cup {id}, NEW y \in T \cup {id},
             z.node[x].parent = z.node[y].parent
      PROVE  Earlier(b.order, x, y) <=> Earlier(z.order, x, y)
  <2>1. CASE x # id /\ y # id
    <3>1. x \in T \ {id} /\ y \in T \ {id} /\ w.node[x].parent = w.node[y].parent
      BY <1>7, <1>9, <2>1
    <3> QED BY <1>4, <1>5, <1>6, <3>1
  <2>2. CASE x # id /\ y = id
    BY <1>7, <1>8, <1>9, <2>2 DEF PutsIn
  <2>3. CASE x = id /\ y # id
    BY <1>7, <1>8, <1>9, <2>3, <1>5, EarlierOrder, <1>6 DEF PutsIn
  <2>4. CASE x = id /\ y = id
    <3>1. ~Earlier(b.order, id, id) /\ ~Earlier(z.order, id, id)
      BY <1>5, <1>6, EarlierOrder
    <3> QED BY <2>4, <3>1
  <2> QED BY <2>1, <2>2, <2>3, <2>4
<1>10. \A n \in T \cup {id} : /\ b.node[n].parent = z.node[n].parent
                              /\ b.node[n].val = z.node[n].val
  BY <1>7 DEF PutsIn
<1> QED BY <1>5, <1>6, <1>9, <1>10 DEF Alike

\* The same nodes taken out.
LEMMA AlikeRest ==
  ASSUME NEW K, NEW d, NEW w, Neat(d, K), Neat(w, K), Alike(d, w), NEW ids,
         NEW b, NEW z, b.order = Rest(d.order, ids), z.order = Rest(w.order, ids),
         \A n \in ToSet(w.order) \ ids :
           /\ b.node[n].parent = d.node[n].parent /\ b.node[n].val = d.node[n].val
           /\ z.node[n].parent = w.node[n].parent /\ z.node[n].val = w.node[n].val
  PROVE  Alike(b, z)
<1>1. PICK T : T = ToSet(w.order) /\ T = ToSet(d.order)
  BY DEF Alike
<1>2. /\ d.order \in Seq(K) /\ Distinct(d.order)
      /\ w.order \in Seq(K) /\ Distinct(w.order)
  BY DEF Neat
<1>3. ToSet(b.order) = T \ ids /\ ToSet(z.order) = T \ ids
  <2>1. ToSet(Rest(d.order, ids)) = ToSet(d.order) \ ids
    BY <1>2, RestIs
  <2>2. ToSet(Rest(w.order, ids)) = ToSet(w.order) \ ids
    BY <1>2, RestIs
  <2> QED BY <1>1, <2>1, <2>2
<1>4. \A x, y : Earlier(b.order, x, y) <=>
                  Earlier(d.order, x, y) /\ x \notin ids /\ y \notin ids
  BY <1>2, RestEarlier
<1>5. \A x, y : Earlier(z.order, x, y) <=>
                  Earlier(w.order, x, y) /\ x \notin ids /\ y \notin ids
  BY <1>2, RestEarlier
<1>6. \A n \in T \ ids : /\ b.node[n].parent = z.node[n].parent
                         /\ b.node[n].val = z.node[n].val
                         /\ z.node[n].parent = w.node[n].parent
  BY <1>1 DEF Alike
<1>7. \A x, y \in T \ ids : z.node[x].parent = z.node[y].parent =>
        (Earlier(b.order, x, y) <=> Earlier(z.order, x, y))
  BY <1>1, <1>4, <1>5, <1>6 DEF Alike
<1> QED BY <1>3, <1>6, <1>7 DEF Alike

\* The descendants are those of the parents.
LEMMA SameDescendants ==
  ASSUME NEW f, NEW h, NEW id, DOMAIN f = DOMAIN h,
         \A n \in DOMAIN f : f[n].parent = h[n].parent
  PROVE  DescendantIds(f, id) = DescendantIds(h, id)
BY DEF DescendantIds, ClosedUnderChildren

\* An operation, whatever the text it writes,
Said(op) ==
  /\ IsOp(op, Id)
  /\ op.type \in {"insert", "move"} => op.parent \in Parent /\ op.after \in After

LEMMA OpSaid ==
  ASSUME NEW op \in Op
  PROVE  Said(op)
BY DEF Op, InsertOp, UpdateOp, MoveOp, DeleteOp, IsOp, Said

\* and a node, whatever its text.
Holds(f, D) ==
  /\ f = [n \in D |-> f[n]]
  /\ \A n \in D : /\ f[n] = [parent |-> f[n].parent, val |-> f[n].val,
                               changedAt |-> f[n].changedAt]
                   /\ f[n].changedAt \in Rev

LEMMA NodesHold ==
  ASSUME NEW D, NEW f \in [D -> Node]
  PROVE  Holds(f, D)
BY DEF Holds, Node

\* An outline with each node once in its array.
IsArray(w) ==
  IsOutline(w, Id) /\ Neat(w, Id) /\ Holds(w.node, DOMAIN w.node)

\* A node that is put somewhere is taken out first; replay does so for a new
\* one as well.
LEMMA PlacedRest ==
  ASSUME NEW K, NEW s \in Seq(K), Distinct(s), NEW id, id \notin ToSet(s),
         NEW z, NEW node, NEW parent, NEW after, Anchored(s, node, parent, after),
         PlacedIn(z, s, node, id, parent, after)
  PROVE  /\ PlacedIn(z, Rest(s, {id}), node, id, parent, after)
         /\ Anchored(Rest(s, {id}), node, parent, after)
<1>1. PICK r : r = Rest(s, {id})
  OBVIOUS
<1>2. ToSet(r) = ToSet(s)
  <2>1. ToSet(r) = ToSet(s) \ {id}
    BY <1>1, RestIs
  <2> QED BY <2>1
<1>3. \A x, y \in ToSet(s) : Earlier(r, x, y) <=> Earlier(s, x, y)
  BY <1>1, RestEarlier
<1>4. \A x \in ToSet(s) : ComesAfter(r, after, x) <=> ComesAfter(s, after, x)
  BY <1>3 DEF ComesAfter, Anchored
<1>5. /\ ToSet(z) = ToSet(r) \cup {id} /\ Distinct(z)
      /\ \A x, y \in ToSet(r) : Earlier(z, x, y) <=> Earlier(r, x, y)
      /\ \A x \in ToSet(r) :
           node[x].parent = parent => (Earlier(z, x, id) <=> ComesAfter(r, after, x))
  BY <1>2, <1>3, <1>4 DEF PlacedIn
<1>6. PlacedIn(z, r, node, id, parent, after)
  BY <1>5 DEF PlacedIn
<1> QED BY <1>1, <1>2, <1>6 DEF Anchored

\* Only the parents of the siblings matter.
LEMMA PlacedSame ==
  ASSUME NEW z, NEW s, NEW id, NEW parent, NEW after, NEW f, NEW h,
         \A n \in ToSet(s) : f[n].parent = h[n].parent
  PROVE  /\ Anchored(s, f, parent, after) <=> Anchored(s, h, parent, after)
         /\ PlacedIn(z, s, f, id, parent, after) <=> PlacedIn(z, s, h, id, parent, after)
BY DEF Anchored, PlacedIn

\* A node put into the array of a tab.
LEMMA PutPlaces ==
  ASSUME NEW d, IsDoc(d, Id), Distinct(d.order), NEW id \in Id, NEW parent, NEW val,
         NEW after, Anchored(Rest(d.order, {id}), d.node, parent, after)
  PROVE  LET b == Put(d, id, parent, val, after)
         IN  IsDoc(b, Id) /\ PutsIn(b, d, id, parent, after, val)
<1>1. PICK b, r : b = Put(d, id, parent, val, after) /\ r = Drop(d, {id})
  OBVIOUS
<1>2. /\ IsDoc(b, Id) /\ \A n \in DOMAIN d.node \ {id} : b.node[n] = d.node[n]
  BY <1>1, PutIs
<1>3. /\ r = [node |-> Without(d.node, {id}), order |-> Rest(d.order, {id})]
      /\ b = [node |-> With(r.node, id, [parent |-> parent, val |-> val]),
              order |-> InsertAt(r.order, PutAt(r, parent, after), id)]
  BY <1>1 DEF Put, Drop
<1>4. b.node[id] = [parent |-> parent, val |-> val]
  BY <1>3 DEF With
<1>5. d.order \in Seq(Id) /\ DOMAIN d.node = ToSet(d.order)
  BY IsDocIn DEF IsDoc
<1>6. /\ r.order = Rest(d.order, {id}) /\ r.order \in Seq(Id) /\ Distinct(r.order)
      /\ ToSet(r.order) = ToSet(d.order) \ {id}
  BY <1>3, <1>5, RestIs, RestEarlier
<1>7. \A n \in ToSet(r.order) : r.node[n].parent = d.node[n].parent
  BY Zenon, <1>3, <1>5, <1>6 DEF Without
<1>8. Anchored(r.order, r.node, parent, after)
  <2>1. Anchored(r.order, d.node, parent, after)
    BY <1>6
  <2> QED BY <1>7, <2>1, PlacedSame
<1>9. PlacedIn(b.order, r.order, r.node, id, parent, after)
  BY Zenon, <1>3, <1>6, <1>8, PutAtPlaces
<1>10. PlacedIn(b.order, r.order, d.node, id, parent, after)
  BY <1>7, <1>9, PlacedSame
<1>11. b.order \in Seq(Id) /\ b.node[id].parent = parent /\ b.node[id].val = val
  BY <1>2, <1>4 DEF IsDoc
<1> QED BY <1>1, <1>2, <1>5, <1>6, <1>10, <1>11 DEF PutsIn

\* And a node put into the array of the store.
LEMMA EffectPlaces ==
  ASSUME NEW w, IsArray(w), NEW op, Said(op), op.type \in {"insert", "move"},
         NEW initial, NEW base, Accepts(op, w, initial, base), NEW rev \in Nat
  PROVE  LET z == Effect(op, w, rev)
             val == IF op.type = "insert" THEN op.val ELSE w.node[op.id].val
         IN  /\ Anchored(Rest(w.order, {op.id}), w.node, op.parent, op.after)
             /\ PlacedIn(z.order, Rest(w.order, {op.id}), w.node, op.id, op.parent, op.after)
             /\ z.node = With(w.node, op.id,
                  [parent |-> op.parent, val |-> val, changedAt |-> rev])
<1>1. PICK node, s, tombs : node = w.node /\ s = w.order /\ tombs = w.tombs
  OBVIOUS
<1>2. PICK D : D = DOMAIN node /\ D = ToSet(s)
  BY <1>1 DEF IsArray, Neat
<1>3. /\ w = [node |-> node, order |-> s, tombs |-> tombs]
      /\ s \in Seq(Id) /\ Distinct(s) /\ Holds(node, D)
  BY <1>1, <1>2 DEF IsArray, IsOutline, Neat
<1>4. PICK z, id, r : z = Effect(op, w, rev) /\ id = op.id /\ r = Rest(s, {id})
  BY Zenon
<1>5. id \in Id /\ op.parent \in Parent /\ op.after \in After
  BY <1>4 DEF Said, IsOp
<1>6. r \in Seq(Id) /\ ToSet(r) = D \ {id} /\ Distinct(r)
  BY <1>3, <1>4, RestIs, RestEarlier, <1>2
<1>7. CASE op.type = "insert"
  <2>1. id \notin D /\ CanPlace(node, id, op.parent, op.after)
    BY <1>1, <1>2, <1>4, <1>7 DEF Accepts
  <2>3. PICK v, x, y : /\ v = [parent |-> op.parent, val |-> op.val, changedAt |-> rev]
                       /\ x = With(node, id, v)
                       /\ y = Place(node, s, id, op.parent, op.after)
    BY Zenon
  <2>4. z = [w EXCEPT !.node = x, !.order = y]
    BY <1>1, <1>4, <1>7, <2>3 DEF Effect, Inserted
  <2>5. z.node = x /\ z.order = y
    BY <1>3, <2>4
  <2>6. Anchored(s, node, op.parent, op.after)
    BY <1>2, <1>5, <2>1 DEF Anchored, CanPlace, After
  <2>7. id \in Id \ ToSet(s)
    BY <1>2, <1>5, <2>1
  <2>8. PlacedIn(y, s, node, id, op.parent, op.after)
    BY <1>3, <2>3, <2>6, <2>7, PlacePlaces
  <2>9. /\ PlacedIn(y, r, node, id, op.parent, op.after)
        /\ Anchored(r, node, op.parent, op.after)
    BY <1>3, <1>4, <2>6, <2>7, <2>8, PlacedRest
  <2> QED BY <1>1, <1>4, <1>7, <2>3, <2>5, <2>9
<1>8. CASE op.type = "move"
  <2>1. id \in D /\ CanPlace(Without(node, {id}), id, op.parent, op.after)
    BY <1>1, <1>2, <1>4, <1>8 DEF Accepts
  <2>2. PICK f : f = Without(node, {id})
    OBVIOUS
  <2>3. DOMAIN f = D \ {id} /\ \A n \in D \ {id} : f[n] = node[n]
    BY Zenon, <1>2, <2>2 DEF Without
  <2>4. PICK v, x, y : /\ v = [node[id] EXCEPT !.parent = op.parent, !.changedAt = rev]
                       /\ x = With(f, id, v)
                       /\ y = Place(f, r, id, op.parent, op.after)
    OBVIOUS
  <2>5. z = [w EXCEPT !.node = x, !.order = y]
    BY <1>1, <1>4, <1>8, <2>2, <2>4 DEF Effect, Moved
  <2>6. z.node = x /\ z.order = y
    BY <1>3, <2>5
  <2>7. Anchored(r, f, op.parent, op.after)
    BY <1>5, <1>6, <2>1, <2>2, <2>3 DEF Anchored, CanPlace, After
  <2>8. id \in Id \ ToSet(r)
    BY <1>5, <1>6
  <2>9. PlacedIn(y, r, f, id, op.parent, op.after)
    BY <1>6, <2>4, <2>7, <2>8, PlacePlaces
  <2>10. \A n \in ToSet(r) : f[n].parent = node[n].parent
    BY <1>6, <2>3
  <2>11. /\ PlacedIn(y, r, node, id, op.parent, op.after)
         /\ Anchored(r, node, op.parent, op.after)
    BY <2>7, <2>9, <2>10, PlacedSame
  <2>12. PICK x1, x2, x3 : node[id] = [parent |-> x1, val |-> x2, changedAt |-> x3]
    BY <1>3, <2>1 DEF Holds
  <2>13. v = [parent |-> op.parent, val |-> node[id].val, changedAt |-> rev]
    BY Zenon, <2>4, <2>12
  <2>14. x = With(node, id, v)
    BY <2>3, <2>4, <1>2 DEF With
  <2> QED BY Zenon, <1>1, <1>4, <1>8, <2>4, <2>6, <2>11, <2>13, <2>14
<1> QED BY <1>7, <1>8

\* What an operation the store accepts makes of its outline.
LEMMA EffectIsArray ==
  ASSUME NEW w, IsArray(w), NEW op, Said(op), NEW initial, NEW base,
         Accepts(op, w, initial, base), NEW rev \in Nat
  PROVE  /\ IsArray(Effect(op, w, rev))
         /\ op.type = "update" =>
              /\ DOMAIN Effect(op, w, rev).node = DOMAIN w.node
              /\ Effect(op, w, rev).order = w.order
              /\ \A n \in DOMAIN w.node :
                   /\ Effect(op, w, rev).node[n].parent = w.node[n].parent
                   /\ Effect(op, w, rev).node[n].val =
                        IF n = op.id THEN op.val ELSE w.node[n].val
         /\ op.type = "delete" =>
              /\ Effect(op, w, rev).order = Rest(w.order, DescendantIds(w.node, op.id))
              /\ \A n \in DOMAIN w.node \ DescendantIds(w.node, op.id) :
                   Effect(op, w, rev).node[n] = w.node[n]
<1>1. PICK node, s, tombs : node = w.node /\ s = w.order /\ tombs = w.tombs
  OBVIOUS
<1>2. PICK D : D = DOMAIN node /\ D = ToSet(s)
  BY <1>1 DEF IsArray, Neat
<1>3. /\ w = [node |-> node, order |-> s, tombs |-> tombs]
      /\ s \in Seq(Id) /\ Distinct(s) /\ Holds(node, D)
  BY <1>1, <1>2 DEF IsArray, IsOutline, Neat
<1>4. PICK z : z = Effect(op, w, rev)
  OBVIOUS
<1>5. IsOp(op, Id)
  BY DEF Said
<1>6. IsOutline(z, Id)
  BY <1>4, <1>5, EffectIs DEF IsArray
<1>7. z.order \in Seq(Id)
  BY <1>6, SeqMonotonic DEF IsOutline
<1>8. CASE op.type \in {"insert", "move"}
  <2>1. PICK val, v :
          /\ v = [parent |-> op.parent, val |-> val, changedAt |-> rev]
          /\ ToSet(z.order) = ToSet(Rest(s, {op.id})) \cup {op.id} /\ Distinct(z.order)
          /\ z.node = With(node, op.id, v)
    <3>1. PICK val : val = IF op.type = "insert" THEN op.val ELSE w.node[op.id].val
      OBVIOUS
    <3>2. /\ PlacedIn(z.order, Rest(s, {op.id}), node, op.id, op.parent, op.after)
          /\ z.node = With(node, op.id,
               [parent |-> op.parent, val |-> val, changedAt |-> rev])
      BY <1>1, <1>4, <1>8, <3>1, EffectPlaces
    <3> QED BY <3>2 DEF PlacedIn
  <2>2. ToSet(Rest(s, {op.id})) = ToSet(s) \ {op.id}
    BY <1>3, RestIs
  <2>3. /\ DOMAIN z.node = D \cup {op.id}
        /\ z.node = [n \in D \cup {op.id} |-> IF n = op.id THEN v ELSE node[n]]
    BY Zenon, <1>2, <2>1 DEF With
  <2>4. ToSet(z.order) = DOMAIN z.node
    BY Zenon, <1>2, <2>1, <2>2, <2>3
  <2>5. v = [parent |-> v.parent, val |-> v.val, changedAt |-> v.changedAt]
        /\ v.changedAt \in Rev
    BY <2>1 DEF Rev
  <2>6. Holds(z.node, DOMAIN z.node)
    BY <1>3, <2>3, <2>5 DEF Holds
  <2>7. IsArray(z)
    BY Zenon, <1>6, <1>7, <2>1, <2>4, <2>6 DEF IsArray, Neat
  <2> QED BY <1>4, <1>8, <2>7
<1>9. CASE op.type = "update"
  <2>1. op.id \in D
    BY <1>1, <1>2, <1>9 DEF Accepts
  <2>2. PICK v, x : /\ v = [node[op.id] EXCEPT !.val = op.val, !.changedAt = rev]
                    /\ x = With(node, op.id, v)
    OBVIOUS
  <2>3. z = [w EXCEPT !.node = x]
    BY <1>1, <1>4, <1>9, <2>2 DEF Effect, Updated
  <2>4. z.node = x /\ z.order = s
    BY <1>3, <2>3
  <2>5. PICK x1, x2, x3 : node[op.id] = [parent |-> x1, val |-> x2, changedAt |-> x3]
    <3>1. PICK n \in D : n = op.id
      BY <2>1
    <3>2. node[n] = [parent |-> node[n].parent, val |-> node[n].val,
                     changedAt |-> node[n].changedAt]
      BY <1>3 DEF Holds
    <3> QED BY <3>1, <3>2
  <2>6. /\ v = [parent |-> v.parent, val |-> v.val, changedAt |-> v.changedAt]
        /\ v.changedAt \in Rev /\ v.parent = node[op.id].parent /\ v.val = op.val
    BY Zenon, <2>2, <2>5 DEF Rev
  <2>7. x = [n \in D |-> IF n = op.id THEN v ELSE node[n]]
    <3>1. D \cup {op.id} = D
      BY <2>1
    <3> QED BY Zenon, <1>2, <2>2, <3>1 DEF With
  <2>8. Holds(x, D) /\ DOMAIN x = D
    BY <1>3, <2>6, <2>7 DEF Holds
  <2>9. IsArray(z)
    BY <1>2, <1>3, <1>6, <2>4, <2>8 DEF IsArray, Neat
  <2>10. \A n \in D : /\ x[n].parent = node[n].parent
                       /\ x[n].val = IF n = op.id THEN op.val ELSE node[n].val
    BY <2>6, <2>7
  <2> QED BY <1>1, <1>2, <1>4, <1>9, <2>4, <2>8, <2>9, <2>10
<1>10. CASE op.type = "delete"
  <2>1. PICK ids : ids = DescendantIds(node, op.id)
    OBVIOUS
  <2>2. z.node = Without(node, ids) /\ z.order = Rest(s, ids)
    BY <1>1, <1>4, <1>10, <2>1 DEF Effect, Deleted
  <2>3. z.node = [n \in D \ ids |-> node[n]]
    BY Zenon, <1>2, <2>2 DEF Without
  <2>4. DOMAIN z.node = D \ ids /\ Holds(z.node, D \ ids)
        /\ \A n \in D \ ids : z.node[n] = node[n]
    BY <1>3, <2>3 DEF Holds
  <2>5. ToSet(z.order) = ToSet(s) \ ids
    BY <1>3, <2>2, RestIs
  <2>6. Distinct(z.order)
    BY <1>3, <2>2, RestEarlier
  <2>7. IsArray(z)
    BY <1>2, <1>6, <1>7, <2>4, <2>5, <2>6 DEF IsArray, Neat
  <2> QED BY <1>1, <1>2, <1>4, <1>10, <2>1, <2>2, <2>4, <2>7
<1> QED BY <1>4, <1>5, <1>8, <1>9, <1>10 DEF IsOp

\* Replay and the store do the same to the tree.
LEMMA AlikeStep ==
  ASSUME NEW d, IsDoc(d, Id), Distinct(d.order), NEW w, IsArray(w), Alike(d, w),
         NEW op, Said(op), NEW initial, NEW base, Accepts(op, w, initial, base), NEW rev \in Nat
  PROVE  LET b == ReplayOp(d, op)
             z == Effect(op, w, rev)
         IN  IsDoc(b, Id) /\ Distinct(b.order) /\ IsArray(z) /\ Alike(b, z)
<1>1. PICK b, z : b = ReplayOp(d, op) /\ z = Effect(op, w, rev)
  OBVIOUS
<1>2. PICK D : D = DOMAIN w.node /\ D = ToSet(w.order) /\ D = ToSet(d.order) /\ D = DOMAIN d.node
  BY IsDocIn DEF IsArray, Neat, Alike
<1>3. Neat(d, Id) /\ Neat(w, Id)
  BY <1>2 DEF IsArray, Neat, IsDoc
<1>4. IsOp(op, Id)
  BY DEF Said
<1>5. op.type # "insert" => op.id \in D
  BY <1>2, <1>4 DEF Accepts, IsOp
<1>6. IsDoc(b, Id)
  BY <1>1, <1>2, <1>4, <1>5, ReplayOpIs
<1>7. IsArray(z)
  BY <1>1, EffectIsArray
<1>8. \A n \in D : d.node[n].parent = w.node[n].parent /\ d.node[n].val = w.node[n].val
  BY <1>2 DEF Alike
<1>9. CASE op.type \in {"insert", "move"}
  <2>1. PICK id, parent, after, val :
          /\ id = op.id /\ parent = op.parent /\ after = op.after
          /\ val = IF op.type = "insert" THEN op.val ELSE w.node[id].val
    OBVIOUS
  <2>2. /\ Anchored(Rest(w.order, {id}), w.node, parent, after)
        /\ PlacedIn(z.order, Rest(w.order, {id}), w.node, id, parent, after)
        /\ z.node = With(w.node, id, [parent |-> parent, val |-> val, changedAt |-> rev])
    BY <1>1, <1>9, <2>1, EffectPlaces
  <2>3. b = Put(d, id, parent, val, after)
    BY <1>1, <1>2, <1>5, <1>8, <1>9, <2>1 DEF ReplayOp
  <2>4. id \in Id
    BY <1>4, <2>1 DEF IsOp
  <2>5. Anchored(Rest(d.order, {id}), d.node, parent, after)
    BY <1>3, RestIs, <1>2, <1>8, <2>2 DEF Neat, Anchored
  <2>6. PutsIn(b, d, id, parent, after, val)
    BY Zenon, <2>3, <2>4, <2>5, PutPlaces
  <2>7. PutsIn(z, w, id, parent, after, val)
    <3>1. /\ z.node[id].parent = parent /\ z.node[id].val = val
          /\ \A n \in D \ {id} : z.node[n] = w.node[n]
      <4>1. z.node = [n \in D \cup {id} |-> IF n = id
                      THEN [parent |-> parent, val |-> val, changedAt |-> rev]
                      ELSE w.node[n]]
        BY <1>2, <2>2 DEF With
      <4>2. z.node[id] = [parent |-> parent, val |-> val, changedAt |-> rev]
        BY <4>1
      <4>3. \A n \in D \ {id} : z.node[n] = w.node[n]
        BY <4>1
      <4> QED BY <4>2, <4>3
    <3>2. z.order \in Seq(Id)
      BY <1>7 DEF IsArray, Neat
    <3> QED BY <1>2, <2>2, <3>1, <3>2 DEF PutsIn
  <2>8. Alike(b, z)
    BY <1>3, <2>4, <2>6, <2>7, AlikePlaced
  <2>9. Distinct(b.order)
    BY <2>6 DEF PutsIn, PlacedIn
  <2> QED BY <1>1, <1>6, <1>7, <2>8, <2>9
<1>10. CASE op.type = "update"
  <2>1. b = [d EXCEPT !.node[op.id].val = op.val]
    BY <1>1, <1>2, <1>5, <1>10 DEF ReplayOp
  <2>2. d = [node |-> d.node, order |-> d.order]
    BY DEF IsDoc
  <2>3. b.order = d.order /\ b.node = [d.node EXCEPT ![op.id].val = op.val]
    BY <2>1, <2>2
  <2>4. \A n \in D : d.node[n] = [parent |-> d.node[n].parent, val |-> d.node[n].val]
    BY <1>2 DEF IsDoc
  <2>5. \A n \in D : /\ b.node[n].parent = d.node[n].parent
                      /\ b.node[n].val = IF n = op.id THEN op.val ELSE d.node[n].val
    BY <1>2, <2>3, <2>4
  <2>6. /\ z.order = w.order
        /\ \A n \in D : /\ z.node[n].parent = w.node[n].parent
                          /\ z.node[n].val = IF n = op.id THEN op.val ELSE w.node[n].val
    <3>1. /\ Effect(op, w, rev).order = w.order
          /\ \A n \in DOMAIN w.node :
               /\ Effect(op, w, rev).node[n].parent = w.node[n].parent
               /\ Effect(op, w, rev).node[n].val = IF n = op.id THEN op.val ELSE w.node[n].val
      BY <1>10, EffectIsArray
    <3> QED BY <1>1, <1>2, <3>1
  <2>7. \A n \in D : /\ b.node[n].parent = z.node[n].parent
                      /\ b.node[n].val = z.node[n].val
                      /\ z.node[n].parent = w.node[n].parent
    BY <1>8, <2>5, <2>6
  <2>8. Alike(b, z)
    BY Zenon, <1>2, <2>3, <2>6, <2>7 DEF Alike
  <2> QED BY <1>1, <1>6, <1>7, <2>3, <2>8
<1>11. CASE op.type = "delete"
  <2>1. PICK ids : ids = DescendantIds(w.node, op.id) /\ ids = DescendantIds(d.node, op.id)
    <3>1. DOMAIN d.node = DOMAIN w.node
          /\ \A n \in DOMAIN d.node : d.node[n].parent = w.node[n].parent
      BY <1>2, <1>8
    <3>2. DescendantIds(d.node, op.id) = DescendantIds(w.node, op.id)
      BY <3>1, SameDescendants
    <3> QED BY <3>2
  <2>2. b = Drop(d, ids)
    BY <1>1, <1>11, <2>1 DEF ReplayOp
  <2>3. b.order = Rest(d.order, ids)
    BY <2>2 DEF Drop
  <2>4. \A n \in D \ ids : b.node[n] = d.node[n]
    BY <1>2, <2>2, DropIs
  <2>5. /\ z.order = Rest(w.order, ids)
        /\ \A n \in D \ ids : z.node[n] = w.node[n]
    <3>1. /\ z.order = Rest(w.order, DescendantIds(w.node, op.id))
          /\ \A n \in DOMAIN w.node \ DescendantIds(w.node, op.id) :
               z.node[n] = w.node[n]
      BY <1>1, <1>11, EffectIsArray
    <3> QED BY <1>2, <2>1, <3>1
  <2>6. \A n \in ToSet(w.order) \ ids :
          /\ b.node[n].parent = d.node[n].parent /\ b.node[n].val = d.node[n].val
          /\ z.node[n].parent = w.node[n].parent /\ z.node[n].val = w.node[n].val
    BY <1>2, <2>4, <2>5
  <2>7. Alike(b, z)
    BY <1>3, <2>3, <2>5, <2>6, AlikeRest
  <2>8. Distinct(b.order)
    BY <1>3, <2>3, RestEarlier DEF Neat
  <2> QED BY <1>1, <1>6, <1>7, <2>7, <2>8
<1> QED BY <1>4, <1>9, <1>10, <1>11 DEF IsOp

-----------------------------------------------------------------------------
(* The operations of a difference *)

\* The sibling before a node: there is none, or it comes before the node and
\* after all others that do.
LEMMA BeforeIs ==
  ASSUME NEW doc, Neat(doc, Id), NEW id \in ToSet(doc.order)
  PROVE  LET b == Before(doc, id)
             Elder(x) == /\ x \in ToSet(doc.order) /\ Earlier(doc.order, x, id)
                         /\ doc.node[x].parent = doc.node[id].parent
         IN  \/ b = AtStart /\ \A x : ~Elder(x)
             \/ b \in Id /\ Elder(b) /\ \A x : Elder(x) => x = b \/ Earlier(doc.order, x, b)
<1>1. PICK s, p : s = doc.order /\ p = doc.node[id].parent
  OBVIOUS
<1>2. PICK O, c : O = {n \in DOMAIN doc.node : doc.node[n].parent # p} /\ c = Rest(s, O)
  BY Zenon
<1>3. s \in Seq(Id) /\ Distinct(s) /\ ToSet(s) = DOMAIN doc.node /\ ToSet(s) \subseteq Id
  BY <1>1, ToSetIn DEF Neat
<1>4. /\ c \in Seq(Id) /\ ToSet(c) = ToSet(s) \ O
      /\ \A x, y : Earlier(c, x, y) <=> Earlier(s, x, y) /\ x \notin O /\ y \notin O
  BY <1>2, <1>3, RestIs, RestEarlier
<1>5. \A x \in ToSet(s) : x \notin O <=> doc.node[x].parent = p
  BY <1>2, <1>3
<1>6. id \in ToSet(c)
  BY <1>1, <1>4, <1>5
<1>7. PICK m \in Nat : m = Len(c) /\ DOMAIN c = 1..m
  BY <1>4, LenProperties
<1>8. PICK k \in 1..m : k = Position(c, id) /\ c[k] = id
  BY <1>4, <1>6, <1>7, PositionOf
<1>9. Before(doc, id) = IF k = 1 THEN AtStart ELSE c[k-1]
  BY <1>1, <1>2, <1>8 DEF Before, Children
<1> DEFINE Elder(x) == /\ x \in ToSet(doc.order) /\ Earlier(doc.order, x, id)
                       /\ doc.node[x].parent = doc.node[id].parent
<1>10. \A x : Elder(x) <=> Earlier(c, x, id)
  <2> SUFFICES ASSUME NEW x PROVE Elder(x) <=> Earlier(c, x, id)
    OBVIOUS
  <2>1. Earlier(s, x, id) => x \in ToSet(s)
    BY EarlierIn
  <2> QED BY <1>1, <1>4, <1>5, <1>6, <2>1
<1>11. \A x : Earlier(c, x, id) <=> \E j \in 1..m : j < k /\ c[j] = x
  <2>1. Distinct(c)
    BY <1>2, <1>3, RestEarlier
  <2>2. \A i \in 1..m : c[i] = id => i = k
    BY <1>7, <1>8, <2>1 DEF Distinct
  <2> QED BY <1>7, <1>8, <2>2 DEF Earlier
<1> HIDE DEF Elder
<1>12. CASE k = 1
  <2>1. \A x : ~Elder(x)
    BY <1>10, <1>11, <1>12
  <2> QED BY <1>9, <1>12, <2>1 DEF Elder
<1>13. CASE k # 1
  <2>1. PICK b : b = Before(doc, id) /\ b = c[k-1]
    BY <1>9, <1>13
  <2>2. k - 1 \in 1..m /\ k - 1 < k
    BY <1>13
  <2>3. b \in Id /\ Elder(b)
    BY <1>4, <1>7, <1>10, <1>11, <2>1, <2>2, ElementOfSeq
  <2>4. ASSUME NEW x, Elder(x) PROVE x = b \/ Earlier(s, x, b)
    <3>1. PICK j \in 1..m : j < k /\ c[j] = x
      BY <1>10, <1>11, <2>4
    <3>2. j = k - 1 \/ j < k - 1
      BY <3>1
    <3>3. CASE j < k - 1
      <4>1. Earlier(c, x, b)
        BY <1>7, <2>1, <2>2, <3>1, <3>3 DEF Earlier
      <4> QED BY <1>4, <4>1
    <3> QED BY <2>1, <3>1, <3>2, <3>3
  <2> QED BY <1>1, <2>1, <2>3, <2>4 DEF Elder
<1> QED BY <1>12, <1>13

\* The store accepts the operation, if it has these nodes and none of them was
\* changed by others.
Fits(op, node) ==
  /\ Said(op)
  /\ \/ /\ op.type = "insert" /\ op.id \notin DOMAIN node
        /\ CanPlace(node, op.id, op.parent, op.after)
     \/ op.type \in {"update", "delete"} /\ op.id \in DOMAIN node
     \/ /\ op.type = "move" /\ op.id \in DOMAIN node
        /\ op.parent \notin DescendantIds(node, op.id)
        /\ CanPlace(Without(node, {op.id}), op.id, op.parent, op.after)

\* And it takes away nothing the tree has.
Good(op, d, items) ==
  /\ Fits(op, d.node)
  /\ op.type # "delete" => op.id \in ToSet(items.order)
  /\ op.type = "delete" => DescendantIds(d.node, op.id) \cap ToSet(items.order) = {}

\* By good operations from one array to another.
Leads(doc, ops, w, items) ==
  /\ \E S : ops \in Seq(S)
  /\ \E g : /\ g[0] = doc /\ g[Len(ops)] = w
            /\ \A j \in 1..Len(ops) : /\ g[j] = ReplayOp(g[j-1], ops[j])
                                      /\ Good(ops[j], g[j-1], items)

LEMMA LeadsNothing ==
  ASSUME NEW doc, NEW items
  PROVE  Leads(doc, <<>>, doc, items)
<1>1. PICK e, g : e = <<>> /\ g = [k \in {0} |-> doc]
  OBVIOUS
<1>2. e \in Seq({}) /\ Len(e) = 0 /\ g[0] = doc
  BY <1>1
<1> QED BY <1>1, <1>2 DEF Leads

LEMMA LeadsOn ==
  ASSUME NEW doc, NEW ops, NEW w, NEW items, Leads(doc, ops, w, items),
         NEW op, Good(op, w, items)
  PROVE  Leads(doc, Append(ops, op), ReplayOp(w, op), items)
<1>1. PICK S : ops \in Seq(S) /\ op \in S
  <2>1. PICK R : ops \in Seq(R)
    BY DEF Leads
  <2>2. PICK S : S = R \cup {op}
    OBVIOUS
  <2> QED BY <2>1, <2>2, SeqMonotonic
<1> PICK n \in Nat : n = Len(ops)
  BY <1>1, LenProperties
<1>2. PICK g : /\ g[0] = doc /\ g[n] = w
               /\ \A j \in 1..n : /\ g[j] = ReplayOp(g[j-1], ops[j])
                                  /\ Good(ops[j], g[j-1], items)
  BY <1>1 DEF Leads
<1>3. PICK a : a = Append(ops, op)
  BY Zenon
<1>5. a \in Seq(S) /\ Len(a) = n + 1 /\ a[n+1] = op /\ \A j \in 1..n : a[j] = ops[j]
  BY <1>1, <1>3, AppendProperties
<1>6. PICK h : h = [k \in 0..(n+1) |-> IF k = n + 1 THEN ReplayOp(w, op) ELSE g[k]]
  BY Zenon
<1>7. h[n+1] = ReplayOp(w, op) /\ \A k \in 0..n : h[k] = g[k]
  BY <1>6
<1>8. h[0] = doc
  BY <1>2, <1>7
<1>9. ASSUME NEW j \in 1..(n+1)
      PROVE  h[j] = ReplayOp(h[j-1], a[j]) /\ Good(a[j], h[j-1], items)
  <2>1. CASE j = n + 1
    BY <2>1, <1>2, <1>5, <1>7
  <2>2. CASE j # n + 1
    BY <2>2, <1>2, <1>5, <1>7
  <2> QED BY <2>1, <2>2
<1>10. /\ h[0] = doc /\ h[Len(a)] = ReplayOp(w, op)
       /\ \A j \in 1..Len(a) : h[j] = ReplayOp(h[j-1], a[j]) /\ Good(a[j], h[j-1], items)
  BY <1>5, <1>7, <1>8, <1>9
<1> QED BY <1>3, <1>5, <1>10 DEF Leads

\* A parent comes before its children.
Led(items) ==
  \A i \in 1..Len(items.order) :
    \/ items.node[items.order[i]].parent = Root
    \/ \E j \in 1..Len(items.order) :
         j < i /\ items.order[j] = items.node[items.order[i]].parent

\* A tree as a browser sends it.
IsSent(items) == IsTree(items) /\ Led(items) /\ ToSet(items.order) \subseteq Id

\* What toItems makes is such a tree.
LEMMA ParentFirst ==
  ASSUME NEW items, IsTree(items), ToItems(items) = items
  PROVE  Led(items)
<1> SUFFICES ASSUME NEW i \in 1..Len(items.order)
             PROVE  \/ items.node[items.order[i]].parent = Root
                    \/ \E j \in 1..Len(items.order) :
                         j < i /\ items.order[j] = items.node[items.order[i]].parent
  BY DEF Led
<1>1. PICK s, T : s = items.order /\ T = ToSet(s)
  OBVIOUS
<1>2. s \in Seq(T)
  BY <1>1 DEF IsTree
<1>3. PICK m \in Nat : m = Len(s) /\ DOMAIN s = 1..m
  BY <1>2, LenProperties
<1>4. DepthFirst(items) = s
  BY <1>1, <1>2, ToItemsIs
<1>5. PICK g : Walked(items, g, s)
  BY <1>1, <1>2, <1>4, DepthFirstEnds
<1>6. i \in 1..m /\ i - 1 \in 0..m /\ i \in 0..m /\ i - 1 \in Nat
  BY <1>1, <1>3
<1>7. PICK z : z = g[i-1]
  OBVIOUS
<1>8. z \in Seq(T) /\ Len(z) = i - 1 /\ \A l \in 1..(i-1) : z[l] = s[l]
  BY Zenon, <1>1, <1>3, <1>5, <1>6, <1>7 DEF Walked
<1>9. Len(g[i]) = i /\ g[i] = Visit(items, z) /\ \A l \in 1..i : g[i][l] = s[l]
  BY <1>1, <1>3, <1>5, <1>6, <1>7 DEF Walked, Walk
<1>10. Visit(items, z) # z
  BY <1>8, <1>9
<1>11. PICK c : GoesTo(items, z, c)
  BY <1>1, <1>2, <1>8, <1>10, VisitIs
<1>12. c \in T /\ items.node[c].parent \in {Root} \cup ToSet(z) /\ g[i] = Append(z, c)
  BY <1>1, <1>9, <1>11 DEF GoesTo
<1>13. s[i] = c
  <2>1. Append(z, c)[(i - 1) + 1] = c
    BY <1>8, <1>12, AppendProperties
  <2>2. (i - 1) + 1 = i /\ i \in 1..i
    BY <1>6
  <2> QED BY <1>9, <1>12, <2>1, <2>2
<1>14. ASSUME NEW p \in ToSet(z) PROVE \E j \in 1..m : j < i /\ s[j] = p
  BY <1>8, LenProperties, <1>6 DEF ToSet
<1> QED BY Zenon, <1>1, <1>3, <1>12, <1>13, <1>14

\* A tree that was walked has its parents first.
Grown(items) == IsTree(items) /\ Led(items)

LEMMA GrownWalk ==
  ASSUME NEW S, NEW doc, doc.order \in Seq(S)
  PROVE  Grown(ToItems(doc))
<1>1. PICK items : items = ToItems(doc)
  OBVIOUS
<1>2. IsTree(items)
  BY <1>1, ToItemsIs
<1>3. ToItems(items) = items
  BY <1>1, ToItemsAgain
<1> QED BY <1>1, <1>2, <1>3, ParentFirst DEF Grown

\* After i turns of the first loop: the first i nodes of the tree are there,
\* under their parents, with their texts, and siblings among them in order.
Sorted(w, items, i) ==
  /\ IsDoc(w, Id) /\ Distinct(w.order)
  /\ \A j \in 1..i : /\ items.order[j] \in DOMAIN w.node
                     /\ w.node[items.order[j]].parent = items.node[items.order[j]].parent
                     /\ w.node[items.order[j]].val = items.node[items.order[j]].val
  /\ \A j, l \in 1..i :
       j < l /\ items.node[items.order[j]].parent = items.node[items.order[l]].parent
       => Earlier(w.order, items.order[j], items.order[l])

\* The sibling before the next node of the tree is one of them.
LEMMA AnchorSorted ==
  ASSUME NEW items, IsSent(items), NEW i \in 1..Len(items.order),
         NEW w, Sorted(w, items, i - 1)
  PROVE  LET id == items.order[i]
             b == Before(items, id)
             p == items.node[id].parent
         IN  /\ \/ p = Root
                \/ \E j \in 1..(i-1) : p = items.order[j]
             /\ b = AtStart \/ \E j \in 1..(i-1) : b = items.order[j] /\ items.node[b].parent = p
             /\ \A j \in 1..(i-1) :
                  items.node[items.order[j]].parent = p =>
                    b \in Id /\ (items.order[j] = b \/ Earlier(w.order, items.order[j], b))
<1>1. PICK s, id, b, p : /\ s = items.order /\ id = s[i] /\ b = Before(items, id)
                         /\ p = items.node[id].parent
  OBVIOUS
<1>2. s \in Seq(ToSet(s)) /\ ToSet(s) \subseteq Id /\ Distinct(s) /\ DOMAIN items.node = ToSet(s)
  BY <1>1, TreeIsDoc DEF IsSent, IsTree
<1>3. s \in Seq(Id)
  BY <1>2, SeqMonotonic
<1>4. PICK n \in Nat : n = Len(s) /\ DOMAIN s = 1..n
  BY <1>3, LenProperties
<1>5. i \in 1..n /\ i - 1 \in 0..n /\ id \in ToSet(s)
  BY <1>1, <1>4 DEF ToSet
<1>6. \A j, l \in 1..n : s[j] = s[l] => j = l
  BY <1>2, <1>4 DEF Distinct
<1>7. \A x : Earlier(s, x, id) <=> \E j \in 1..(i-1) : s[j] = x
  <2>1. ASSUME NEW x, Earlier(s, x, id) PROVE \E j \in 1..(i-1) : s[j] = x
    BY <1>4, <2>1, <1>1, <1>5, <1>6 DEF Earlier
  <2>2. ASSUME NEW j \in 1..(i-1) PROVE Earlier(s, s[j], id)
    <3>1. j \in 1..n /\ j < i
      BY <1>5
    <3> QED BY <1>1, <1>4, <1>5, <3>1 DEF Earlier
  <2> QED BY Zenon, <2>1, <2>2
<1>8. p = Root \/ \E j \in 1..(i-1) : p = s[j]
  <2>1. p = Root \/ \E j \in 1..n : j < i /\ s[j] = p
    BY <1>1, <1>4 DEF IsSent, Led
  <2>2. \A j \in 1..n : j < i => j \in 1..(i-1)
    BY <1>5
  <2> QED BY <2>1, <2>2
<1> DEFINE Elder(x) == x \in ToSet(s) /\ Earlier(s, x, id) /\ items.node[x].parent = p
<1>9. \/ b = AtStart /\ \A x : ~Elder(x)
      \/ b \in Id /\ Elder(b) /\ \A x : Elder(x) => x = b \/ Earlier(s, x, b)
  <2>1. Neat(items, Id)
    BY <1>1, <1>2, <1>3 DEF Neat
  <2> QED BY <1>1, <1>5, <2>1, BeforeIs
<1>10. \A j \in 1..(i-1) : items.node[s[j]].parent = p => Elder(s[j])
  BY <1>5, <1>4, <1>7 DEF ToSet
<1> HIDE DEF Elder
<1>11. b = AtStart \/ \E j \in 1..(i-1) : b = s[j] /\ items.node[b].parent = p
  BY <1>7, <1>9 DEF Elder
<1>12. ASSUME NEW j \in 1..(i-1), items.node[s[j]].parent = p
       PROVE  b \in Id /\ (s[j] = b \/ Earlier(w.order, s[j], b))
  <2>1. b \in Id /\ Elder(b) /\ (s[j] = b \/ Earlier(s, s[j], b))
    BY <1>9, <1>10, <1>12
  <2>2. ASSUME Earlier(s, s[j], b) PROVE Earlier(w.order, s[j], b)
    <3>1. PICK l \in 1..(i-1) : s[l] = b
      BY <1>7, <2>1 DEF Elder
    <3>2. PICK x, y \in 1..n : x < y /\ s[x] = s[j] /\ s[y] = b
      BY <1>4, <2>2 DEF Earlier
    <3>3. j \in 1..n /\ l \in 1..n
      BY <1>5
    <3>4. x = j /\ y = l
      BY <1>6, <3>1, <3>2, <3>3
    <3>5. items.node[s[l]].parent = p
      BY <2>1, <3>1 DEF Elder
    <3> QED BY <1>1, <1>12, <3>1, <3>2, <3>4, <3>5 DEF Sorted
  <2> QED BY <2>1, <2>2
<1> QED BY <1>1, <1>8, <1>11, <1>12

\* The loop puts the next node in its place: a new one, or one that has another
\* place.
LEMMA PlaceTurn ==
  ASSUME NEW items, IsSent(items), NEW i \in 1..Len(items.order),
         NEW w, Sorted(w, items, i - 1), NEW op, Said(op), op.type \in {"insert", "move"},
         op.id = items.order[i], op.parent = items.node[op.id].parent,
         op.after = Before(items, op.id),
         op.type = "insert" => op.val = items.node[op.id].val /\ op.id \notin DOMAIN w.node,
         op.type = "move" => /\ op.id \in DOMAIN w.node
                             /\ w.node[op.id].val = items.node[op.id].val
  PROVE  Good(op, w, items) /\ Sorted(ReplayOp(w, op), items, i)
<1>1. PICK s, id, b, p, val :
        /\ s = items.order /\ id = s[i] /\ b = Before(items, id)
        /\ p = items.node[id].parent /\ val = items.node[id].val
  OBVIOUS
<1>2. /\ s \in Seq(ToSet(s)) /\ ToSet(s) \subseteq Id /\ Distinct(s)
  BY <1>1 DEF IsSent, IsTree
<1>3. PICK n \in Nat : n = Len(s) /\ DOMAIN s = 1..n
  BY <1>2, LenProperties
<1>4. i \in 1..n /\ i - 1 \in 0..n /\ id \in ToSet(s) /\ id \in Id
  BY <1>1, <1>2, <1>3 DEF ToSet
<1>5. \A j \in 1..(i-1) : s[j] # id /\ s[j] \in Id /\ s[j] \in ToSet(s)
  <2>1. \A j \in 1..(i-1) : j \in 1..n /\ j # i
    BY <1>4
  <2> QED BY <1>1, <1>2, <1>3, <1>4, <2>1 DEF Distinct, ToSet
<1>6. /\ p = Root \/ \E j \in 1..(i-1) : p = s[j]
      /\ b = AtStart \/ \E j \in 1..(i-1) : b = s[j] /\ items.node[b].parent = p
      /\ \A j \in 1..(i-1) : items.node[s[j]].parent = p =>
           b \in Id /\ (s[j] = b \/ Earlier(w.order, s[j], b))
  BY <1>1, AnchorSorted
<1>7. op.id = id /\ op.parent = p /\ op.after = b
  BY <1>1
<1>8. PICK D : D = DOMAIN w.node /\ D = ToSet(w.order) /\ D \subseteq Id
  BY IsDocIn DEF Sorted
<1>9. /\ \A j \in 1..(i-1) : /\ s[j] \in D /\ w.node[s[j]].parent = items.node[s[j]].parent
                             /\ w.node[s[j]].val = items.node[s[j]].val
      /\ \A j, l \in 1..(i-1) :
           j < l /\ items.node[s[j]].parent = items.node[s[l]].parent
           => Earlier(w.order, s[j], s[l])
  BY <1>1, <1>8 DEF Sorted
<1>10. p # id /\ b # id
  BY <1>4, <1>5, <1>6, RootAssumption, AfterAssumption
<1>11. /\ p # Root => p \in D
       /\ b \in Id => b \in D /\ w.node[b].parent = p
  BY <1>6, <1>9, AfterAssumption
<1>12. CanPlace(Without(w.node, {id}), id, p, b)
  BY <1>8, <1>10, <1>11 DEF Without, CanPlace
<1>13. CanPlace(w.node, id, p, b)
  BY <1>8, <1>10, <1>11 DEF CanPlace
<1>14. p \notin DescendantIds(w.node, id)
  <2>1. PICK P : P = {s[j] : j \in 1..(i-1)}
    BY Zenon
  <2>2. PICK C : C = (D \cup {id}) \ P
    BY Zenon
  <2>3. C \in SUBSET (DOMAIN w.node \cup {id}) /\ id \in C
    BY <1>5, <1>8, <2>1, <2>2
  <2>4. ASSUME NEW x \in D, w.node[x].parent \in C PROVE x \in C
    <3> SUFFICES ASSUME x \in P PROVE FALSE
      BY <2>2, <2>4
    <3>1. PICK j \in 1..(i-1) : x = s[j]
      BY <2>1
    <3>2. j \in 1..Len(items.order)
      BY <1>1, <1>3, <1>4
    <3>3. \/ items.node[x].parent = Root
          \/ \E l \in 1..Len(items.order) : l < j /\ s[l] = items.node[x].parent
      BY <1>1, <3>1, <3>2 DEF IsSent, Led
    <3>4. \A l \in 1..n : l < j => l \in 1..(i-1)
      BY <1>4
    <3>5. items.node[x].parent \in P \cup {Root}
      BY <1>1, <1>3, <2>1, <3>3, <3>4
    <3>6. w.node[x].parent \in P \cup {Root}
      BY <1>9, <3>1, <3>5
    <3> QED BY <1>4, <1>8, <2>2, <2>4, <3>6, RootAssumption
  <2>5. ClosedUnderChildren(w.node, C)
    BY <1>8, <2>4 DEF ClosedUnderChildren
  <2>6. p \notin C
    BY <1>4, <1>6, <1>8, <2>1, <2>2, RootAssumption
  <2> QED BY <2>3, <2>5, <2>6 DEF DescendantIds
<1>15. Good(op, w, items)
  BY <1>1, <1>7, <1>8, <1>12, <1>13, <1>14, <1>4 DEF Fits, Good
<1>16. PICK z : z = ReplayOp(w, op)
  OBVIOUS
<1>17. z = Put(w, id, p, val, b)
  BY <1>1, <1>7, <1>16 DEF ReplayOp
<1>18. IsDoc(w, Id) /\ Distinct(w.order) /\ w.order \in Seq(Id)
  BY DEF Sorted, IsDoc
<1>19. PICK r : r = Rest(w.order, {id})
  OBVIOUS
<1>20. /\ ToSet(r) = D \ {id}
       /\ \A x, y \in D \ {id} : Earlier(r, x, y) <=> Earlier(w.order, x, y)
  <2>1. ToSet(r) = ToSet(w.order) \ {id}
    BY <1>18, <1>19, RestIs
  <2>2. \A x, y : Earlier(r, x, y) <=> Earlier(w.order, x, y) /\ x \notin {id} /\ y \notin {id}
    BY <1>18, <1>19, RestEarlier
  <2> QED BY <1>8, <2>1, <2>2
<1>21. Anchored(r, w.node, p, b)
  <2>1. b \in Id \cup {AtStart, AtEnd}
    BY <1>5, <1>6
  <2> QED BY <1>10, <1>11, <1>20, <2>1 DEF Anchored
<1>22. IsDoc(z, Id) /\ PutsIn(z, w, id, p, b, val)
  BY Zenon, <1>4, <1>17, <1>18, <1>19, <1>21, PutPlaces
<1>23. /\ Distinct(z.order) /\ ToSet(z.order) = D \cup {id}
       /\ \A x, y \in D \ {id} : Earlier(z.order, x, y) <=> Earlier(w.order, x, y)
       /\ \A x \in D \ {id} : w.node[x].parent = p =>
            (Earlier(z.order, x, id) <=> ComesAfter(r, b, x))
       /\ \A x \in D \ {id} : /\ z.node[x].parent = w.node[x].parent
                              /\ z.node[x].val = w.node[x].val
       /\ z.node[id].parent = p /\ z.node[id].val = val
  BY Zenon, <1>19, <1>22, <1>20, <1>8 DEF PutsIn, PlacedIn
<1>24. DOMAIN z.node = D \cup {id}
  BY <1>22, <1>23, IsDocIn
<1>25. \A j \in 1..i : j = i \/ j \in 1..(i-1)
  BY <1>4
<1>26. \A j \in 1..(i-1) : s[j] \in D \ {id}
  BY <1>5, <1>9
<1>27. ASSUME NEW j \in 1..i
       PROVE  /\ s[j] \in DOMAIN z.node
              /\ z.node[s[j]].parent = items.node[s[j]].parent
              /\ z.node[s[j]].val = items.node[s[j]].val
  <2>1. CASE j = i
    BY <1>1, <1>23, <1>24, <2>1
  <2>2. CASE j \in 1..(i-1)
    BY <1>9, <1>23, <1>24, <1>26, <2>2
  <2> QED BY <1>25, <2>1, <2>2
<1>28. ASSUME NEW j \in 1..i, NEW l \in 1..i, j < l,
              items.node[s[j]].parent = items.node[s[l]].parent
       PROVE  Earlier(z.order, s[j], s[l])
  <2>1. j \in 1..(i-1)
    BY <1>4, <1>28
  <2>2. CASE l \in 1..(i-1)
    BY <1>9, <1>23, <1>26, <1>28, <2>1, <2>2
  <2>3. CASE l = i
    <3>1. items.node[s[j]].parent = p
      BY <1>1, <1>28, <2>3
    <3>2. b \in Id /\ (s[j] = b \/ Earlier(w.order, s[j], b))
      BY <1>6, <2>1, <3>1
    <3>3. b \in D \ {id} /\ s[j] \in D \ {id}
      BY <1>10, <1>11, <1>26, <2>1, <3>2
    <3>4. ComesAfter(r, b, s[j])
      BY <1>20, <3>2, <3>3 DEF ComesAfter
    <3>5. w.node[s[j]].parent = p
      BY <1>9, <2>1, <3>1
    <3> QED BY <1>1, <1>23, <2>3, <3>3, <3>4, <3>5
  <2> QED BY <1>25, <2>2, <2>3
<1>29. Sorted(z, items, i)
  BY Zenon, <1>1, <1>22, <1>23, <1>27, <1>28 DEF Sorted
<1> QED BY <1>15, <1>16, <1>29

\* Or finds it there.
LEMMA StayTurn ==
  ASSUME NEW items, IsSent(items), NEW i \in 1..Len(items.order),
         NEW w, Sorted(w, items, i - 1), NEW id, id = items.order[i], id \in DOMAIN w.node,
         w.node[id].parent = items.node[id].parent, w.node[id].val = items.node[id].val,
         Before(w, id) = Before(items, id)
  PROVE  Sorted(w, items, i)
<1>1. PICK s, b, p : s = items.order /\ b = Before(items, id) /\ p = items.node[id].parent
  OBVIOUS
<1>2. DOMAIN w.node = ToSet(w.order) /\ Neat(w, Id) /\ Distinct(w.order) /\ w.order \in Seq(Id)
  BY IsDocIn DEF Sorted, IsDoc, Neat
<1>3. s \in Seq(ToSet(s))
  BY <1>1 DEF IsSent, IsTree
<1>4. i \in Nat /\ \A j \in 1..i : j = i \/ j \in 1..(i-1)
  <2>1. Len(s) \in Nat
    BY <1>3, LenProperties
  <2> QED BY <1>1, <2>1
<1>5. \A j \in 1..(i-1) : items.node[s[j]].parent = p =>
        b \in Id /\ (s[j] = b \/ Earlier(w.order, s[j], b))
  BY <1>1, AnchorSorted
<1>6. b # AtStart => Earlier(w.order, b, id)
  <2>1. id \in ToSet(w.order)
    BY <1>2
  <2> QED BY <1>1, <1>2, <2>1, BeforeIs
<1>7. ASSUME NEW j \in 1..(i-1), items.node[s[j]].parent = p
      PROVE  Earlier(w.order, s[j], id)
  <2>1. b \in Id /\ (s[j] = b \/ Earlier(w.order, s[j], b))
    BY <1>5, <1>7
  <2>2. Earlier(w.order, b, id)
    BY <1>6, <2>1, AfterAssumption
  <2> QED BY <1>2, <2>1, <2>2, EarlierOrder
<1>8. /\ \A j \in 1..(i-1) :
           /\ s[j] \in DOMAIN w.node
           /\ w.node[s[j]].parent = items.node[s[j]].parent
           /\ w.node[s[j]].val = items.node[s[j]].val
      /\ \A j, l \in 1..(i-1) :
           j < l /\ items.node[s[j]].parent = items.node[s[l]].parent
           => Earlier(w.order, s[j], s[l])
  BY <1>1 DEF Sorted
<1>9. ASSUME NEW j \in 1..i, NEW l \in 1..i, j < l,
             items.node[s[j]].parent = items.node[s[l]].parent
      PROVE  Earlier(w.order, s[j], s[l])
  <2>1. j \in 1..(i-1)
    BY <1>4, <1>9
  <2> QED BY <1>1, <1>4, <1>7, <1>8, <1>9, <2>1
<1>10. \A j \in 1..i : /\ s[j] \in DOMAIN w.node
                       /\ w.node[s[j]].parent = items.node[s[j]].parent
                       /\ w.node[s[j]].val = items.node[s[j]].val
  BY <1>1, <1>4, <1>8
<1> QED BY <1>1, <1>9, <1>10 DEF Sorted

\* Its text first.
LEMMA TextTurn ==
  ASSUME NEW items, IsSent(items), NEW i \in 1..Len(items.order),
         NEW w, Sorted(w, items, i - 1), NEW op, Said(op), op.type = "update",
         op.id = items.order[i], op.id \in DOMAIN w.node, op.val = items.node[op.id].val
  PROVE  LET z == ReplayOp(w, op)
         IN  /\ Good(op, w, items) /\ Sorted(z, items, i - 1)
             /\ op.id \in DOMAIN z.node /\ z.node[op.id].val = items.node[op.id].val
<1>1. PICK s, id, z : s = items.order /\ id = op.id /\ z = ReplayOp(w, op)
  OBVIOUS
<1>2. IsDoc(w, Id)
  BY DEF Sorted
<1>3. z = [w EXCEPT !.node[id].val = op.val]
  BY <1>1 DEF ReplayOp
<1>4. w = [node |-> w.node, order |-> w.order]
  BY <1>2 DEF IsDoc
<1>5. z.order = w.order /\ z.node = [w.node EXCEPT ![id].val = op.val]
  BY <1>3, <1>4
<1>6. \A n \in DOMAIN w.node : w.node[n] = [parent |-> w.node[n].parent, val |-> w.node[n].val]
  BY <1>2, IsDocIn DEF IsDoc
<1>7. DOMAIN z.node = DOMAIN w.node
      /\ \A n \in DOMAIN w.node : /\ z.node[n].parent = w.node[n].parent
                                  /\ z.node[n].val = IF n = id THEN op.val ELSE w.node[n].val
  BY <1>1, <1>5, <1>6
<1>8. IsDoc(z, Id)
  <2>1. IsOp(op, Id)
    BY DEF Said
  <2> QED BY <1>1, <1>2, <2>1, ReplayOpIs
<1>9. Good(op, w, items)
  <2>1. i \in DOMAIN s
    <3>1. s \in Seq(ToSet(s))
      BY <1>1 DEF IsSent, IsTree
    <3> QED BY <1>1, <3>1, LenProperties
  <2>2. id \in ToSet(s)
    BY <1>1, <2>1 DEF ToSet
  <2> QED BY <1>1, <2>2 DEF Good, Fits
<1>10. Sorted(z, items, i - 1)
  BY <1>1, <1>5, <1>7, <1>8 DEF Sorted
<1> QED BY <1>1, <1>7, <1>9, <1>10

\* diff after i nodes of the tree: what it has found is good, and leads to an
\* array that has them.
OnWay(d, doc, items, i) ==
  /\ d = [working |-> d.working, ops |-> d.ops]
  /\ Leads(doc, d.ops, d.working, items) /\ Sorted(d.working, items, i)

\* add, of a good operation.
LEMMA AddLeads ==
  ASSUME NEW doc, NEW items, NEW d, Leads(doc, d.ops, d.working, items),
         NEW op, Good(op, d.working, items), NEW i, Sorted(ReplayOp(d.working, op), items, i)
  PROVE  OnWay(Add(d, op), doc, items, i) /\ Add(d, op).working = ReplayOp(d.working, op)
BY LeadsOn DEF Add, OnWay

\* What the loop says of a node is an operation.
LEMMA TurnOps ==
  ASSUME NEW items, IsSent(items), NEW i \in 1..Len(items.order),
         NEW w, Sorted(w, items, i - 1)
  PROVE  LET id == items.order[i]
         IN  /\ id \in Id
             /\ items.node[id].parent \in Parent /\ Before(items, id) \in After
<1>1. PICK s, id : s = items.order /\ id = s[i]
  OBVIOUS
<1>2. s \in Seq(ToSet(s)) /\ ToSet(s) \subseteq Id
      /\ \A n \in ToSet(s) : items.node[n].parent \in {Root} \cup ToSet(s)
  BY <1>1 DEF IsSent, IsTree
<1>3. PICK n \in Nat : n = Len(s) /\ DOMAIN s = 1..n
  BY <1>2, LenProperties
<1>4. i \in 1..n /\ id \in ToSet(s)
  BY <1>1, <1>3 DEF ToSet
<1>5. \A j \in 1..(i-1) : s[j] \in ToSet(s)
  <2>1. \A j \in 1..(i-1) : j \in 1..n
    BY <1>4
  <2> QED BY <1>3, <2>1 DEF ToSet
<1>6. Before(items, id) = AtStart \/ \E j \in 1..(i-1) : Before(items, id) = s[j]
  BY Zenon, <1>1, AnchorSorted
<1> QED BY <1>1, <1>2, <1>4, <1>5, <1>6 DEF Parent, After

\* One turn of the first loop.
LEMMA WantTurn ==
  ASSUME NEW doc, NEW items, IsSent(items), NEW i \in 1..Len(items.order),
         NEW d, OnWay(d, doc, items, i - 1)
  PROVE  OnWay(Want(d, items, items.order[i]), doc, items, i)
<1>1. PICK id, w : id = items.order[i] /\ w = d.working
  OBVIOUS
<1>2. Sorted(w, items, i - 1) /\ Leads(doc, d.ops, w, items)
  BY <1>1 DEF OnWay
<1>3. PICK p, b, val : p = items.node[id].parent /\ b = Before(items, id)
                       /\ val = items.node[id].val
  BY Zenon
<1>4. id \in Id /\ p \in Parent /\ b \in After
  BY <1>1, <1>2, <1>3, TurnOps
<1>5. CASE id \notin DOMAIN w.node
  <2>1. PICK op : op = [type |-> "insert", id |-> id, parent |-> p, after |-> b, val |-> val]
    BY Zenon
  <2>2. /\ Said(op) /\ op.type = "insert" /\ op.id = id /\ op.parent = p
        /\ op.after = b /\ op.val = val
    BY <1>4, <2>1 DEF Said, IsOp
  <2>3. Good(op, w, items) /\ Sorted(ReplayOp(w, op), items, i)
    BY <1>1, <1>2, <1>3, <1>5, <2>2, PlaceTurn
  <2>4. Want(d, items, id) = Add(d, op)
    BY <1>1, <1>3, <1>5, <2>1 DEF Want, InsertInto
  <2>5. Leads(doc, d.ops, d.working, items) /\ Good(op, d.working, items)
        /\ Sorted(ReplayOp(d.working, op), items, i)
    BY <1>1, <1>2, <2>3
  <2>6. OnWay(Add(d, op), doc, items, i)
    BY <2>5, AddLeads
  <2> QED BY <1>1, <2>4, <2>6
<1>6. CASE id \in DOMAIN w.node
  <2>1. PICK e : e = UpdateIn(d, items, id)
    OBVIOUS
  <2>2. /\ OnWay(e, doc, items, i - 1) /\ id \in DOMAIN e.working.node
        /\ e.working.node[id].val = val
    <3>1. CASE w.node[id].val = val
      <4>1. e = d
        BY <1>1, <1>3, <2>1, <3>1 DEF UpdateIn
      <4> QED BY <1>1, <1>6, <3>1, <4>1
    <3>2. CASE w.node[id].val # val
      <4>1. PICK op : op = [type |-> "update", id |-> id, val |-> val]
        BY Zenon
      <4>2. Said(op) /\ op.type = "update" /\ op.id = id /\ op.val = val
        BY <1>4, <4>1 DEF Said, IsOp
      <4>3. PICK z : z = ReplayOp(w, op)
        OBVIOUS
      <4>4. /\ Good(op, w, items) /\ Sorted(z, items, i - 1)
            /\ id \in DOMAIN z.node /\ z.node[id].val = val
        BY <1>1, <1>2, <1>3, <1>6, <4>2, <4>3, TextTurn
      <4>5. e = Add(d, op)
        BY <1>1, <1>3, <2>1, <3>2, <4>1 DEF UpdateIn
      <4>6. Leads(doc, d.ops, d.working, items) /\ Good(op, d.working, items)
            /\ Sorted(ReplayOp(d.working, op), items, i - 1)
        BY <1>1, <1>2, <4>3, <4>4
      <4>7. OnWay(e, doc, items, i - 1) /\ e.working = ReplayOp(d.working, op)
        BY <4>5, <4>6, AddLeads
      <4> QED BY <1>1, <4>3, <4>4, <4>7
    <3> QED BY <3>1, <3>2
  <2>3. PICK x : x = e.working
    OBVIOUS
  <2>4. /\ Sorted(x, items, i - 1) /\ Leads(doc, e.ops, x, items)
        /\ id \in DOMAIN x.node /\ x.node[id].val = val
    BY <2>2, <2>3 DEF OnWay
  <2>5. Want(d, items, id) = MoveIn(e, items, id)
    BY <1>1, <1>6, <2>1 DEF Want
  <2>6. CASE x.node[id].parent = p /\ Before(x, id) = b
    <3>1. Want(d, items, id) = e
      BY <1>3, <2>3, <2>5, <2>6 DEF MoveIn
    <3>2. Sorted(x, items, i)
      BY <1>1, <1>3, <2>4, <2>6, StayTurn
    <3> QED BY <1>1, <2>2, <2>3, <3>1, <3>2 DEF OnWay
  <2>7. CASE ~(x.node[id].parent = p /\ Before(x, id) = b)
    <3>1. PICK op : op = [type |-> "move", id |-> id, parent |-> p, after |-> b]
      BY Zenon
    <3>2. /\ Said(op) /\ op.type = "move" /\ op.id = id /\ op.parent = p /\ op.after = b
      BY <1>4, <3>1 DEF Said, IsOp
    <3>3. Good(op, x, items) /\ Sorted(ReplayOp(x, op), items, i)
      BY <1>1, <1>3, <2>4, <3>2, PlaceTurn
    <3>4. Want(d, items, id) = Add(e, op)
      BY <1>3, <2>3, <2>5, <2>7, <3>1 DEF MoveIn
    <3>5. Leads(doc, e.ops, e.working, items) /\ Good(op, e.working, items)
          /\ Sorted(ReplayOp(e.working, op), items, i)
      BY <2>3, <2>4, <3>3
    <3>6. OnWay(Add(e, op), doc, items, i)
      BY <3>5, AddLeads
    <3> QED BY <1>1, <3>4, <3>6
  <2> QED BY <2>6, <2>7
<1> QED BY <1>5, <1>6

\* One turn of the second loop: the nodes of the tree stay, since a descendant
\* of a node that is not in the tree is not in it either.
LEMMA DeleteTurn ==
  ASSUME NEW doc, NEW items, IsSent(items), NEW d, OnWay(d, doc, items, Len(items.order)),
         NEW id
  PROVE  LET e == DeleteUnwanted(d, items, id)
         IN  /\ OnWay(e, doc, items, Len(items.order))
             /\ DOMAIN e.working.node \subseteq DOMAIN d.working.node
             /\ id \in DOMAIN e.working.node => id \in DOMAIN items.node
<1>1. PICK w, s, n : w = d.working /\ s = items.order /\ n = Len(s)
  OBVIOUS
<1>2. Sorted(w, items, n) /\ Leads(doc, d.ops, w, items)
  BY <1>1 DEF OnWay
<1>3. PICK T : /\ T = ToSet(s) /\ s \in Seq(T) /\ T = DOMAIN items.node
               /\ \A x \in T : items.node[x].parent \in {Root} \cup T
  BY <1>1, TreeIsDoc DEF IsSent, IsTree
<1>4. n \in Nat /\ DOMAIN s = 1..n /\ \A x \in T : \E j \in 1..n : s[j] = x
  <2>1. n \in Nat /\ DOMAIN s = 1..n
    BY <1>1, <1>3, LenProperties
  <2> QED BY <1>3, <2>1 DEF ToSet
<1>5. PICK D : D = DOMAIN w.node /\ D \subseteq Id /\ IsDoc(w, Id) /\ Distinct(w.order)
  BY <1>2, IsDocIn DEF Sorted
<1>6. /\ \A j \in 1..n : /\ s[j] \in D /\ w.node[s[j]].parent = items.node[s[j]].parent
                         /\ w.node[s[j]].val = items.node[s[j]].val
      /\ \A j, l \in 1..n :
           j < l /\ items.node[s[j]].parent = items.node[s[l]].parent
           => Earlier(w.order, s[j], s[l])
  BY <1>1, <1>2, <1>5 DEF Sorted
<1>7. CASE id \notin D \ T
  BY <1>1, <1>3, <1>5, <1>7 DEF DeleteUnwanted
<1>8. CASE id \in D \ T
  <2>1. PICK op : op = [type |-> "delete", id |-> id]
    BY Zenon
  <2>2. Said(op) /\ op.type = "delete" /\ op.id = id
    BY <1>5, <1>8, <2>1 DEF Said, IsOp
  <2>3. DeleteUnwanted(d, items, id) = Add(d, op)
    BY <1>1, <1>3, <1>5, <1>8, <2>1 DEF DeleteUnwanted
  <2>4. PICK ids : ids = DescendantIds(w.node, id)
    OBVIOUS
  <2>5. id \in ids /\ ids \cap T = {}
    <3>1. PICK C : C = D \ T
      BY Zenon
    <3>2. C \in SUBSET (D \cup {id}) /\ id \in C
      BY <1>8, <3>1
    <3>3. ASSUME NEW x \in D, w.node[x].parent \in C PROVE x \in C
      <4> SUFFICES ASSUME x \in T PROVE FALSE
        BY <3>1
      <4>1. w.node[x].parent \in {Root} \cup T
        BY <1>3, <1>4, <1>6
      <4> QED BY <1>5, <3>1, <3>3, <4>1, RootAssumption
    <3>4. ClosedUnderChildren(w.node, C)
      BY <1>5, <3>3 DEF ClosedUnderChildren
    <3>5. ids \subseteq C
      BY <1>5, <2>4, <3>2, <3>4 DEF DescendantIds
    <3>6. id \in ids
      BY <2>4 DEF DescendantIds
    <3> QED BY <3>1, <3>5, <3>6
  <2>6. Good(op, w, items)
    <3>1. Fits(op, w.node)
      BY <1>5, <1>8, <2>2 DEF Fits
    <3> QED BY <1>1, <1>3, <2>2, <2>4, <2>5, <3>1 DEF Good
  <2>7. PICK z : z = ReplayOp(w, op) /\ z = Drop(w, ids)
    BY <2>2, <2>4 DEF ReplayOp
  <2>8. /\ IsDoc(z, Id) /\ DOMAIN z.node = D \ ids
        /\ \A x \in D \ ids : z.node[x] = w.node[x]
    BY <1>5, <2>7, DropIs
  <2>9. /\ Distinct(z.order)
        /\ \A x, y : Earlier(z.order, x, y) <=>
                       Earlier(w.order, x, y) /\ x \notin ids /\ y \notin ids
    BY <1>5, <2>7, RestEarlier DEF Drop, IsDoc
  <2>10. \A j \in 1..n : s[j] \in T /\ s[j] \in D \ ids
    <3>1. \A j \in 1..n : s[j] \in T
      BY <1>3, <1>4 DEF ToSet
    <3> QED BY <1>6, <2>5, <3>1
  <2>11. Sorted(z, items, n)
    BY <1>1, <1>6, <2>8, <2>9, <2>10 DEF Sorted
  <2>12. Leads(doc, d.ops, d.working, items) /\ Good(op, d.working, items)
         /\ Sorted(ReplayOp(d.working, op), items, n)
    BY <1>1, <1>2, <2>6, <2>7, <2>11
  <2>13. OnWay(Add(d, op), doc, items, n) /\ Add(d, op).working = ReplayOp(d.working, op)
    BY <2>12, AddLeads
  <2> QED BY Zenon, <1>1, <1>5, <2>3, <2>5, <2>7, <2>8, <2>13
<1> QED BY <1>7, <1>8

\* An array with the nodes of the tree, in its order, makes the tree.
LEMMA SortedTree ==
  ASSUME NEW items, IsSent(items), NEW w, Sorted(w, items, Len(items.order)),
         DOMAIN w.node \subseteq DOMAIN items.node
  PROVE  ToItems(w) = ToItems(items)
<1>1. PICK s, n : s = items.order /\ n = Len(s)
  OBVIOUS
<1>2. PICK T : /\ T = ToSet(s) /\ s \in Seq(T) /\ T = DOMAIN items.node
               /\ Distinct(s) /\ T \subseteq Id
  BY <1>1, TreeIsDoc DEF IsSent, IsTree
<1>3. n \in Nat /\ DOMAIN s = 1..n /\ \A x \in T : \E j \in 1..n : s[j] = x
  BY <1>1, <1>2, LenProperties DEF ToSet
<1>4. /\ IsDoc(w, Id) /\ Distinct(w.order) /\ ToSet(w.order) = DOMAIN w.node
      /\ \A j \in 1..n : /\ s[j] \in DOMAIN w.node
                         /\ w.node[s[j]].parent = items.node[s[j]].parent
                         /\ w.node[s[j]].val = items.node[s[j]].val
      /\ \A j, l \in 1..n :
           j < l /\ items.node[s[j]].parent = items.node[s[l]].parent
           => Earlier(w.order, s[j], s[l])
  BY <1>1, IsDocIn DEF Sorted
<1>5. w.order \in Seq(Id) /\ s \in Seq(Id)
  BY <1>2, <1>4, SeqMonotonic DEF IsDoc
<1>6. ToSet(w.order) = T
  <2>1. T \subseteq DOMAIN w.node
    BY <1>3, <1>4
  <2> QED BY <1>2, <1>4, <2>1
<1>7. Neat(w, Id) /\ Neat(items, Id)
  BY <1>1, <1>2, <1>4, <1>5 DEF Neat
<1>8. \A x \in T : /\ w.node[x].parent = items.node[x].parent
                   /\ w.node[x].val = items.node[x].val
  BY <1>3, <1>4
<1>9. ASSUME NEW x \in T, NEW y \in T, items.node[x].parent = items.node[y].parent,
             Earlier(s, x, y)
      PROVE  Earlier(w.order, x, y)
  BY <1>3, <1>9, <1>4 DEF Earlier
<1>10. ASSUME NEW x \in T, NEW y \in T, items.node[x].parent = items.node[y].parent,
              Earlier(w.order, x, y)
       PROVE  Earlier(s, x, y)
  <2>1. x # y
    BY <1>4, <1>5, <1>10, EarlierOrder
  <2>2. Earlier(s, x, y) \/ Earlier(s, y, x)
    BY <1>2, <1>5, <2>1, EarlierOrder
  <2>3. ~Earlier(w.order, y, x)
    BY <1>4, <1>5, <1>10, EarlierOrder
  <2> QED BY <1>9, <1>10, <2>2, <2>3
<1>11. Alike(w, items)
  BY <1>1, <1>2, <1>6, <1>8, <1>9, <1>10 DEF Alike
<1> QED BY <1>7, <1>11, AlikeTree

\* What diff finds leads to the tree, by good operations.
LEMMA DiffLeads ==
  ASSUME NEW doc, IsDoc(doc, Id), Distinct(doc.order), NEW items, IsSent(items)
  PROVE  \E w : Leads(doc, Diff(doc, items), w, items) /\ ToItems(w) = ToItems(items)
<1>1. PICK s, d, e, v :
        /\ s = items.order /\ d = [working |-> doc, ops |-> <<>>]
        /\ e = Wanting!Folded(items, d, s) /\ v = e.working.order
  BY Zenon
<1>2. Diff(doc, items) = Deleting!Folded(items, e, v).ops
  BY Zenon, <1>1, DiffAsFolds
<1>3. s \in Seq(ToSet(s))
  BY <1>1 DEF IsSent, IsTree
<1>4. PICK m \in Nat : m = Len(s) /\ DOMAIN s = 1..m
  BY <1>3, LenProperties
<1>5. PICK g : Wanting!Goes(g, items, d, s, m) /\ Wanting!Folded(items, d, s) = g[m]
  BY <1>3, <1>4, Wanting!FoldValues, NatSetInduction DEF Wanting!Induction
<1>6. OnWay(d, doc, items, 0)
  BY <1>1, LeadsNothing DEF Sorted, OnWay
<1>7. PICK U : U = {k \in Nat : k <= m => OnWay(g[k], doc, items, k)}
  BY Zenon
<1>8. 0 \in U
  <2>1. g[0] = d
    BY <1>5 DEF Wanting!Goes
  <2> QED BY <1>6, <1>7, <2>1
<1>9. ASSUME NEW k \in Nat, k \in U PROVE k + 1 \in U
  <2>1. CASE k + 1 <= m
    BY <2>1, <1>5, <1>1, <1>4, <1>7, <1>9, WantTurn DEF Wanting!Goes, WantOn
  <2> QED BY <1>7, <2>1
<1>10. m \in U
  BY <1>8, <1>9, NatSetInduction
<1>11. OnWay(e, doc, items, Len(items.order))
  BY <1>1, <1>4, <1>5, <1>7, <1>10
<1>12. IsDoc(e.working, Id) /\ DOMAIN e.working.node = ToSet(v)
  BY <1>1, <1>11, IsDocIn DEF OnWay, Sorted
<1>13. v \in Seq(Id)
  BY <1>1, <1>12 DEF IsDoc
<1>14. PICK l \in Nat : l = Len(v) /\ DOMAIN v = 1..l
  BY <1>13, LenProperties
<1>15. PICK h : Deleting!Goes(h, items, e, v, l) /\ Deleting!Folded(items, e, v) = h[l]
  BY <1>13, <1>14, Deleting!FoldValues, NatSetInduction DEF Deleting!Induction
<1> DEFINE Cleared(k) == /\ OnWay(h[k], doc, items, Len(items.order))
                       /\ DOMAIN h[k].working.node \subseteq ToSet(v)
                       /\ \A j \in 1..k : v[j] \in DOMAIN h[k].working.node =>
                                            v[j] \in DOMAIN items.node
<1>16. PICK V : V = {k \in Nat : k <= l => Cleared(k)}
  BY Zenon
<1>17. 0 \in V
  <2>1. h[0] = e
    BY <1>15 DEF Deleting!Goes
  <2> QED BY <1>11, <1>12, <1>16, <2>1
<1>18. ASSUME NEW k \in Nat, k \in V PROVE k + 1 \in V
  <2>1. CASE k + 1 <= l
    <3>1. k + 1 \in 1..l /\ (k + 1) - 1 = k
      BY <2>1
    <3>2. PICK x, y, id : x = h[k] /\ y = h[k+1] /\ id = v[k+1]
      OBVIOUS
    <3>3. h[k+1] = DeleteOn(items, h[(k + 1) - 1], v[k+1])
      BY <1>15, <3>1 DEF Deleting!Goes
    <3>4. y = DeleteUnwanted(x, items, id)
      BY <3>1, <3>2, <3>3 DEF DeleteOn
    <3>5. Cleared(k)
      BY <1>16, <1>18, <2>1
    <3>6. OnWay(x, doc, items, Len(items.order))
      BY <3>2, <3>5
    <3>7. /\ OnWay(y, doc, items, Len(items.order))
          /\ DOMAIN y.working.node \subseteq DOMAIN x.working.node
          /\ id \in DOMAIN y.working.node => id \in DOMAIN items.node
      BY <3>4, <3>6, DeleteTurn
    <3>8. \A j \in 1..(k+1) : j = k + 1 \/ j \in 1..k
      OBVIOUS
    <3>9. Cleared(k + 1)
      BY <3>2, <3>5, <3>7, <3>8
    <3> QED BY <1>16, <3>9
  <2> QED BY <1>16, <2>1
<1>19. Cleared(l)
  <2>1. l \in V
    BY <1>17, <1>18, NatSetInduction
  <2> QED BY <1>16, <2>1
<1>20. PICK z, w : z = h[l] /\ w = z.working
  OBVIOUS
<1>21. OnWay(z, doc, items, Len(items.order)) /\ DOMAIN w.node \subseteq DOMAIN items.node
  BY <1>14, <1>19, <1>20 DEF ToSet
<1>22. Diff(doc, items) = z.ops
  BY <1>2, <1>15, <1>20
<1>23. Leads(doc, Diff(doc, items), w, items) /\ Sorted(w, items, Len(items.order))
  BY <1>20, <1>21, <1>22 DEF OnWay
<1>24. ToItems(w) = ToItems(items)
  BY <1>21, <1>23, SortedTree
<1> QED BY <1>23, <1>24

\* Replay goes through the arrays diff went through.
LEMMA LeadsReplay ==
  ASSUME NEW doc, NEW ops, NEW w, NEW items, Leads(doc, ops, w, items)
  PROVE  /\ Len(ops) \in Nat /\ DOMAIN ops = 1..Len(ops)
         /\ Replay(doc, SubSeq(ops, 1, 0)) = doc /\ Replay(doc, SubSeq(ops, 1, Len(ops))) = w
         /\ \A j \in 1..Len(ops) :
              LET d == Replay(doc, SubSeq(ops, 1, j - 1))
              IN  /\ Good(ops[j], d, items)
                  /\ Replay(doc, SubSeq(ops, 1, j)) = ReplayOp(d, ops[j])
<1> PICK S : ops \in Seq(S)
  BY DEF Leads
<1>1. PICK n \in Nat : n = Len(ops) /\ DOMAIN ops = 1..n /\ ops \in Seq(S)
  BY LenProperties
<1>2. PICK g : /\ g[0] = doc /\ g[n] = w
               /\ \A j \in 1..n : /\ g[j] = ReplayOp(g[j-1], ops[j])
                                  /\ Good(ops[j], g[j-1], items)
  BY <1>1 DEF Leads
<1>3. ASSUME NEW j \in 0..n PROVE Replay(doc, SubSeq(ops, 1, j)) = g[j]
  <2>1. PICK s : s = SubSeq(ops, 1, j)
    BY Zenon
  <2>2. DOMAIN s = 1..j /\ \A i \in 1..j : s[i] = ops[i]
    <3>1. CASE j = 0
      BY <1>1, <2>1, <3>1, SubSeqEmpty
    <3>2. CASE j # 0
      BY <3>2, <1>1, <2>1, SubSeqProperties, LenProperties
    <3> QED BY <3>1, <3>2
  <2>3. \A k \in 1..j : g[k] = EditOn(0, g[k-1], s[k])
    <3>1. \A k \in 1..j : k \in 1..n
      OBVIOUS
    <3> QED BY <1>2, <2>2, <3>1 DEF EditOn
  <2>4. Editing!Goes(g, 0, doc, s, j)
    BY <1>2, <2>3 DEF Editing!Goes
  <2>5. Editing!Folded(0, doc, s) = g[j]
    <3>1. j \in Nat
      OBVIOUS
    <3>2. Editing!Induction
      BY NatSetInduction DEF Editing!Induction
    <3> QED BY <2>2, <2>4, <3>1, <3>2, Editing!FoldIs
  <2> QED BY <2>1, <2>5, ReplayAsFold
<1>4. 0 \in 0..n /\ n \in 0..n /\ \A j \in 1..n : j \in 0..n /\ j - 1 \in 0..n
  OBVIOUS
<1>5. \A j \in 1..n : /\ Replay(doc, SubSeq(ops, 1, j - 1)) = g[j-1]
                      /\ Replay(doc, SubSeq(ops, 1, j)) = g[j]
  BY <1>3, <1>4
<1> QED BY <1>1, <1>2, <1>3, <1>4, <1>5

\* A good operation, where the store's copy is the same tree.
LEMMA GoodAccepted ==
  ASSUME NEW d, IsDoc(d, Id), Distinct(d.order), NEW w, IsArray(w), Alike(d, w),
         NEW items, DOMAIN w.tombs \cap ToSet(items.order) = {},
         NEW op, Good(op, d, items), NEW initial, NEW base \in Nat,
         \A id \in DOMAIN initial : ~(initial[id].changedAt > base), NEW rev \in Nat
  PROVE  /\ Accepts(op, w, initial, base)
         /\ DOMAIN Effect(op, w, rev).tombs \cap ToSet(items.order) = {}
<1>1. PICK D : /\ D = DOMAIN d.node /\ D = DOMAIN w.node /\ D \subseteq Id
               /\ \A n \in D : d.node[n].parent = w.node[n].parent
  BY IsDocIn DEF IsArray, Neat, Alike
<1>2. Said(op) /\ IsOp(op, Id)
  BY DEF Good, Fits, Said
<1>3. PICK ids : ids = DescendantIds(w.node, op.id) /\ ids = DescendantIds(d.node, op.id)
  <2>1. DOMAIN d.node = DOMAIN w.node
        /\ \A n \in DOMAIN d.node : d.node[n].parent = w.node[n].parent
    BY <1>1
  <2>2. DescendantIds(d.node, op.id) = DescendantIds(w.node, op.id)
    BY <2>1, SameDescendants
  <2> QED BY <2>2
<1>4. \A id : ~Conflicts(initial, id, base)
  BY DEF Conflicts
<1>5. w = [node |-> w.node, order |-> w.order, tombs |-> w.tombs]
  BY DEF IsArray, IsOutline
<1>6. CASE op.type = "insert"
  <2>1. /\ op.id \notin D /\ CanPlace(d.node, op.id, op.parent, op.after)
        /\ op.id \in ToSet(items.order)
    BY <1>1, <1>6 DEF Good, Fits
  <2>2. CanPlace(w.node, op.id, op.parent, op.after)
    BY <1>1, <2>1 DEF CanPlace
  <2>3. Accepts(op, w, initial, base)
    BY <1>1, <1>4, <1>6, <2>1, <2>2 DEF Accepts
  <2>4. Effect(op, w, rev).tombs = w.tombs
    BY Zenon, <1>6, <1>5 DEF Effect, Inserted
  <2> QED BY <2>3, <2>4
<1>7. CASE op.type = "update"
  <2>1. op.id \in D
    BY <1>1, <1>7 DEF Good, Fits
  <2>2. Accepts(op, w, initial, base)
    BY <1>1, <1>4, <1>7, <2>1 DEF Accepts
  <2>3. Effect(op, w, rev).tombs = w.tombs
    <3>1. PICK x : Effect(op, w, rev) = [w EXCEPT !.node = x]
      BY <1>7 DEF Effect, Updated
    <3> QED BY <1>5, <3>1
  <2> QED BY <2>2, <2>3
<1>8. CASE op.type = "move"
  <2>1. /\ op.id \in D /\ op.parent \notin ids
        /\ CanPlace(Without(d.node, {op.id}), op.id, op.parent, op.after)
    BY <1>1, <1>3, <1>8 DEF Good, Fits
  <2>2. PICK f, h : f = Without(d.node, {op.id}) /\ h = Without(w.node, {op.id})
    OBVIOUS
  <2>3. /\ DOMAIN f = D \ {op.id} /\ DOMAIN h = D \ {op.id}
        /\ \A n \in D \ {op.id} : f[n] = d.node[n] /\ h[n] = w.node[n]
    BY Zenon, <1>1, <2>2 DEF Without
  <2>4. CanPlace(h, op.id, op.parent, op.after)
    <3>1. CanPlace(f, op.id, op.parent, op.after)
      BY <2>1, <2>2
    <3>2. \A n \in D \ {op.id} : h[n].parent = f[n].parent
      BY <1>1, <2>3
    <3> QED BY ONLY <2>3, <3>1, <3>2 DEF CanPlace
  <2>5. Accepts(op, w, initial, base)
    BY <1>1, <1>3, <1>4, <1>8, <2>1, <2>2, <2>4 DEF Accepts
  <2>6. Effect(op, w, rev).tombs = w.tombs
    BY Zenon, <1>8, <1>5 DEF Effect, Moved
  <2> QED BY <2>5, <2>6
<1>9. CASE op.type = "delete"
  BY <1>1, <1>3, <1>9, <1>4 DEF Good, Fits, Accepts, Effect, Deleted
<1> QED BY <1>2, <1>6, <1>7, <1>8, <1>9 DEF IsOp

-----------------------------------------------------------------------------
(* A save that nobody interferes with *)

\* The store accepts the next operation of the batch,
NothingRefused == turn <= Len(steps) => Accepted
\* and after the last one has the tree the browser sent.
TreeReached == turn > Len(steps) => ToItems(copy) = sent

\* The array replay has made of the document so far.
Replayed == Replay(ToItems(found), SubSeq(steps, 1, turn - 1))

\* The batch is one diff finds; the browser's array and the store's copy make
\* the same tree, and no id the tree needs is that of a deleted node.
SaveInv ==
  /\ found \in Document /\ sent \in Wanted
  /\ \E w : Leads(ToItems(found), steps, w, sent) /\ ToItems(w) = sent
  /\ turn \in 1..(Len(steps) + 1)
  /\ IsDoc(Replayed, Id) /\ Distinct(Replayed.order)
  /\ IsArray(copy) /\ Alike(Replayed, copy)
  /\ DOMAIN copy.tombs \cap ToSet(sent.order) = {}

\* What the store keeps is an array of a forest,
LEMMA StorableIs ==
  ASSUME NEW w, Storable(w)
  PROVE  IsArray(w) /\ Forest(w.node)
<1>1. IsOutline(w, Id)
  BY DEF Storable, IsOutline
<1>2. w.order \in Seq(Id)
  BY SeqMonotonic DEF Storable
<1>3. Neat(w, Id)
  BY <1>2 DEF Storable, Neat, Distinct
<1>4. Holds(w.node, DOMAIN w.node)
  BY NodesHold DEF Storable
<1> QED BY <1>1, <1>3, <1>4 DEF Storable, IsArray

\* and what the browser sends is a tree.
LEMMA SendableIs ==
  ASSUME NEW d, Sendable(d)
  PROVE  IsSent(d) /\ ToItems(d) = d /\ DOMAIN d.node = ToSet(d.order)
<1>1. IsTree(d) /\ ToItems(d) = d /\ d.order \in Seq(Id)
  BY ToItemsIs DEF Sendable
<1>2. DOMAIN d.node = ToSet(d.order) /\ ToSet(d.order) \subseteq Id
  BY <1>1, TreeIsDoc, ToSetIn
<1> QED BY <1>1, <1>2, ParentFirst DEF IsSent

LEMMA SaveArrivesInv == SaveArrives => SaveInv
<1> SUFFICES ASSUME SaveArrives PROVE SaveInv
  OBVIOUS
<1>1. /\ found \in Document /\ sent \in Wanted /\ steps = Diff(ToItems(found), sent)
      /\ turn = 1 /\ copy = found /\ DOMAIN found.tombs \cap DOMAIN sent.node = {}
  BY DEF SaveArrives
<1>2. IsArray(found) /\ Forest(found.node)
  BY <1>1, DocumentAssumption, StorableIs
<1>3. IsSent(sent) /\ ToItems(sent) = sent /\ DOMAIN sent.node = ToSet(sent.order)
  BY <1>1, WantedAssumption, SendableIs
<1>4. PICK doc : doc = ToItems(found)
  OBVIOUS
<1>5. Neat(doc, Id) /\ Alike(doc, found)
  BY <1>2, <1>4, ForestTree DEF IsArray
<1>6. IsDoc(doc, Id)
  BY <1>2, <1>4, OutlineTree DEF IsArray
<1>7. Distinct(doc.order)
  BY <1>5 DEF Neat
<1>8. PICK w : Leads(doc, steps, w, sent) /\ ToItems(w) = sent
  BY <1>1, <1>3, <1>4, <1>6, <1>7, DiffLeads
<1>9. Len(steps) \in Nat /\ Replay(doc, SubSeq(steps, 1, 0)) = doc
  BY <1>8, LeadsReplay
<1>10. Replayed = doc
  <2>1. turn - 1 = 0
    BY <1>1
  <2> QED BY <1>4, <1>9, <2>1 DEF Replayed
<1> QED BY <1>1, <1>2, <1>3, <1>4, <1>5, <1>6, <1>7, <1>8, <1>9, <1>10 DEF SaveInv

\* What the store does with the next operation.
LEMMA NextTurn ==
  ASSUME SaveInv, turn <= Len(steps)
  PROVE  LET z == Effect(steps[turn], copy, AtRevision + 1)
             b == Replay(ToItems(found), SubSeq(steps, 1, turn))
         IN  /\ Accepted
             /\ turn + 1 \in 1..(Len(steps) + 1)
             /\ IsDoc(b, Id) /\ Distinct(b.order) /\ IsArray(z) /\ Alike(b, z)
             /\ DOMAIN z.tombs \cap ToSet(sent.order) = {}
<1>1. PICK w : Leads(ToItems(found), steps, w, sent) /\ ToItems(w) = sent
  BY DEF SaveInv
<1>2. PICK d, op, doc : d = Replayed /\ op = steps[turn] /\ doc = ToItems(found)
  OBVIOUS
<1>3. turn \in 1..Len(steps) /\ turn + 1 \in 1..(Len(steps) + 1)
  BY <1>1, LeadsReplay DEF SaveInv
<1>4. Good(op, d, sent) /\ Replay(doc, SubSeq(steps, 1, turn)) = ReplayOp(d, op)
  BY <1>1, <1>2, <1>3, LeadsReplay DEF Replayed
<1>5. /\ IsDoc(d, Id) /\ Distinct(d.order) /\ IsArray(copy) /\ Alike(d, copy)
      /\ DOMAIN copy.tombs \cap ToSet(sent.order) = {} /\ found \in Document
  BY <1>2 DEF SaveInv
<1>6. \A id \in DOMAIN found.node : ~(found.node[id].changedAt > AtRevision)
  BY <1>5, DocumentAssumption, RevisionAssumption DEF Storable, Node, Rev
<1>7. AtRevision + 1 \in Nat
  BY RevisionAssumption
<1>8. /\ Accepts(op, copy, found.node, AtRevision)
      /\ DOMAIN Effect(op, copy, AtRevision + 1).tombs \cap ToSet(sent.order) = {}
  BY Zenon, <1>4, <1>5, <1>6, <1>7, RevisionAssumption, GoodAccepted
<1>9. Said(op)
  BY <1>4 DEF Good, Fits
<1>10. LET z == Effect(op, copy, AtRevision + 1)
           b == ReplayOp(d, op)
       IN  IsDoc(b, Id) /\ Distinct(b.order) /\ IsArray(z) /\ Alike(b, z)
  BY <1>5, <1>7, <1>8, <1>9, AlikeStep
<1> QED BY <1>2, <1>3, <1>4, <1>8, <1>10 DEF Accepted

LEMMA SaveStep == SaveInv /\ [TakeTurn]_saveVars => SaveInv'
<1>1. ASSUME SaveInv, TakeTurn PROVE SaveInv'
  <2>1. /\ turn <= Len(steps) /\ turn' = turn + 1
        /\ copy' = Effect(steps[turn], copy, AtRevision + 1)
        /\ found' = found /\ sent' = sent /\ steps' = steps
    BY <1>1 DEF TakeTurn
  <2>2. PICK z, b : /\ z = Effect(steps[turn], copy, AtRevision + 1)
                    /\ b = Replay(ToItems(found), SubSeq(steps, 1, turn))
    OBVIOUS
  <2>3. /\ turn + 1 \in 1..(Len(steps) + 1)
        /\ IsDoc(b, Id) /\ Distinct(b.order) /\ IsArray(z) /\ Alike(b, z)
        /\ DOMAIN z.tombs \cap ToSet(sent.order) = {}
    BY <1>1, <2>1, <2>2, NextTurn
  <2>4. Replayed' = b
    <3>1. (turn + 1) - 1 = turn
      BY <1>1 DEF SaveInv
    <3> QED BY <2>1, <2>2, <3>1 DEF Replayed
  <2>5. /\ found \in Document /\ sent \in Wanted
        /\ \E w : Leads(ToItems(found), steps, w, sent) /\ ToItems(w) = sent
    BY <1>1 DEF SaveInv
  <2> QED BY <2>1, <2>2, <2>3, <2>4, <2>5 DEF SaveInv
<1>2. ASSUME SaveInv, UNCHANGED saveVars PROVE SaveInv'
  BY <1>2 DEF SaveInv, Replayed, saveVars
<1> QED BY <1>1, <1>2

THEOREM SaveInvariant == SaveSpec => []SaveInv
BY SaveArrivesInv, SaveStep, PTL DEF SaveSpec

\* After every operation the array replay makes and the store's copy are the
\* same tree.
THEOREM ReplayFollowsStoreHolds == SaveSpec => []ReplayFollowsStore
<1>1. SaveInv => ReplayFollowsStore
  BY IsDocIn, AlikeTree DEF SaveInv, IsDoc, Neat, IsArray, ReplayFollowsStore,
     Replayed
<1> QED BY <1>1, SaveInvariant, PTL

\* The store refuses no operation of the batch.
THEOREM NothingRefusedHolds == SaveSpec => []NothingRefused
<1>1. SaveInv => NothingRefused
  BY NextTurn DEF NothingRefused
<1> QED BY <1>1, SaveInvariant, PTL

\* When the batch is done the store has the tree the browser sent.
THEOREM TreeReachedHolds == SaveSpec => []TreeReached
<1>1. SaveInv => TreeReached
  BY LeadsReplay, IsDocIn, AlikeTree DEF TreeReached, SaveInv, Replayed, IsDoc, Neat,
     IsArray
<1> QED BY <1>1, SaveInvariant, PTL

=============================================================================
