----------------------------- MODULE JudgingProofs -----------------------------
(***************************************************************************)
(* What a note is worth and what is told of it, in three parts: the score  *)
(* of one note, the length gate in front of it, and the briefs read from   *)
(* the rows of many.                                                       *)
(***************************************************************************)
EXTENDS Judging, Briefs, FiniteSetTheorems, WellFoundedInduction, TLAPS

-----------------------------------------------------------------------------
(* Numbers and sums over finite sets *)

\* A non-empty set of numbers has a least one: induction, stated of a set.
LEMMA Least ==
    ASSUME NEW S \in SUBSET Nat, S # {}
    PROVE  \E n \in S : \A m \in S : n <= m
<1> DEFINE R == OpToRel(<, Nat)
<1>1. IsWellFoundedOn(R, Nat)
  BY NatLessThanWellFounded
<1>2. \A x, y \in Nat : <<x, y>> \in R <=> x < y
  BY DEF OpToRel
<1> HIDE DEF R
<1>3. \E x \in S : \A y \in S : ~ (<<y, x>> \in R)
  BY <1>1, WFMin
<1>4. PICK x \in S : \A y \in S : ~ (<<y, x>> \in R)
  BY <1>3
<1>5. ASSUME NEW y \in S PROVE x <= y
  <2>1. x \in Nat /\ y \in Nat /\ ~ (<<y, x>> \in R)
    BY <1>4
  <2>2. ~ (y < x)
    BY <1>2, <2>1
  <2> QED
    BY <2>1, <2>2
<1> QED
  BY <1>5

\* The element a fold takes next.
Taken(s) == CHOOSE x \in s : TRUE

\* A sum over a finite set is what any function that adds the terms one at a
\* time, in the fold's own order, says of it.
LEMMA SumUnfolds ==
    ASSUME NEW S, IsFiniteSet(S), NEW f, NEW g \in [SUBSET S -> Nat],
           g[{}] = 0,
           \A s \in SUBSET S : s # {} => g[s] = f[Taken(s)] + g[s \ {Taken(s)}]
    PROVE  SumFunctionOnSet(f, S) = g[S]
<1> DEFINE step(h) == [s \in SUBSET S |-> IF s = {} THEN 0 ELSE f[Taken(s)] + h[s \ {Taken(s)}]]
           iter == CHOOSE h : h = step(h)
<1>1. SumFunctionOnSet(f, S) = iter[S]
  BY DEF SumFunctionOnSet, FoldFunctionOnSet, MapThenFoldSet, Taken
<1>2. \A s \in SUBSET S : s # {} => Taken(s) \in s
  BY DEF Taken
<1>3. g = step(g)
  OBVIOUS
<1>4. iter = step(iter)
  <2> HIDE DEF step
  <2> QED
    BY <1>3
<1>5. /\ iter[{}] = 0
      /\ \A s \in SUBSET S : s # {} => iter[s] = f[Taken(s)] + iter[s \ {Taken(s)}]
  <2> HIDE DEF iter
  <2> QED
  BY <1>4
<1>6. /\ g[{}] = 0
      /\ \A s \in SUBSET S : s # {} => g[s] = f[Taken(s)] + g[s \ {Taken(s)}]
  OBVIOUS
<1> HIDE DEF iter, step
<1> DEFINE differ == {s \in SUBSET S : iter[s] # g[s]}
           sizes == {Cardinality(s) : s \in differ}
<1>7. ASSUME differ # {} PROVE FALSE
  <2>1. \A s \in SUBSET S : IsFiniteSet(s) /\ Cardinality(s) \in Nat
    BY FS_Subset, FS_CardinalityType
  <2>2. sizes \in SUBSET Nat /\ sizes # {}
    BY <1>7, <2>1
  <2>3. PICK n \in sizes : \A m \in sizes : n <= m
    BY <2>2, Least
  <2>4. PICK s \in differ : Cardinality(s) = n
    BY <2>3
  <2>5. s # {}
    BY <1>5, <1>6, <2>4
  <2> DEFINE t == s \ {Taken(s)}
  <2>6. t \in SUBSET S /\ Cardinality(t) = n - 1
    BY <1>2, <2>1, <2>4, <2>5, FS_RemoveElement
  <2>7. t \notin differ
    <3>1. t \in differ => n <= Cardinality(t)
      BY <2>3
    <3>2. n \in Nat
      BY <2>2
    <3> QED
      BY <2>6, <3>1, <3>2
  <2> QED
    BY <1>5, <1>6, <2>4, <2>5, <2>6, <2>7
<1> QED
  BY <1>1, <1>7

\* The sizes of disjoint parts add up to the size of the whole.
LEMMA PartsAddUp ==
    ASSUME NEW P, IsFiniteSet(P), NEW whole, IsFiniteSet(whole), NEW part \in [P -> SUBSET whole],
           \A p, q \in P : p # q => part[p] \cap part[q] = {},
           \A e \in whole : \E p \in P : e \in part[p]
    PROVE  SumFunctionOnSet([p \in P |-> Cardinality(part[p])], P) = Cardinality(whole)
<1> DEFINE under(s) == {e \in whole : \E p \in s : e \in part[p]}
           f == [p \in P |-> Cardinality(part[p])]
           g == [s \in SUBSET P |-> Cardinality(under(s))]
<1>1. g[{}] = 0
  BY FS_EmptySet
<1>2. ASSUME NEW s \in SUBSET P, s # {}
      PROVE  g[s] = f[Taken(s)] + g[s \ {Taken(s)}]
  <2> DEFINE x == Taken(s)
             rest == under(s \ {x})
             own == part[x]
  <2>1. x \in s /\ x \in P
    BY <1>2 DEF Taken
  <2> HIDE DEF x
  <2>2. under(s) = rest \cup own /\ rest \cap own = {} /\ rest \subseteq whole /\ own \subseteq whole
    BY <2>1
  <2>3. g[s] = Cardinality(rest \cup own) /\ g[s \ {x}] = Cardinality(rest) /\ f[x] = Cardinality(own)
    BY <2>1, <2>2
  <2> HIDE DEF rest, own, g, f, under
  <2>4. IsFiniteSet(rest) /\ IsFiniteSet(own)
    BY <2>2, FS_Subset
  <2>5. /\ Cardinality(rest \cup own) = Cardinality(rest) + Cardinality(own) - Cardinality(rest \cap own)
        /\ Cardinality(rest) \in Nat /\ Cardinality(own) \in Nat /\ Cardinality(rest \cap own) = 0
    BY <2>2, <2>4, FS_Union, FS_CardinalityType, FS_EmptySet
  <2>6. g[s] = f[x] + g[s \ {x}]
    BY <2>3, <2>5
  <2> QED
    BY <2>1, <2>6 DEF x
<1>3. g \in [SUBSET P -> Nat]
  <2>1. \A s \in SUBSET P : under(s) \subseteq whole
    OBVIOUS
  <2> HIDE DEF under
  <2>2. \A s \in SUBSET P : Cardinality(under(s)) \in Nat
    BY <2>1, FS_Subset, FS_CardinalityType
  <2> QED
    BY <2>2
<1>4. g[P] = Cardinality(whole)
  <2>1. under(P) = whole
    OBVIOUS
  <2> QED
    BY <2>1
<1> HIDE DEF g, f, under
<1>5. SumFunctionOnSet(f, P) = g[P]
  <2>1. \A s \in SUBSET P : s # {} => g[s] = f[Taken(s)] + g[s \ {Taken(s)}]
    BY <1>2
  <2> QED
    BY ONLY IsFiniteSet(P), <1>1, <1>3, <2>1, SumUnfolds, Zenon
<1> QED
  BY <1>4, <1>5 DEF f

\* A sum over more places, of terms that are no smaller, is no smaller.
LEMMA SumGrows ==
    ASSUME NEW S, IsFiniteSet(S), NEW R \in SUBSET S, NEW f \in [R -> Nat], NEW g \in [S -> Nat],
           \A p \in R : f[p] <= g[p]
    PROVE  /\ SumFunctionOnSet(f, R) \in Nat /\ SumFunctionOnSet(g, S) \in Nat
           /\ SumFunctionOnSet(f, R) <= SumFunctionOnSet(g, S)
<1> DEFINE units(h, P) == {e \in P \X Nat : e[2] \in 1..h[e[1]]}
<1>1. ASSUME NEW P \in SUBSET S, NEW h \in [P -> Nat]
      PROVE  IsFiniteSet(units(h, P)) /\ SumFunctionOnSet(h, P) = Cardinality(units(h, P))
  <2> DEFINE part == [p \in P |-> {p} \X (1..h[p])]
             parts == {part[p] : p \in P}
             whole == units(h, P)
  <2>1. ASSUME NEW p \in P
        PROVE  IsFiniteSet(part[p]) /\ Cardinality(part[p]) = h[p]
    <3>1. IsFiniteSet(1..h[p]) /\ Cardinality(1..h[p]) = h[p]
      BY FS_Interval
    <3>2. IsFiniteSet({p}) /\ Cardinality({p}) = 1
      BY FS_Singleton
    <3>3. /\ IsFiniteSet({p} \X (1..h[p]))
          /\ Cardinality({p} \X (1..h[p])) = Cardinality({p}) * Cardinality(1..h[p])
      BY <3>1, <3>2, FS_Product
    <3>4. h[p] \in Nat
      OBVIOUS
    <3> QED
      BY <3>1, <3>2, <3>3, <3>4
  <2>2. whole = UNION parts /\ \A p \in P : part[p] \subseteq whole
    OBVIOUS
  <2>3. \A e \in whole : \E p \in P : e \in part[p]
    OBVIOUS
  <2>4. \A p, q \in P : p # q => part[p] \cap part[q] = {}
    OBVIOUS
  <2>5. IsFiniteSet(P)
    BY FS_Subset
  <2>6. part \in Surjection(P, parts)
    BY DEF Surjection
  <2>7. part \in [P -> SUBSET whole]
    BY <2>2
  <2> HIDE DEF part, whole, parts
  <2>8. IsFiniteSet(parts)
    BY <2>5, <2>6, FS_Surjection
  <2>9. \A T \in parts : IsFiniteSet(T)
    BY <2>1 DEF parts
  <2>10. IsFiniteSet(whole)
    BY <2>2, <2>8, <2>9, FS_UNION
  <2>11. h = [p \in P |-> Cardinality(part[p])]
    BY <2>1
  <2>12. SumFunctionOnSet([p \in P |-> Cardinality(part[p])], P) = Cardinality(whole)
    BY ONLY <2>3, <2>4, <2>5, <2>7, <2>10, PartsAddUp
  <2> QED
    BY <2>10, <2>11, <2>12 DEF whole
<1>2. units(f, R) \subseteq units(g, S)
  OBVIOUS
<1> HIDE DEF units
<1>3. IsFiniteSet(units(g, S)) /\ SumFunctionOnSet(g, S) = Cardinality(units(g, S))
      /\ SumFunctionOnSet(f, R) = Cardinality(units(f, R)) /\ IsFiniteSet(units(f, R))
  BY <1>1
<1>4. Cardinality(units(f, R)) <= Cardinality(units(g, S))
      /\ Cardinality(units(f, R)) \in Nat /\ Cardinality(units(g, S)) \in Nat
  BY <1>2, <1>3, FS_Subset, FS_CardinalityType
<1> QED
  BY <1>3, <1>4

-----------------------------------------------------------------------------
(***************************************************************************)
(* Part one.  Scoring for every rubric startup accepts: any weights that   *)
(* sum to 100, any ascending bands, any thresholds in order, the           *)
(* deal_specifics switch either way.  The argument goes from the marks of  *)
(* one component over their sum to the rescaled total, each step shown to  *)
(* keep within its bounds and to order as what it is made from; the        *)
(* invariant then only has to say that a score in force is ComputeScore of *)
(* the note it is of, under a rubric that was accepted.                    *)
(***************************************************************************)

\* A rubric in force.
Accepted(cfg) == Typed(cfg) /\ FieldsAllowed(cfg) /\ Check(cfg)

\* The checks that earn marks, closure being a bypass, and a complete component.
Ordinary(c) == ChecksByComponent[c] \ {"ns_closure"}
CompleteIn(c, yes) == Ordinary(c) \subseteq yes \/ (c = "next_step_date" /\ "ns_closure" \in yes)

-----------------------------------------------------------------------------
(* Arithmetic *)

\* Division rounds down.
LEMMA Division ==
    ASSUME NEW n \in Nat, NEW d \in Nat \ {0}
    PROVE  /\ n \div d \in Nat
           /\ (n \div d) * d <= n
           /\ n < (n \div d) * d + d
  OBVIOUS

\* Division orders as the numbers divided do.
LEMMA DivisionOrdered ==
    ASSUME NEW d \in Nat \ {0}, NEW m \in Nat, NEW n \in Nat, m <= n
    PROVE  m \div d <= n \div d
  OBVIOUS

\* A rescaled share is a percentage, it orders as the marks do, and only all
\* the marks there are rescale to 100: rounding lifts nothing to it.
LEMMA RescaleFaithful ==
    ASSUME NEW d \in 1..100, NEW raw \in 0..d, NEW more \in raw..d
    PROVE  /\ Rescale(raw, d) \in 0..100
           /\ Rescale(raw, d) <= Rescale(more, d)
           /\ Rescale(raw, d) = 100 <=> raw = d
<1> DEFINE half == d \div 2
           n == raw * 100 + half
           q == n \div d
<1>1. half \in Nat /\ 2 * half <= d
  OBVIOUS
<1>2. n \in Nat /\ more * 100 + half \in Nat /\ n <= more * 100 + half
  BY <1>1
<1>3. q \in Nat /\ q * d <= n /\ n < q * d + d
  <2> HIDE DEF n
  <2> QED
    BY <1>2, Division
<1>4. q <= (more * 100 + half) \div d
  <2> HIDE DEF n, half
  <2> QED
    BY <1>2, DivisionOrdered
<1>5. q <= 100
  <2>1. SUFFICES ASSUME q >= 101 PROVE FALSE
    BY <1>3
  <2>2. q * d >= 101 * d
    <3> HIDE DEF q
    <3> QED
      BY <1>3, <2>1
  <2>3. n <= 100 * d + half
    OBVIOUS
  <2> QED
    BY <1>1, <1>3, <2>2, <2>3
<1>6. q = 100 => raw = d
  BY <1>1, <1>3
<1>7. raw = d => q = 100
  <2> SUFFICES ASSUME raw = d, q <= 99 PROVE FALSE
    BY <1>3, <1>5
  <2>1. q * d <= 99 * d
    <3> HIDE DEF q
    <3> QED
      BY <1>3
  <2>2. n >= 100 * d
    BY <1>1
  <2> QED
    BY <1>3, <2>1, <2>2
<1> QED
  BY <1>3, <1>4, <1>5, <1>6, <1>7 DEF Rescale

\* A sum orders as its terms do, and equal sums of ordered terms have equal terms.
LEMMA SumOrdered ==
    ASSUME NEW S \in SUBSET Components, NEW f, NEW g,
           \A c \in S : f[c] \in Nat /\ g[c] \in Nat /\ f[c] <= g[c]
    PROVE  /\ SumOver(f, S) \in Nat
           /\ SumOver(f, S) <= SumOver(g, S)
           /\ SumOver(f, S) = SumOver(g, S) => \A c \in S : f[c] = g[c]
<1> DEFINE at(h, c) == IF c \in S THEN h[c] ELSE 0
<1>1. \A c \in Components : at(f, c) \in Nat /\ at(g, c) \in Nat /\ at(f, c) <= at(g, c)
  OBVIOUS
<1>2. /\ SumOver(f, S) = at(f, "what_happened") + at(f, "client_said") + at(f, "next_step_date")
                            + at(f, "deal_specifics") + at(f, "clarity")
      /\ SumOver(g, S) = at(g, "what_happened") + at(g, "client_said") + at(g, "next_step_date")
                            + at(g, "deal_specifics") + at(g, "clarity")
  BY DEF SumOver
<1> HIDE DEF at
<1>3. /\ SumOver(f, S) \in Nat
      /\ SumOver(f, S) <= SumOver(g, S)
      /\ SumOver(f, S) = SumOver(g, S) => \A c \in Components : at(f, c) = at(g, c)
  BY <1>1, <1>2 DEF Components
<1> QED
  BY <1>3 DEF at

\* Leaving components out never adds to a sum, and a term is at most the sum.
LEMMA SumPart ==
    ASSUME NEW f, \A c \in Components : f[c] \in Nat, NEW S \in SUBSET Components
    PROVE  SumOver(f, S) \in Nat /\ SumOver(f, S) <= SumOver(f, Components)
<1> DEFINE at(c) == IF c \in S THEN f[c] ELSE 0
<1>1. \A c \in Components : at(c) \in Nat /\ f[c] \in Nat /\ at(c) <= f[c]
  OBVIOUS
<1>2. SumOver(f, S) = at("what_happened") + at("client_said") + at("next_step_date")
                            + at("deal_specifics") + at("clarity")
  BY DEF SumOver
<1>3. SumOver(f, Components) = f["what_happened"] + f["client_said"] + f["next_step_date"]
                            + f["deal_specifics"] + f["clarity"]
  BY DEF SumOver, Components
<1> HIDE DEF at
<1> QED
  BY <1>1, <1>2, <1>3 DEF Components

-----------------------------------------------------------------------------
(* The marks of a component *)

\* Two things are two.
LEMMA PairCardinality ==
    ASSUME NEW a, NEW b, a # b
    PROVE  IsFiniteSet({a, b}) /\ Cardinality({a, b}) = 2
<1>1. IsFiniteSet({a}) /\ Cardinality({a}) = 1
  BY FS_Singleton
<1>2. b \notin {a} /\ {a, b} = {a} \cup {b}
  OBVIOUS
<1> QED
  BY <1>1, <1>2, FS_AddElement

\* Three things are three.
LEMMA TripleCardinality ==
    ASSUME NEW a, NEW b, NEW c, a # b, a # c, b # c
    PROVE  IsFiniteSet({a, b, c}) /\ Cardinality({a, b, c}) = 3
<1>1. c \notin {a, b} /\ {a, b, c} = {a, b} \cup {c}
  OBVIOUS
<1>2. IsFiniteSet({a, b}) /\ Cardinality({a, b}) = 2
  BY PairCardinality
<1> QED
  BY <1>1, <1>2, FS_AddElement

\* As many ordinary checks earn the full weight as there are.
LEMMA FullMarksAtOrdinary ==
    ASSUME NEW c \in Components
    PROVE  /\ IsFiniteSet(ChecksByComponent[c]) /\ IsFiniteSet(Ordinary(c))
           /\ FullMarksAt(c) \in {2, 3} /\ Cardinality(Ordinary(c)) = FullMarksAt(c)
<1>1. CASE c = "what_happened"
  <2>1. ChecksByComponent[c] = {"wh_outcome", "wh_action"} /\ Ordinary(c) = ChecksByComponent[c]
    BY <1>1 DEF ChecksByComponent, Ordinary
  <2>2. IsFiniteSet({"wh_outcome", "wh_action"}) /\ Cardinality({"wh_outcome", "wh_action"}) = 2
    BY PairCardinality
  <2>3. FullMarksAt(c) = Cardinality(ChecksByComponent[c])
    BY <1>1 DEF FullMarksAt
  <2> QED
    BY <2>1, <2>2, <2>3
<1>2. CASE c = "client_said"
  <2>1. ChecksByComponent[c] = {"cs_present", "cs_own_terms"} /\ Ordinary(c) = ChecksByComponent[c]
    BY <1>2 DEF ChecksByComponent, Ordinary
  <2>2. IsFiniteSet({"cs_present", "cs_own_terms"}) /\ Cardinality({"cs_present", "cs_own_terms"}) = 2
    BY PairCardinality
  <2>3. FullMarksAt(c) = Cardinality(ChecksByComponent[c])
    BY <1>2 DEF FullMarksAt
  <2> QED
    BY <2>1, <2>2, <2>3
<1>3. CASE c = "next_step_date"
  <2>1. /\ ChecksByComponent[c] = {"ns_action", "ns_date", "ns_closure"}
        /\ Ordinary(c) = {"ns_action", "ns_date"}
    BY <1>3 DEF ChecksByComponent, Ordinary
  <2>2. IsFiniteSet({"ns_action", "ns_date"}) /\ Cardinality({"ns_action", "ns_date"}) = 2
    BY PairCardinality
  <2>3. IsFiniteSet({"ns_action", "ns_date", "ns_closure"})
    BY TripleCardinality
  <2> QED
    BY <1>3, <2>1, <2>2, <2>3 DEF FullMarksAt
<1>4. CASE c = "deal_specifics"
  <2>1. /\ ChecksByComponent[c] = {"ds_figures", "ds_subject", "ds_timing"}
        /\ Ordinary(c) = ChecksByComponent[c]
    BY <1>4 DEF ChecksByComponent, Ordinary
  <2>2. IsFiniteSet({"ds_figures", "ds_subject", "ds_timing"}) /\ Cardinality({"ds_figures", "ds_subject", "ds_timing"}) = 3
    BY TripleCardinality
  <2>3. FullMarksAt(c) = Cardinality(ChecksByComponent[c])
    BY <1>4 DEF FullMarksAt
  <2> QED
    BY <2>1, <2>2, <2>3
<1>5. CASE c = "clarity"
  <2>1. ChecksByComponent[c] = {"cl_readable", "cl_substance"} /\ Ordinary(c) = ChecksByComponent[c]
    BY <1>5 DEF ChecksByComponent, Ordinary
  <2>2. IsFiniteSet({"cl_readable", "cl_substance"}) /\ Cardinality({"cl_readable", "cl_substance"}) = 2
    BY PairCardinality
  <2>3. FullMarksAt(c) = Cardinality(ChecksByComponent[c])
    BY <1>5 DEF FullMarksAt
  <2> QED
    BY <2>1, <2>2, <2>3
<1> QED
  BY <1>1, <1>2, <1>3, <1>4, <1>5 DEF Components

\* The even split: within the weight, ordered as the counts, full at the full count.
LEMMA EvenSplit ==
    ASSUME NEW c \in Components, NEW w \in Nat, NEW m \in Nat, NEW n \in Nat, m <= n
    PROVE  /\ MarksByTrueCount(w, c, m) \in 0..w
           /\ MarksByTrueCount(w, c, m) <= MarksByTrueCount(w, c, n)
           /\ n >= FullMarksAt(c) => MarksByTrueCount(w, c, n) = w
<1> DEFINE full == FullMarksAt(c)
           part(k) == (w * k * 2 + full) \div (2 * full)
           earned(k) == IF k < full THEN k ELSE full
<1>1. full \in {2, 3}
  BY FullMarksAtOrdinary
<1>2. /\ MarksByTrueCount(w, c, m) = part(earned(m))
      /\ MarksByTrueCount(w, c, n) = part(earned(n))
  BY DEF MarksByTrueCount
<1>3. /\ earned(m) \in 0..full /\ earned(n) \in 0..full /\ earned(m) <= earned(n)
      /\ n >= full => earned(n) = full
  BY <1>1
<1>4. \A k \in 0..full : part(k) \in 0..w /\ (k = full => part(k) = w)
  <2>1. CASE full = 2
    <3> SUFFICES ASSUME NEW k \in 0..2 PROVE part(k) \in 0..w /\ (k = 2 => part(k) = w)
      BY <2>1
    <3>1. part(k) = (w * k * 2 + 2) \div 4
      BY <2>1
    <3>2. CASE k = 0
      BY <3>1, <3>2
    <3>3. CASE k = 1
      BY <3>1, <3>3
    <3>4. CASE k = 2
      BY <3>1, <3>4
    <3> QED
      BY <3>2, <3>3, <3>4
  <2>2. CASE full = 3
    <3> SUFFICES ASSUME NEW k \in 0..3 PROVE part(k) \in 0..w /\ (k = 3 => part(k) = w)
      BY <2>2
    <3>1. part(k) = (w * k * 2 + 3) \div 6
      BY <2>2
    <3>2. CASE k = 0
      BY <3>1, <3>2
    <3>3. CASE k = 1
      BY <3>1, <3>3
    <3>4. CASE k = 2
      BY <3>1, <3>4
    <3>5. CASE k = 3
      BY <3>1, <3>5
    <3> QED
      BY <3>2, <3>3, <3>4, <3>5
  <2> QED
    BY <1>1, <2>1, <2>2
<1>5. part(earned(m)) <= part(earned(n))
  <2> HIDE DEF earned, full
  <2>1. w * earned(m) <= w * earned(n) /\ w * earned(m) \in Nat /\ w * earned(n) \in Nat
    BY <1>1, <1>3
  <2> DEFINE a == w * earned(m) * 2 + full
             b == w * earned(n) * 2 + full
  <2>2. a \in Nat /\ b \in Nat /\ a <= b /\ 2 * full \in Nat \ {0}
    <3> DEFINE u == w * earned(m)
               v == w * earned(n)
    <3>1. u \in Nat /\ v \in Nat /\ u <= v
      BY <2>1
    <3>2. a = u * 2 + full /\ b = v * 2 + full
      OBVIOUS
    <3> HIDE DEF u, v, a, b
    <3> QED
      BY <1>1, <3>1, <3>2
  <2> HIDE DEF a, b
  <2>3. a \div (2 * full) <= b \div (2 * full)
    BY <2>2, DivisionOrdered
  <2> QED
    BY <2>3 DEF a, b
<1> HIDE DEF full, part, earned
<1> QED
  BY <1>2, <1>3, <1>4, <1>5 DEF full

\* A mark lies within its weight, never falls with one more yes, and is the
\* whole weight of a complete component.
LEMMA MarkFaithful ==
    ASSUME NEW cfg, NEW c \in Components, cfg.weights[c] \in Nat, NEW more, NEW yes \in SUBSET more
    PROVE  /\ MarkFor(c, yes, cfg) \in 0..cfg.weights[c]
           /\ MarkFor(c, yes, cfg) <= MarkFor(c, more, cfg)
           /\ CompleteIn(c, yes) => MarkFor(c, yes, cfg) = cfg.weights[c]
<1> DEFINE w == cfg.weights[c]
           had == ChecksByComponent[c] \cap yes
           has == ChecksByComponent[c] \cap more
<1>1. /\ IsFiniteSet(ChecksByComponent[c]) /\ IsFiniteSet(Ordinary(c))
      /\ FullMarksAt(c) \in {2, 3} /\ Cardinality(Ordinary(c)) = FullMarksAt(c)
  BY FullMarksAtOrdinary
<1>2. IsFiniteSet(had) /\ IsFiniteSet(has) /\ had \subseteq has
  <2>1. had \subseteq ChecksByComponent[c] /\ has \subseteq ChecksByComponent[c] /\ had \subseteq has
    OBVIOUS
  <2> QED
    BY <1>1, <2>1, FS_Subset
<1>3. Cardinality(had) \in Nat /\ Cardinality(has) \in Nat /\ Cardinality(had) <= Cardinality(has)
  BY <1>2, FS_CardinalityType, FS_Subset
<1>4. Ordinary(c) \subseteq yes => Cardinality(had) >= FullMarksAt(c)
  <2> SUFFICES ASSUME Ordinary(c) \subseteq yes PROVE Cardinality(had) >= FullMarksAt(c)
    OBVIOUS
  <2>1. Ordinary(c) \subseteq had
    BY DEF Ordinary
  <2>2. Cardinality(Ordinary(c)) <= Cardinality(had)
    BY <1>2, <2>1, FS_Subset
  <2> QED
    BY <1>1, <1>3, <2>2
<1> DEFINE m == MarksByTrueCount(w, c, Cardinality(had))
           n == MarksByTrueCount(w, c, Cardinality(has))
<1>5. /\ m \in 0..w /\ n \in 0..w /\ m <= n
      /\ Ordinary(c) \subseteq yes => m = w
  BY <1>3, <1>4, EvenSplit
<1>6. CASE c = "next_step_date" /\ "ns_closure" \in yes
  <2>1. MarkFor(c, yes, cfg) = w /\ MarkFor(c, more, cfg) = w
    BY <1>6 DEF MarkFor
  <2> QED
    BY <2>1
<1>7. CASE ~(c = "next_step_date" /\ "ns_closure" \in yes)
  <2>1. MarkFor(c, yes, cfg) = m
    BY <1>7 DEF MarkFor
  <2>2. MarkFor(c, more, cfg) \in {n, w}
    BY DEF MarkFor
  <2> HIDE DEF m, n, w
  <2>3. w \in Nat
    BY DEF w
  <2>4. CompleteIn(c, yes) => m = w
    BY <1>5, <1>7 DEF CompleteIn
  <2>5. m <= MarkFor(c, more, cfg)
    BY <1>5, <2>2, <2>3
  <2> QED
    BY <1>5, <2>1, <2>4, <2>5 DEF w
<1> QED
  BY <1>6, <1>7

-----------------------------------------------------------------------------
(* Bands, advice and verdict *)

\* The four bands are told apart by their rank.
LEMMA BandRanks == \A i \in 1..4 : Rank(Bands[i], Bands) = i
<1>1. DOMAIN Bands = 1..4
  BY DEF Bands
<1>2. \A i, j \in 1..4 : Bands[i] = Bands[j] => i = j
  BY DEF Bands
<1> QED
  BY <1>1, <1>2 DEF Rank

\* Under an accepted rubric a band is one of the four, and a higher total is in
\* no lower one.
LEMMA BandOrdered ==
    ASSUME NEW cfg, Accepted(cfg), NEW t \in Int, NEW u \in Int, t <= u
    PROVE  /\ BandFor(t, cfg) \in {Bands[i] : i \in DOMAIN Bands}
           /\ Rank(BandFor(t, cfg), Bands) <= Rank(BandFor(u, cfg), Bands)
<1> DEFINE bounds == cfg.band_boundaries
           reached(x) == {i \in DOMAIN bounds : x <= bounds[i][2]} \cup {Len(bounds)}
           first(x) == CHOOSE i \in reached(x) : \A j \in reached(x) : i <= j
<1>1. [i \in DOMAIN bounds |-> bounds[i][1]] = Bands
  BY DEF Accepted, Check
<1>2. DOMAIN bounds = 1..4 /\ DOMAIN Bands = 1..4 /\ \A i \in 1..4 : bounds[i][1] = Bands[i]
  BY <1>1 DEF Bands
<1>3. \A i \in 1..4 : bounds[i][2] \in Int
  BY <1>2 DEF Accepted, Typed
<1>4. Len(bounds) = 4
  BY <1>2
<1> HIDE DEF bounds
<1>5. ASSUME NEW x \in Int
      PROVE  first(x) \in 1..4 /\ first(x) \in reached(x) /\ \A j \in reached(x) : first(x) <= j
  <2>1. reached(x) \subseteq 1..4 /\ 4 \in reached(x)
    BY <1>2, <1>4
  <2> HIDE DEF reached
  <2>2. \E i \in reached(x) : \A j \in reached(x) : i <= j
    <3>1. CASE 1 \in reached(x)
      BY <2>1, <3>1
    <3>2. CASE 1 \notin reached(x) /\ 2 \in reached(x)
      BY <2>1, <3>2
    <3>3. CASE 1 \notin reached(x) /\ 2 \notin reached(x) /\ 3 \in reached(x)
      BY <2>1, <3>3
    <3>4. CASE 1 \notin reached(x) /\ 2 \notin reached(x) /\ 3 \notin reached(x)
      BY <2>1, <3>4
    <3> QED
      BY <3>1, <3>2, <3>3, <3>4
  <2> QED
    BY <2>1, <2>2
<1>6. first(t) <= first(u)
  <2>1. reached(u) \subseteq reached(t)
    BY <1>2, <1>3
  <2>2. first(u) \in reached(u) /\ \A j \in reached(t) : first(t) <= j
    BY <1>5
  <2> HIDE DEF reached, first
  <2> QED
    BY <2>1, <2>2
<1>7. ASSUME NEW x \in Int PROVE BandFor(x, cfg) = Bands[first(x)]
  <2>1. BandFor(x, cfg) = bounds[first(x)][1]
    BY DEF BandFor, bounds
  <2> QED
    BY <1>2, <1>5, <2>1
<1> HIDE DEF first
<1>8. /\ first(t) \in 1..4 /\ BandFor(t, cfg) = Bands[first(t)]
      /\ first(u) \in 1..4 /\ BandFor(u, cfg) = Bands[first(u)]
  BY <1>5, <1>7
<1>9. BandFor(t, cfg) \in {Bands[i] : i \in DOMAIN Bands}
  BY <1>2, <1>8
<1>10. Rank(Bands[first(t)], Bands) = first(t) /\ Rank(Bands[first(u)], Bands) = first(u)
  BY <1>8, BandRanks
<1> QED
  BY <1>6, <1>8, <1>9, <1>10

\* A higher total is advised no more strictly, and flagged only if it was.
LEMMA AdviceOrdered ==
    ASSUME NEW cfg, Accepted(cfg), NEW t \in Int, NEW u \in Int, t <= u
    PROVE  /\ ActionFor(t, cfg) \in {Actions[i] : i \in DOMAIN Actions}
           /\ Rank(ActionFor(t, cfg), Actions) <= Rank(ActionFor(u, cfg), Actions)
           /\ Verdict(ActionFor(t, cfg), cfg) \in {"allow", "flag"}
           /\ Verdict(ActionFor(t, cfg), cfg) = "allow" => Verdict(ActionFor(u, cfg), cfg) = "allow"
           /\ ActionFor(100, cfg) = "accept_silent" /\ Verdict("accept_silent", cfg) = "allow"
<1>1. /\ cfg.accept_threshold \in 0..100 /\ cfg.flag_threshold \in 0..100
      /\ cfg.flag_threshold < cfg.accept_threshold
  <2>1. FieldsAllowed(cfg) /\ Check(cfg)
    BY DEF Accepted
  <2>2. {cfg.accept_threshold, cfg.flag_threshold} \subseteq 0..100
    BY <2>1 DEF FieldsAllowed
  <2>3. cfg.flag_threshold < cfg.accept_threshold
    BY <2>1 DEF Check
  <2> QED
    BY <2>2, <2>3
<1>2. DOMAIN Actions = 1..3
  BY DEF Actions
<1>3. /\ Rank("prompt_clarification", Actions) = 1
      /\ Rank("accept_flag_prompt", Actions) = 2
      /\ Rank("accept_silent", Actions) = 3
  <2>1. \A i, j \in 1..3 : Actions[i] = Actions[j] => i = j
    BY DEF Actions
  <2>2. \A i \in 1..3 : Rank(Actions[i], Actions) = i
    BY <1>2, <2>1 DEF Rank
  <2> QED
    BY <2>2 DEF Actions
<1>4. \A x \in Int : ActionFor(x, cfg) \in
          {"prompt_clarification", "accept_flag_prompt", "accept_silent"}
  BY DEF ActionFor
<1>5. {Actions[i] : i \in DOMAIN Actions} =
          {"prompt_clarification", "accept_flag_prompt", "accept_silent"}
  BY <1>2 DEF Actions
<1>6. /\ Rank(ActionFor(t, cfg), Actions) <= Rank(ActionFor(u, cfg), Actions)
      /\ ActionFor(t, cfg) = "accept_silent" => ActionFor(u, cfg) = "accept_silent"
  BY <1>1, <1>3 DEF ActionFor
<1>7. ActionFor(100, cfg) = "accept_silent"
  BY <1>1 DEF ActionFor
<1> QED
  BY <1>4, <1>5, <1>6, <1>7 DEF Verdict

-----------------------------------------------------------------------------
(* The score of a note *)

Marks(type, yes, cfg) == [c \in ApplicableComponents(type) |-> MarkFor(c, yes, cfg)]
Raw(type, yes, cfg) == SumOver(Marks(type, yes, cfg), ApplicableComponents(type))
TotalOf(type, yes, cfg) == Rescale(Raw(type, yes, cfg), Denominator(type, cfg))

\* What a score is made of.
LEMMA ScoreParts ==
    ASSUME NEW type, NEW yes, NEW cfg
    PROVE  LET s == ComputeScore(type, yes, cfg)
           IN  /\ s.outcome \in {"raised", "scored"}
               /\ s.outcome = "scored" =>
                    /\ Denominator(type, cfg) # 0
                    /\ s.denominator = Denominator(type, cfg)
                    /\ s.marks = Marks(type, yes, cfg)
                    /\ s.total = TotalOf(type, yes, cfg)
                    /\ s.band = BandFor(s.total, cfg)
                    /\ s.action = ActionFor(s.total, cfg)
                    /\ s.verdict = Verdict(s.action, cfg)
               /\ s.outcome = "raised" => Denominator(type, cfg) = 0
<1>1. DOMAIN Marks(type, yes, cfg) = ApplicableComponents(type)
  BY DEF Marks
<1>2. CASE Denominator(type, cfg) = 0
  <2>1. ComputeScore(type, yes, cfg) = Raised
    BY <1>2 DEF ComputeScore
  <2> QED
    BY <1>2, <2>1 DEF Raised
<1>3. CASE Denominator(type, cfg) # 0
  <2> DEFINE total == TotalOf(type, yes, cfg)
  <2>1. ComputeScore(type, yes, cfg) =
            [outcome |-> "scored", total |-> total, band |-> BandFor(total, cfg),
             denominator |-> Denominator(type, cfg), marks |-> Marks(type, yes, cfg),
             action |-> ActionFor(total, cfg), verdict |-> Verdict(ActionFor(total, cfg), cfg)]
    <3>1. total = Rescale(SumOver(Marks(type, yes, cfg), DOMAIN Marks(type, yes, cfg)),
                          Denominator(type, cfg))
      BY <1>1 DEF TotalOf, Raw
    <3> QED
      BY <1>3, <3>1 DEF ComputeScore, Marks
  <2> HIDE DEF total
  <2>2. ComputeScore(type, yes, cfg).outcome = "scored"
    BY <2>1
  <2> QED
    BY <1>3, <2>1, <2>2 DEF total
<1> QED
  BY <1>2, <1>3

\* The weights of an accepted rubric.
LEMMA AcceptedWeights ==
    ASSUME NEW cfg, Accepted(cfg)
    PROVE  /\ \A c \in Components : cfg.weights[c] \in Nat
           /\ SumOver(cfg.weights, Components) = 100
<1>1. DOMAIN cfg.weights = Components
  BY DEF Accepted, Check
<1> QED
  BY <1>1 DEF Accepted, Check, Typed

\* The marks of a note are its share of a denominator of at most 100, and never
\* fall with one more yes.
LEMMA RawFaithful ==
    ASSUME NEW cfg, Accepted(cfg), NEW type, NEW more, NEW yes \in SUBSET more
    PROVE  /\ Denominator(type, cfg) \in 0..100
           /\ \A c \in ApplicableComponents(type) :
                  Marks(type, yes, cfg)[c] \in 0..cfg.weights[c]
           /\ Raw(type, yes, cfg) \in 0..Denominator(type, cfg)
           /\ Raw(type, more, cfg) \in Raw(type, yes, cfg)..Denominator(type, cfg)
           /\ Raw(type, yes, cfg) = Denominator(type, cfg) <=>
                  \A c \in ApplicableComponents(type) :
                      Marks(type, yes, cfg)[c] = cfg.weights[c]
<1> DEFINE S == ApplicableComponents(type)
           had == Marks(type, yes, cfg)
           has == Marks(type, more, cfg)
           w == cfg.weights
<1>1. S \subseteq Components
  BY DEF ApplicableComponents
<1>2. \A c \in Components : w[c] \in Nat
  BY AcceptedWeights
<1>3. \A c \in S : /\ had[c] \in 0..w[c] /\ has[c] \in 0..w[c]
                   /\ had[c] <= has[c]
  <2> SUFFICES ASSUME NEW c \in S PROVE /\ had[c] \in 0..w[c] /\ has[c] \in 0..w[c]
                                        /\ had[c] <= has[c]
    OBVIOUS
  <2>1. had[c] = MarkFor(c, yes, cfg) /\ has[c] = MarkFor(c, more, cfg)
    BY DEF Marks
  <2>2. c \in Components /\ w[c] \in Nat
    BY <1>1, <1>2
  <2>3. MarkFor(c, yes, cfg) \in 0..w[c] /\ MarkFor(c, yes, cfg) <= MarkFor(c, more, cfg)
    BY <2>2, MarkFaithful
  <2>4. MarkFor(c, more, cfg) \in 0..w[c]
    <3>1. more \in SUBSET more
      OBVIOUS
    <3> QED
      BY <2>2, <3>1, MarkFaithful
  <2> QED
    BY <2>1, <2>3, <2>4
<1> HIDE DEF S, had, has, w
<1>4. SumOver(w, S) \in 0..100
  <2>1. SumOver(w, S) \in Nat /\ SumOver(w, S) <= SumOver(w, Components)
    BY <1>1, <1>2, SumPart
  <2>2. SumOver(w, Components) = 100
    BY AcceptedWeights DEF w
  <2> QED
    BY <2>1, <2>2
<1>5. /\ SumOver(had, S) \in Nat /\ SumOver(had, S) <= SumOver(has, S)
  <2>1. \A c \in S : had[c] \in Nat /\ has[c] \in Nat /\ had[c] <= has[c]
    BY <1>1, <1>2, <1>3
  <2> QED
    BY <1>1, <2>1, SumOrdered
<1>6. /\ SumOver(had, S) <= SumOver(w, S)
      /\ SumOver(had, S) = SumOver(w, S) => \A c \in S : had[c] = w[c]
  <2>1. \A c \in S : had[c] \in Nat /\ w[c] \in Nat /\ had[c] <= w[c]
    BY <1>1, <1>2, <1>3
  <2> QED
    BY <1>1, <2>1, SumOrdered
<1>7. SumOver(has, S) <= SumOver(w, S) /\ SumOver(has, S) \in Nat
  <2>1. \A c \in S : has[c] \in Nat /\ w[c] \in Nat /\ has[c] <= w[c]
    BY <1>1, <1>2, <1>3
  <2> QED
    BY <1>1, <2>1, SumOrdered
<1>8. (\A c \in S : had[c] = w[c]) => SumOver(had, S) = SumOver(w, S)
  BY DEF SumOver
<1>9. /\ Denominator(type, cfg) = SumOver(w, S)
      /\ Raw(type, yes, cfg) = SumOver(had, S) /\ Raw(type, more, cfg) = SumOver(has, S)
  BY DEF Denominator, Raw, S, had, has, w
<1>10. /\ SumOver(had, S) \in 0..SumOver(w, S)
       /\ SumOver(has, S) \in SumOver(had, S)..SumOver(w, S)
       /\ SumOver(had, S) = SumOver(w, S) <=> \A c \in S : had[c] = w[c]
  BY <1>4, <1>5, <1>6, <1>7, <1>8
<1> QED
  BY <1>3, <1>4, <1>9, <1>10 DEF S, had, w

\* A score under an accepted rubric: what it reads as, when it is 100, and that
\* one more yes lowers no reading of it.
LEMMA ScoreFaithful ==
    ASSUME NEW cfg, Accepted(cfg), NEW type, NEW more, NEW yes \in SUBSET more,
           NEW s, s = ComputeScore(type, yes, cfg), s.outcome = "scored",
           NEW b, b = ComputeScore(type, more, cfg), b.outcome = "scored"
    PROVE  /\ s.total \in 0..100 /\ s.denominator \in 1..100
           /\ DOMAIN s.marks = ApplicableComponents(type)
           /\ \A c \in ApplicableComponents(type) :
                  /\ s.marks[c] = MarkFor(c, yes, cfg) /\ s.marks[c] \in 0..cfg.weights[c]
           /\ s.total = 100 <=>
                  \A c \in ApplicableComponents(type) : s.marks[c] = cfg.weights[c]
           /\ s.band \in {Bands[i] : i \in DOMAIN Bands}
           /\ s.action \in {Actions[i] : i \in DOMAIN Actions}
           /\ s.verdict \in {"allow", "flag"}
           /\ s.total = 100 => s.action = "accept_silent" /\ s.verdict = "allow"
           /\ s.total <= b.total
           /\ Rank(s.band, Bands) <= Rank(b.band, Bands)
           /\ Rank(s.action, Actions) <= Rank(b.action, Actions)
           /\ s.verdict = "allow" => b.verdict = "allow"
<1> DEFINE d == Denominator(type, cfg)
<1>1. /\ d # 0 /\ s.denominator = d /\ s.marks = Marks(type, yes, cfg)
      /\ s.total = TotalOf(type, yes, cfg) /\ s.band = BandFor(s.total, cfg)
      /\ s.action = ActionFor(s.total, cfg) /\ s.verdict = Verdict(s.action, cfg)
  BY ScoreParts
<1>2. /\ b.total = TotalOf(type, more, cfg) /\ b.band = BandFor(b.total, cfg)
      /\ b.action = ActionFor(b.total, cfg) /\ b.verdict = Verdict(b.action, cfg)
  BY ScoreParts
<1>3. /\ d \in 0..100
      /\ \A c \in ApplicableComponents(type) : Marks(type, yes, cfg)[c] \in 0..cfg.weights[c]
      /\ Raw(type, yes, cfg) \in 0..d
      /\ Raw(type, more, cfg) \in Raw(type, yes, cfg)..d
      /\ Raw(type, yes, cfg) = d <=>
             \A c \in ApplicableComponents(type) : Marks(type, yes, cfg)[c] = cfg.weights[c]
  BY RawFaithful
<1>4. /\ s.total \in 0..100 /\ s.total <= b.total
      /\ s.total = 100 <=> Raw(type, yes, cfg) = d
  <2> DEFINE raw == Raw(type, yes, cfg)
             rest == Raw(type, more, cfg)
  <2>1. d \in 1..100 /\ raw \in 0..d /\ rest \in raw..d
    BY <1>1, <1>3
  <2>2. s.total = Rescale(raw, d) /\ b.total = Rescale(rest, d)
    BY <1>1, <1>2 DEF TotalOf
  <2> HIDE DEF d, raw, rest
  <2>3. /\ Rescale(raw, d) \in 0..100 /\ Rescale(raw, d) <= Rescale(rest, d)
        /\ Rescale(raw, d) = 100 <=> raw = d
    BY <2>1, RescaleFaithful
  <2> QED
    BY <2>2, <2>3 DEF raw
<1>5. b.total \in 0..100
  <2> DEFINE rest == Raw(type, more, cfg)
  <2>1. d \in 1..100 /\ rest \in 0..d /\ rest \in rest..d
    BY <1>1, <1>3
  <2>2. b.total = Rescale(rest, d)
    BY <1>2 DEF TotalOf
  <2> HIDE DEF d, rest
  <2>3. Rescale(rest, d) \in 0..100
    BY <2>1, RescaleFaithful
  <2> QED
    BY <2>2, <2>3
<1>6. /\ DOMAIN s.marks = ApplicableComponents(type)
      /\ \A c \in ApplicableComponents(type) : s.marks[c] = MarkFor(c, yes, cfg)
  BY <1>1 DEF Marks
<1>7. /\ s.band \in {Bands[i] : i \in DOMAIN Bands}
      /\ Rank(s.band, Bands) <= Rank(b.band, Bands)
  <2>1. s.total \in Int /\ b.total \in Int
    BY <1>4, <1>5
  <2> QED
    BY <1>1, <1>2, <1>4, <2>1, BandOrdered
<1>8. /\ s.action \in {Actions[i] : i \in DOMAIN Actions} /\ s.verdict \in {"allow", "flag"}
      /\ Rank(s.action, Actions) <= Rank(b.action, Actions)
      /\ s.verdict = "allow" => b.verdict = "allow"
      /\ s.total = 100 => s.action = "accept_silent" /\ s.verdict = "allow"
  <2>1. s.total \in Int /\ b.total \in Int
    BY <1>4, <1>5
  <2> QED
    BY <1>1, <1>2, <1>4, <2>1, AdviceOrdered
<1>9. s.denominator \in 1..100
  BY <1>1, <1>3
<1>10. \A c \in ApplicableComponents(type) : s.marks[c] \in 0..cfg.weights[c]
  BY <1>1, <1>3
<1>11. s.total = 100 <=> \A c \in ApplicableComponents(type) : s.marks[c] = cfg.weights[c]
  BY <1>1, <1>3, <1>4
<1> HIDE DEF d
<1> QED
  BY <1>4, <1>6, <1>7, <1>8, <1>9, <1>10, <1>11

\* Every component of a type with nothing suppressed has its say: an accepted
\* rubric leaves such a note something to be marked out of.
LEMMA UnsuppressedScores ==
    ASSUME NEW cfg, Accepted(cfg), NEW type, type # "no_contact"
    PROVE  Denominator(type, cfg) # 0
<1> DEFINE S == ApplicableComponents(type)
           at(c) == IF c \in S THEN cfg.weights[c] ELSE 0
<1>1. PICK c \in Weighted(cfg) : c # "deal_specifics" \/ DealSpecificsApplicable
  BY DEF Accepted, Check
<1>2. c \in S /\ c \in Components /\ cfg.weights[c] # 0
  BY <1>1 DEF Weighted, ApplicableComponents, SuppressedComponents
<1>3. at(c) # 0 /\ \A k \in Components : at(k) \in Nat
  BY <1>2, AcceptedWeights
<1>4. Denominator(type, cfg) = at("what_happened") + at("client_said") + at("next_step_date")
                                 + at("deal_specifics") + at("clarity")
  BY DEF Denominator, SumOver
<1> HIDE DEF at
<1>5. Denominator(type, cfg) = 0 => \A k \in Components : at(k) = 0
  BY <1>3, <1>4 DEF Components
<1> QED
  BY <1>2, <1>3, <1>5

-----------------------------------------------------------------------------
(* The invariant *)

\* What is in force was accepted.
RubricOf == Serving => \E file \in Files : Accepts(file) /\ config = Over(file)
NoteOf == note.type \in NoteTypes \cup {"none"} /\ note.yes \subseteq CheckNames
\* A score in force is the score of the note it is of.
ScoreOf ==
    /\ judged.outcome \in {"none", "rejected", "raised", "scored"}
    /\ judged.outcome \in {"raised", "scored"} =>
          Serving /\ judged = ComputeScore(note.type, note.yes, config)

ScoringInv == RubricOf /\ NoteOf /\ ScoreOf

\* A deployment that serves has a rubric startup accepted.
LEMMA ServingAccepted == ASSUME RubricOf, Serving PROVE Accepted(config)
BY FilesAssumption DEF RubricOf, Accepts, Accepted

\* Scoring starts with nothing judged.
LEMMA InitScoring == Init => ScoringInv
<1> SUFFICES ASSUME Init PROVE ScoringInv
  OBVIOUS
<1>1. ~Serving
  BY DEF Init, Serving
<1>2. NoteOf
  BY DEF Init, NoteOf, NoNote
<1>3. ScoreOf
  BY DEF Init, ScoreOf, NotJudged
<1> QED
  BY <1>1, <1>2, <1>3 DEF ScoringInv, RubricOf

\* A score computed now is the one the invariant asks for.
LEMMA ScoreScoring ==
    ASSUME ScoringInv, NEW type \in NoteTypes \cup {"none"}, NEW keys,
           NEW yes \in SUBSET CheckNames, Score(type, keys, yes)
    PROVE  ScoringInv'
<1>1. /\ Serving /\ config' = config
      /\ note' = [type |-> type, yes |-> yes]
      /\ judged' = ComputeScore(type, yes, config)
  BY DEF Score
<1>2. note'.type = type /\ note'.yes = yes
  BY <1>1
<1>3. NoteOf'
  BY <1>2 DEF NoteOf
<1>4. Serving' /\ RubricOf'
  BY <1>1 DEF ScoringInv, RubricOf, Serving
<1>5. judged' = ComputeScore(note'.type, note'.yes, config')
  BY <1>1, <1>2
<1>6. judged'.outcome \in {"raised", "scored"}
  BY <1>1, ScoreParts
<1>7. ScoreOf'
  BY <1>4, <1>5, <1>6 DEF ScoreOf
<1> QED
  BY <1>3, <1>4, <1>7 DEF ScoringInv

\* Every step keeps what is in force the score of its note.
LEMMA NextScoring == ScoringInv /\ [Next]_vars => ScoringInv'
<1> SUFFICES ASSUME ScoringInv, [Next]_vars PROVE ScoringInv'
  OBVIOUS
<1>1. CASE \E file \in Files : Load(file)
  <2>1. PICK file \in Files : Load(file)
    BY <1>1
  <2>2. /\ config = Unread /\ note' = note /\ judged' = judged
        /\ config' = IF Accepts(file) THEN Over(file) ELSE Refused
    BY <2>1 DEF Load
  <2>3. RubricOf'
    BY <2>2 DEF RubricOf, Serving
  <2>4. judged.outcome \notin {"raised", "scored"}
    BY <2>2 DEF ScoringInv, ScoreOf, Serving
  <2> QED
    BY <2>2, <2>3, <2>4 DEF ScoringInv, NoteOf, ScoreOf
<1>2. CASE FirstAnswer
  <2>1. PICK type \in NoteTypes : \E keys \in Replies(type) :
            Reject(type, keys) \/ Score(type, keys, {})
    BY <1>2 DEF FirstAnswer
  <2>2. PICK keys \in Replies(type) : Reject(type, keys) \/ Score(type, keys, {})
    BY <2>1
  <2>3. CASE Reject(type, keys)
    <3>1. /\ config' = config /\ note' = NoNote /\ judged' = Rejected
      BY <2>3 DEF Reject
    <3>2. RubricOf'
      BY <3>1 DEF ScoringInv, RubricOf, Serving
    <3> QED
      BY <3>1, <3>2 DEF ScoringInv, NoteOf, ScoreOf, NoNote, Rejected
  <2>4. CASE Score(type, keys, {})
    BY <2>4, ScoreScoring
  <2> QED
    BY <2>2, <2>3, <2>4
<1>3. CASE \E c \in CheckNames : Better(c)
  <2>1. PICK c \in CheckNames : Better(c)
    BY <1>3
  <2>2. Score(note.type, ApplicableChecks(note.type), note.yes \cup {c})
    BY <2>1 DEF Better
  <2>3. note.type \in NoteTypes \cup {"none"} /\ note.yes \cup {c} \in SUBSET CheckNames
    BY DEF ScoringInv, NoteOf
  <2> QED
    BY <2>2, <2>3, ScoreScoring
<1>4. CASE UNCHANGED vars
  BY <1>4 DEF vars, ScoringInv, RubricOf, NoteOf, ScoreOf, Serving
<1> QED
  BY <1>1, <1>2, <1>3, <1>4 DEF Next

\* So it is in every state of every deployment.
LEMMA SpecScoring == Spec => []ScoringInv
BY InitScoring, NextScoring, PTL DEF Spec

-----------------------------------------------------------------------------
(* The theorems, each of a judging deployment *)

\* Writing and gating a note change nothing scoring reads: a judging deployment
\* is a scoring one.
THEOREM JudgingImplementsScoring == JudgingSpec => Spec
<1>1. JudgingInit => Init
  BY DEF JudgingInit
<1>2. [JudgingNext]_judgingVars => [Next]_vars
  <2> SUFFICES ASSUME [JudgingNext]_judgingVars PROVE [Next]_vars
    OBVIOUS
  <2>1. CASE \E file \in Files : Start(file)
    BY <2>1 DEF Start, Next
  <2>2. CASE (\E w \in Words : Write(w)) \/ Punctuate \/ UNCHANGED judgingVars
    BY <2>2 DEF Write, Punctuate, judgingVars
  <2>3. CASE Judge \/ Rewrite
    BY <2>3 DEF Judge, Rewrite, Next
  <2> QED
    BY <2>1, <2>2, <2>3 DEF JudgingNext
<1> QED
  BY <1>1, <1>2, PTL DEF JudgingSpec, Spec

\* A score in force has the readings of ScoreFaithful, with itself as the better.
LEMMA ScoreInForce ==
    ASSUME ScoringInv, Scored
    PROVE  /\ judged.total \in 0..100 /\ judged.denominator \in 1..100
           /\ DOMAIN judged.marks = ApplicableComponents(note.type)
           /\ \A c \in ApplicableComponents(note.type) :
                  /\ judged.marks[c] = MarkFor(c, note.yes, config)
                  /\ judged.marks[c] \in 0..config.weights[c]
           /\ judged.total = 100 <=>
                  \A c \in ApplicableComponents(note.type) : judged.marks[c] = config.weights[c]
           /\ judged.band \in {Bands[i] : i \in DOMAIN Bands}
           /\ judged.action \in {Actions[i] : i \in DOMAIN Actions}
           /\ judged.verdict \in {"allow", "flag"}
           /\ judged.total = 100 => judged.action = "accept_silent" /\ judged.verdict = "allow"
<1>1. Serving /\ judged.outcome = "scored" /\ judged = ComputeScore(note.type, note.yes, config)
  BY DEF ScoringInv, ScoreOf, Scored
<1>2. Accepted(config)
  BY <1>1, ServingAccepted DEF ScoringInv
<1> DEFINE type == note.type
           yes == note.yes
           cfg == config
           s == judged
<1>3. /\ yes \in SUBSET yes /\ Accepted(cfg)
      /\ s = ComputeScore(type, yes, cfg) /\ s.outcome = "scored"
  BY <1>1, <1>2
<1> HIDE DEF type, yes, cfg, s
<1>4. /\ s.total \in 0..100 /\ s.denominator \in 1..100
      /\ DOMAIN s.marks = ApplicableComponents(type)
      /\ \A c \in ApplicableComponents(type) :
             /\ s.marks[c] = MarkFor(c, yes, cfg)
             /\ s.marks[c] \in 0..cfg.weights[c]
      /\ s.total = 100 <=> \A c \in ApplicableComponents(type) : s.marks[c] = cfg.weights[c]
      /\ s.band \in {Bands[i] : i \in DOMAIN Bands}
      /\ s.action \in {Actions[i] : i \in DOMAIN Actions}
      /\ s.verdict \in {"allow", "flag"}
      /\ s.total = 100 => s.action = "accept_silent" /\ s.verdict = "allow"
  BY <1>3, ScoreFaithful
<1> QED
  BY <1>4 DEF type, yes, cfg, s

\* Types of what a judgement says, for every accepted rubric and either position
\* of the deal_specifics switch.
THEOREM JudgingTyped == JudgingSpec => []TypeOK
<1>1. ScoringInv => TypeOK
  <2> SUFFICES ASSUME ScoringInv PROVE TypeOK
    OBVIOUS
  <2>1. CASE ~Scored
    BY <2>1 DEF ScoringInv, NoteOf, ScoreOf, TypeOK
  <2>2. CASE Scored
    BY <2>2, ScoreInForce DEF ScoringInv, NoteOf, ScoreOf, TypeOK
  <2> QED
    BY <2>1, <2>2
<1> QED
  BY <1>1, SpecScoring, JudgingImplementsScoring, PTL

\* Suppression is not a zero and rounding is not a mark (CompleteScoresFull).
THEOREM JudgingCompleteScoresFull == JudgingSpec => []CompleteScoresFull
<1>1. ScoringInv => CompleteScoresFull
  <2> SUFFICES ASSUME ScoringInv, Scored
               PROVE  /\ (\A c \in DOMAIN judged.marks : Complete(c)) =>
                            judged.total = 100 /\ judged.action = "accept_silent"
                                /\ judged.verdict = "allow"
                      /\ judged.total = 100 =>
                            \A c \in DOMAIN judged.marks : judged.marks[c] = config.weights[c]
    BY DEF CompleteScoresFull
  <2>1. /\ DOMAIN judged.marks = ApplicableComponents(note.type)
        /\ \A c \in ApplicableComponents(note.type) :
               judged.marks[c] = MarkFor(c, note.yes, config)
        /\ judged.total = 100 <=>
               \A c \in ApplicableComponents(note.type) : judged.marks[c] = config.weights[c]
        /\ judged.total = 100 => judged.action = "accept_silent" /\ judged.verdict = "allow"
    BY ScoreInForce
  <2>2. ASSUME \A c \in DOMAIN judged.marks : Complete(c),
               NEW c \in ApplicableComponents(note.type)
        PROVE  judged.marks[c] = config.weights[c]
    <3>1. CompleteIn(c, note.yes)
      BY <2>1, <2>2 DEF Complete, CompleteIn, Ordinary
    <3>2. c \in Components
      BY DEF ApplicableComponents
    <3>3. Accepted(config)
      BY ServingAccepted DEF ScoringInv, ScoreOf, Scored
    <3>4. config.weights[c] \in Nat
      BY <3>2, <3>3, AcceptedWeights
    <3>5. MarkFor(c, note.yes, config) = config.weights[c]
      BY <3>1, <3>2, <3>4, MarkFaithful
    <3> QED
      BY <2>1, <3>5
  <2> QED
    BY <2>1, <2>2
<1> QED
  BY <1>1, SpecScoring, JudgingImplementsScoring, PTL

\* One more yes never lowers a reading of the score (BetterNeverScoresLower).
THEOREM JudgingBetterNeverScoresLower == JudgingSpec => BetterNeverScoresLower
<1> DEFINE Ordered ==
        (Scored /\ judged'.outcome = "scored" /\ note'.type = note.type
            /\ note.yes \subseteq note'.yes) =>
          /\ judged.total <= judged'.total
          /\ Rank(judged.band, Bands) <= Rank(judged'.band, Bands)
          /\ Rank(judged.action, Actions) <= Rank(judged'.action, Actions)
          /\ (judged.verdict = "allow" => judged'.verdict = "allow")
<1>1. ScoringInv /\ ScoringInv' /\ [Next]_vars => [Ordered]_vars
  <2> SUFFICES ASSUME ScoringInv, ScoringInv', Next, Scored, judged'.outcome = "scored",
                      note'.type = note.type, note.yes \subseteq note'.yes
               PROVE  /\ judged.total <= judged'.total
                      /\ Rank(judged.band, Bands) <= Rank(judged'.band, Bands)
                      /\ Rank(judged.action, Actions) <= Rank(judged'.action, Actions)
                      /\ (judged.verdict = "allow" => judged'.verdict = "allow")
    OBVIOUS
  <2>1. Serving /\ judged.outcome = "scored" /\ judged = ComputeScore(note.type, note.yes, config)
    BY DEF ScoringInv, ScoreOf, Scored
  <2>2. judged' = ComputeScore(note.type, note'.yes, config')
    BY DEF ScoringInv, ScoreOf
  <2>3. config' = config
    BY <2>1 DEF Next, Load, FirstAnswer, Reject, Better, Score, Serving
  <2>4. Accepted(config)
    BY <2>1, ServingAccepted DEF ScoringInv
  <2>5. ASSUME NEW cfg, Accepted(cfg), NEW yes, NEW more, yes \subseteq more, NEW s, NEW b,
               s = ComputeScore(note.type, yes, cfg), s.outcome = "scored",
               b = ComputeScore(note.type, more, cfg), b.outcome = "scored"
        PROVE  /\ s.total <= b.total
               /\ Rank(s.band, Bands) <= Rank(b.band, Bands)
               /\ Rank(s.action, Actions) <= Rank(b.action, Actions)
               /\ s.verdict = "allow" => b.verdict = "allow"
    BY <2>5, ScoreFaithful
  <2> QED
    BY <2>1, <2>2, <2>3, <2>4, <2>5
<1>2. Spec => BetterNeverScoresLower
  BY <1>1, SpecScoring, PTL DEF Spec, BetterNeverScoresLower
<1> QED
  BY <1>2, JudgingImplementsScoring

\* What may leave a judgement with nothing to be marked out of.
RaisesOnlySuppressed == judged.outcome = "raised" => note.type = "no_contact"

\* compute_score raises on no note but a no_contact one: the check at startup is
\* short by exactly the suppressed components (AcceptedRubricScores fails there).
THEOREM JudgingRaisesOnlySuppressed == JudgingSpec => []RaisesOnlySuppressed
<1>1. ScoringInv => RaisesOnlySuppressed
  <2> SUFFICES ASSUME ScoringInv, judged.outcome = "raised" PROVE note.type = "no_contact"
    BY DEF RaisesOnlySuppressed
  <2>1. Serving /\ judged = ComputeScore(note.type, note.yes, config)
    BY DEF ScoringInv, ScoreOf
  <2>2. Accepted(config)
    BY <2>1, ServingAccepted DEF ScoringInv
  <2>3. Denominator(note.type, config) = 0
    BY <2>1, ScoreParts
  <2> QED
    BY <2>2, <2>3, UnsuppressedScores
<1> QED
  BY <1>1, SpecScoring, JudgingImplementsScoring, PTL

-----------------------------------------------------------------------------
(***************************************************************************)
(* Part two.  The length gate for any tables, floors and words.  A note    *)
(* above the floor stays there as it grows, because its characters are a   *)
(* sum over more words (CharsGrow).  One that is recognised below it stays *)
(* recognised: punctuation leaves the words of the note as they were       *)
(* (SameWords), and a filler becomes the last of them (LastWord).          *)
(***************************************************************************)

\* No tenant lists a phrase that is blank once its space is folded away.
NoBlankPhrase == \A file \in Files : Accepts(file) => <<>> \notin Over(file).short_note_phrases

\* A note below the floor that is paid for says what came of the contact, for any
\* tables without a blank phrase, any floor and any words (OutcomeBeforeSpend).
THEOREM JudgingOutcomeBeforeSpend ==
    ASSUME NoBlankPhrase PROVE JudgingSpec => []OutcomeBeforeSpend
<1>1. ScoringInv => OutcomeBeforeSpend
  <2> DEFINE words == ShortNoteWords(text)
  <2> SUFFICES ASSUME ScoringInv, Serving, BelowFloor(text, config),
                      Gate(text, config) = "carry_on"
               PROVE  SaysACode(words) \/ SaysAPhrase(words)
    BY DEF OutcomeBeforeSpend, Written
  <2>1. Accepted(config) /\ <<>> \notin config.short_note_phrases
    BY ServingAccepted, NoBlankPhrase DEF ScoringInv, RubricOf, NoBlankPhrase
  <2>2. RecognisedShortNote(text, config)
    BY DEF Gate
  <2> HIDE DEF words
  <2>3. PhraseRecognised(words, config) \/ CodesRecognised(words, config)
    BY <2>2 DEF RecognisedShortNote, words
  <2>4. ASSUME CodesRecognised(words, config) PROVE SaysACode(words)
    BY <2>4 DEF CodesRecognised, IsShortNoteCode, SaysACode
  <2>5. ASSUME PhraseRecognised(words, config) PROVE SaysAPhrase(words)
    <3>1. PICK phrase \in config.short_note_phrases : Opens(phrase, words)
      BY <2>5 DEF PhraseRecognised
    <3>2. phrase # <<>> /\ Len(phrase) \in Nat /\ DOMAIN phrase = 1..Len(phrase)
      BY <2>1 DEF Accepted, Typed
    <3>3. Len(phrase) <= Len(words) /\ SubSeq(words, 1, Len(phrase)) = phrase
      BY <3>1 DEF Opens
    <3>4. \A i \in DOMAIN phrase : words[i] = phrase[i]
      BY <3>2, <3>3
    <3> QED
      BY <3>2, <3>3, <3>4 DEF SaysAPhrase
  <2> QED
    BY <2>3, <2>4, <2>5
<1> QED
  BY <1>1, SpecScoring, JudgingImplementsScoring, PTL

\* A word has a length.
LEMMA WordWide == ASSUME NEW w \in AnyWord PROVE WordChars(w) \in Nat
<1>1. Width[w.stem] \in Nat
  BY WidthAssumption DEF AnyWord
<1> QED
  BY <1>1 DEF WordChars

\* A longer text of words that are no shorter has no fewer characters.
LEMMA CharsGrow ==
    ASSUME NEW s \in Seq(AnyWord), NEW t \in Seq(AnyWord), Len(s) <= Len(t),
           \A i \in 1..Len(s) : WordChars(s[i]) <= WordChars(t[i])
    PROVE  Chars(s) \in Nat /\ Chars(t) \in Nat /\ Chars(s) <= Chars(t)
<1> DEFINE f == [i \in DOMAIN s |-> WordChars(s[i])]
           g == [i \in DOMAIN t |-> WordChars(t[i])]
           gaps(said) == IF said = <<>> THEN 0 ELSE Len(said) - 1
<1>1. DOMAIN s = 1..Len(s) /\ DOMAIN t = 1..Len(t) /\ Len(s) \in Nat /\ Len(t) \in Nat
  OBVIOUS
<1>2. \A w \in AnyWord : WordChars(w) \in Nat
  BY WordWide
<1>3. f \in [DOMAIN s -> Nat] /\ g \in [DOMAIN t -> Nat]
  <2>1. (\A i \in DOMAIN s : s[i] \in AnyWord) /\ (\A i \in DOMAIN t : t[i] \in AnyWord)
    BY <1>1
  <2>2. (\A i \in DOMAIN s : WordChars(s[i]) \in Nat) /\ (\A i \in DOMAIN t : WordChars(t[i]) \in Nat)
    BY <1>2, <2>1
  <2> QED
    BY <2>2
<1>4. IsFiniteSet(DOMAIN t) /\ DOMAIN s \subseteq DOMAIN t
  BY <1>1, FS_Interval
<1>5. \A i \in DOMAIN s : f[i] <= g[i]
  BY <1>1, <1>4
<1>6. gaps(s) \in Nat /\ gaps(t) \in Nat /\ gaps(s) <= gaps(t)
  BY <1>1
<1>7. Chars(s) = SumFunctionOnSet(f, DOMAIN s) + gaps(s)
      /\ Chars(t) = SumFunctionOnSet(g, DOMAIN t) + gaps(t)
  BY DEF Chars, SumFunction
<1> HIDE DEF f, g, gaps
<1>8. /\ SumFunctionOnSet(f, DOMAIN s) \in Nat /\ SumFunctionOnSet(g, DOMAIN t) \in Nat
      /\ SumFunctionOnSet(f, DOMAIN s) <= SumFunctionOnSet(g, DOMAIN t)
  BY <1>3, <1>4, <1>5, SumGrows
<1> QED
  BY <1>6, <1>7, <1>8

\* A note that has reached the floor stays above it as it grows.
LEMMA AboveFloorKept ==
    ASSUME NEW cfg, Accepted(cfg), NEW s \in Seq(AnyWord), NEW t \in Seq(AnyWord),
           Len(s) <= Len(t), \A i \in 1..Len(s) : WordChars(s[i]) <= WordChars(t[i]),
           ~BelowFloor(s, cfg)
    PROVE  ~BelowFloor(t, cfg)
<1>1. cfg.min_note_chars \in Int /\ cfg.min_note_tokens \in Int
  BY DEF Accepted, Typed
<1>2. Len(s) \in Nat /\ Len(t) \in Nat
  OBVIOUS
<1>3. Chars(s) \in Nat /\ Chars(t) \in Nat /\ Chars(s) <= Chars(t)
  BY CharsGrow
<1> QED
  BY <1>1, <1>2, <1>3 DEF BelowFloor

\* The places with a word are finitely many of the places there are.
LEMMA WordsPlaced ==
    ASSUME NEW said \in Seq(AnyWord)
    PROVE  /\ WordsAt(said) \subseteq 1..Len(said) /\ IsFiniteSet(WordsAt(said))
           /\ Cardinality(WordsAt(said)) \in Nat
<1>1. WordsAt(said) \subseteq 1..Len(said) /\ Len(said) \in Nat
  BY DEF WordsAt
<1>2. IsFiniteSet(1..Len(said))
  BY <1>1, FS_Interval
<1> QED
  BY <1>1, <1>2, FS_Subset, FS_CardinalityType

\* The words of a note are a sequence, as long as there are places with a word.
LEMMA WordsNumbered ==
    ASSUME NEW said \in Seq(AnyWord)
    PROVE  /\ ShortNoteWords(said) \in Seq({ShortNoteWords(said)[k] : k \in DOMAIN ShortNoteWords(said)})
           /\ Len(ShortNoteWords(said)) = Cardinality(WordsAt(said))
           /\ DOMAIN ShortNoteWords(said) = 1..Cardinality(WordsAt(said))
<1> DEFINE words == ShortNoteWords(said)
           n == Cardinality(WordsAt(said))
<1>1. n \in Nat
  BY WordsPlaced
<1>2. words = [k \in 1..n |-> words[k]]
  BY DEF ShortNoteWords
<1> HIDE DEF words, n
<1>3. words \in Seq({words[k] : k \in DOMAIN words}) /\ Len(words) = n /\ DOMAIN words = 1..n
  BY <1>1, <1>2
<1> QED
  BY <1>3 DEF words, n

\* Every place of a finite set has its number, and every number its place.
LEMMA NthPlace ==
    ASSUME NEW n \in Nat, NEW S \in SUBSET (1..n), NEW k \in 1..Cardinality(S)
    PROVE  Nth(S, k) \in S
<1> DEFINE upTo(i) == S \cap 1..i
           reached == {i \in 1..n : k <= Cardinality(upTo(i))}
<1>1. \A i \in Nat : IsFiniteSet(upTo(i)) /\ Cardinality(upTo(i)) \in Nat
  <2>1. \A i \in Nat : IsFiniteSet(1..i) /\ upTo(i) \in SUBSET (1..i)
    BY FS_Interval
  <2> QED
    BY <2>1, FS_Subset, FS_CardinalityType
<1>2. Cardinality(S) \in Nat /\ IsFiniteSet(S) /\ k \in Nat \ {0}
  <2>1. IsFiniteSet(1..n)
    BY FS_Interval
  <2>2. IsFiniteSet(S)
    BY <2>1, FS_Subset
  <2>3. Cardinality(S) \in Nat
    BY <2>2, FS_CardinalityType
  <2> QED
    BY <2>2, <2>3
<1>3. n \in reached
  <2>1. upTo(n) = S
    OBVIOUS
  <2>2. n # 0
    <3>1. n = 0 => S = {}
      OBVIOUS
    <3>2. S # {}
      BY <1>2, FS_EmptySet
    <3> QED
      BY <3>1, <3>2
  <2> QED
    BY <1>2, <2>1, <2>2
<1>4. PICK i \in reached : \A m \in reached : i <= m
  <2>1. reached \in SUBSET Nat /\ reached # {}
    <3>1. reached \in SUBSET (1..n)
      OBVIOUS
    <3> HIDE DEF reached
    <3> QED
      BY <1>3, <3>1
  <2> HIDE DEF reached
  <2> QED
    BY <2>1, Least
<1>5. Cardinality(upTo(i - 1)) < k
  <2>1. CASE i = 1
    BY <1>2, <2>1, FS_EmptySet
  <2>2. CASE i # 1
    BY <1>1, <1>2, <1>4, <2>2
  <2> QED
    BY <2>1, <2>2
<1>6. i \in 1..n /\ i - 1 \in Nat /\ k <= Cardinality(upTo(i))
  BY <1>4
<1>7. i \in S /\ Cardinality(upTo(i)) = k
  <2>1. upTo(i) = IF i \in S THEN upTo(i - 1) \cup {i} ELSE upTo(i - 1)
    BY <1>6
  <2>2. i \notin upTo(i - 1)
    BY <1>6
  <2> HIDE DEF upTo
  <2>3. Cardinality(upTo(i - 1) \cup {i}) = Cardinality(upTo(i - 1)) + 1
    BY <1>1, <1>6, <2>2, FS_AddElement
  <2>4. Cardinality(upTo(i)) \in Nat /\ Cardinality(upTo(i - 1)) \in Nat
    BY <1>1, <1>6
  <2> QED
    BY <1>2, <1>5, <1>6, <2>1, <2>3, <2>4
<1> QED
  BY <1>7 DEF Nth

\* What adds no word and changes nothing of them but punctuation leaves the same words.
LEMMA SameWords ==
    ASSUME NEW s \in Seq(AnyWord), NEW t \in Seq(AnyWord), WordsAt(t) = WordsAt(s),
           \A i \in WordsAt(s) : Stripped(t[i]) = Stripped(s[i])
    PROVE  ShortNoteWords(t) = ShortNoteWords(s)
<1> DEFINE at == WordsAt(s)
<1>1. at \in SUBSET (1..Len(s)) /\ Len(s) \in Nat
  BY WordsPlaced
<1> HIDE DEF at
<1>2. ASSUME NEW k \in 1..Cardinality(at)
      PROVE  Stripped(t[Nth(at, k)]) = Stripped(s[Nth(at, k)])
  BY <1>1, NthPlace DEF at
<1> QED
  BY <1>2 DEF ShortNoteWords, at

\* A word written last is the last word, and the words before it keep their numbers.
LEMMA LastWord ==
    ASSUME NEW s \in Seq(AnyWord), NEW w \in AnyWord, IsWord(w)
    PROVE  ShortNoteWords(Append(s, w)) = Append(ShortNoteWords(s), Stripped(w))
<1> DEFINE t == Append(s, w)
           at == WordsAt(s)
           last == Len(s) + 1
           more == at \cup {last}
           n == Cardinality(at)
<1>1. /\ t \in Seq(AnyWord) /\ Len(t) = last /\ t[last] = w /\ last \in Nat \ {0}
      /\ \A i \in 1..Len(s) : t[i] = s[i]
  OBVIOUS
<1>2. at \in SUBSET (1..Len(s)) /\ IsFiniteSet(at) /\ n \in Nat /\ Len(s) \in Nat
  BY WordsPlaced
<1>3. WordsAt(t) = more
  BY <1>1, <1>2 DEF WordsAt
<1>4. last \notin at
  BY <1>2
<1>5. Cardinality(more) = n + 1 /\ IsFiniteSet(more)
  BY <1>2, <1>4, FS_AddElement
<1> HIDE DEF t, at
<1>0. more \cap 1..last = more /\ last \notin at /\ more \in SUBSET (1..last)
  <2>1. \A i \in at : i \in 1..last /\ i # last
    BY <1>2
  <2>2. last \in 1..last
    BY <1>2
  <2> HIDE DEF last
  <2> QED
    BY <2>1, <2>2
<1>6. ASSUME NEW k \in 1..n PROVE Nth(more, k) = Nth(at, k) /\ Nth(at, k) \in at
  <2>1. \A i \in at : more \cap 1..i = at \cap 1..i
    BY <1>2
  <2>2. Cardinality(more \cap 1..last) # k
    <3>1. n + 1 # k
      BY <1>2
    <3> QED
      BY <1>0, <1>5, <3>1
  <2>3. {i \in more : Cardinality(more \cap 1..i) = k} = {i \in at : Cardinality(at \cap 1..i) = k}
    <3> HIDE DEF last
    <3> QED
      BY <2>1, <2>2
  <2>4. \A i : (i \in more /\ Cardinality(more \cap 1..i) = k)
                  <=> (i \in at /\ Cardinality(at \cap 1..i) = k)
    BY <2>3
  <2>5. Nth(at, k) \in at
    BY <1>2, NthPlace
  <2> QED
    BY <2>4, <2>5 DEF Nth
<1>7. Nth(more, n + 1) = last
  <2>1. \A i \in at : Cardinality(more \cap 1..i) # n + 1
    <3> SUFFICES ASSUME NEW i \in at, Cardinality(more \cap 1..i) = n + 1 PROVE FALSE
      OBVIOUS
    <3>1. more \cap 1..i \in SUBSET at
      BY <1>2
    <3>2. Cardinality(more \cap 1..i) <= n
      BY <1>2, <3>1, FS_Subset
    <3> QED
      BY <1>2, <3>2
  <2>2. Nth(more, n + 1) \in more /\ n + 1 \in 1..Cardinality(more)
    <3>1. last \in Nat /\ n + 1 \in 1..Cardinality(more)
      BY <1>2, <1>5
    <3> HIDE DEF more, last, n
    <3> QED
      BY <1>0, <3>1, NthPlace
  <2>3. Cardinality(more \cap 1..Nth(more, n + 1)) = n + 1
    <3>1. more \cap 1..last = more
      BY <1>0
    <3>2. \E i \in more : Cardinality(more \cap 1..i) = n + 1
      BY <1>5, <3>1
    <3> QED
      BY <3>2 DEF Nth
  <2> QED
    BY <2>1, <2>2, <2>3
<1>8. ShortNoteWords(t) = [k \in 1..(n + 1) |-> Stripped(t[Nth(more, k)])]
  BY <1>3, <1>5 DEF ShortNoteWords
<1>9. ShortNoteWords(s) = [k \in 1..n |-> Stripped(s[Nth(at, k)])]
  BY DEF ShortNoteWords, at
<1>10. /\ Len(ShortNoteWords(s)) = n
       /\ ShortNoteWords(s) \in Seq({ShortNoteWords(s)[k] : k \in DOMAIN ShortNoteWords(s)})
  BY WordsNumbered DEF at
<1> HIDE DEF last, more, n
<1>11. Append(ShortNoteWords(s), Stripped(w)) =
           [k \in 1..(n + 1) |-> IF k <= n THEN ShortNoteWords(s)[k] ELSE Stripped(w)]
  <2> DEFINE words == ShortNoteWords(s)
             kinds == {words[k] : k \in DOMAIN words} \cup {Stripped(w)}
  <2>1. words \in Seq(kinds) /\ Stripped(w) \in kinds /\ Len(words) = n
    BY <1>10
  <2> HIDE DEF words, kinds
  <2>2. /\ Append(words, Stripped(w)) \in Seq(kinds) /\ Len(Append(words, Stripped(w))) = n + 1
        /\ \A k \in 1..(n + 1) : Append(words, Stripped(w))[k] = IF k <= n THEN words[k] ELSE Stripped(w)
    BY <1>2, <2>1
  <2>3. Append(words, Stripped(w)) = [k \in 1..(n + 1) |-> Append(words, Stripped(w))[k]]
    <3> DEFINE whole == Append(words, Stripped(w))
    <3>1. whole \in Seq(kinds) /\ Len(whole) = n + 1
      BY <2>2
    <3> HIDE DEF whole
    <3>2. whole = [k \in 1..(n + 1) |-> whole[k]]
      BY <3>1
    <3> QED
      BY <3>2 DEF whole
  <2> QED
    BY <2>2, <2>3 DEF words
<1>12. ASSUME NEW k \in 1..(n + 1)
       PROVE  Stripped(t[Nth(more, k)]) = IF k <= n THEN ShortNoteWords(s)[k] ELSE Stripped(w)
  <2>1. CASE k <= n
    <3>1. k \in 1..n /\ Nth(more, k) = Nth(at, k) /\ Nth(at, k) \in at
      BY <1>2, <1>6, <2>1
    <3>2. t[Nth(at, k)] = s[Nth(at, k)]
      BY <1>1, <1>2, <3>1
    <3> QED
      BY <1>9, <2>1, <3>1, <3>2
  <2>2. CASE k = n + 1
    BY <1>1, <1>2, <1>7, <2>2
  <2> QED
    BY <1>2, <2>1, <2>2
<1> QED
  BY <1>8, <1>11, <1>12 DEF t

\* A note that is recognised stays so when a filler follows it.
LEMMA FillerRecognised ==
    ASSUME NEW cfg, Accepted(cfg), NEW words, NEW S, words \in Seq(S), NEW w \in S,
           w \in cfg.short_note_fillers,
           PhraseRecognised(words, cfg) \/ CodesRecognised(words, cfg)
    PROVE  LET longer == Append(words, w)
           IN  PhraseRecognised(longer, cfg) \/ CodesRecognised(longer, cfg)
<1> DEFINE longer == Append(words, w)
<1>1. /\ longer \in Seq(S) /\ Len(words) \in Nat /\ Len(longer) = Len(words) + 1
      /\ DOMAIN words = 1..Len(words) /\ DOMAIN longer = 1..(Len(words) + 1)
      /\ longer[Len(words) + 1] = w /\ \A i \in DOMAIN words : longer[i] = words[i]
  OBVIOUS
<1> HIDE DEF longer
<1>2. CASE PhraseRecognised(words, cfg)
  <2>1. PICK phrase \in cfg.short_note_phrases :
            /\ Opens(phrase, words)
            /\ AllFillers(SubSeq(words, Len(phrase) + 1, Len(words)), cfg)
    BY <1>2 DEF PhraseRecognised
  <2> DEFINE p == Len(phrase)
             rest == SubSeq(words, p + 1, Len(words))
             more == SubSeq(longer, p + 1, Len(longer))
  <2>2. p \in Nat /\ p <= Len(words) /\ SubSeq(words, 1, p) = phrase
    BY <2>1 DEF Opens, Accepted, Typed
  <2> HIDE DEF p
  <2>3. SubSeq(longer, 1, p) = SubSeq(words, 1, p)
    BY <1>1, <2>2
  <2>4. Opens(phrase, longer)
    BY <1>1, <2>2, <2>3 DEF Opens, p
  <2>5. /\ DOMAIN rest = 1..(Len(words) - p)
        /\ \A i \in 1..(Len(words) - p) : rest[i] = words[i + p]
    BY <1>1, <2>2
  <2>6. /\ DOMAIN more = 1..(Len(words) + 1 - p)
        /\ \A i \in 1..(Len(words) + 1 - p) : more[i] = longer[i + p]
    BY <1>1, <2>2
  <2>7. \A i \in DOMAIN rest : rest[i] \in cfg.short_note_fillers
    BY <2>1 DEF AllFillers, p
  <2> HIDE DEF rest, more
  <2>8. ASSUME NEW i \in DOMAIN more PROVE more[i] \in cfg.short_note_fillers
    <3>1. CASE i = Len(words) + 1 - p
      BY <1>1, <2>2, <2>6, <3>1
    <3>2. CASE i # Len(words) + 1 - p
      <4>1. i \in 1..(Len(words) - p) /\ i + p \in 1..Len(words)
        <5>1. i \in 1..(Len(words) + 1 - p) /\ Len(words) \in Nat /\ p \in Nat /\ p <= Len(words)
          BY <1>1, <2>2, <2>6
        <5> QED
          BY ONLY <3>2, <5>1
      <4> QED
        BY <1>1, <2>5, <2>6, <2>7, <4>1
    <3> QED
      BY <3>1, <3>2
  <2>9. AllFillers(SubSeq(longer, Len(phrase) + 1, Len(longer)), cfg)
    BY <2>8 DEF AllFillers, more, p
  <2> QED
    BY <2>4, <2>9 DEF PhraseRecognised, longer
<1>3. CASE CodesRecognised(words, cfg)
  <2>1. PICK i \in DOMAIN words : IsShortNoteCode(words[i], cfg)
    BY <1>3 DEF CodesRecognised
  <2>2. i \in DOMAIN longer /\ IsShortNoteCode(longer[i], cfg)
    BY <1>1, <2>1
  <2>3. ASSUME NEW j \in DOMAIN longer
        PROVE  \/ IsShortNoteCode(longer[j], cfg) \/ IsDigit(longer[j])
               \/ longer[j] \in cfg.short_note_fillers
    <3>1. CASE j = Len(words) + 1
      BY <1>1, <3>1
    <3>2. CASE j # Len(words) + 1
      <4>1. j \in DOMAIN words /\ longer[j] = words[j]
        BY <1>1, <3>2
      <4> QED
        BY <1>3, <4>1 DEF CodesRecognised, EachAllowed
    <3> QED
      BY <3>1, <3>2
  <2> QED
    BY <2>2, <2>3 DEF CodesRecognised, EachAllowed, longer
<1> QED
  BY <1>2, <1>3

\* A filler or punctuation keeps a note above the floor, or recognised.
LEMMA KeptFromTooShort ==
    ASSUME NEW cfg, Accepted(cfg), NEW s \in Seq(AnyWord), NEW t \in Seq(AnyWord),
           Len(s) <= Len(t), \A i \in 1..Len(s) : WordChars(s[i]) <= WordChars(t[i]),
           RecognisedShortNote(s, cfg) => RecognisedShortNote(t, cfg),
           Gate(s, cfg) = "carry_on"
    PROVE  Gate(t, cfg) # "note_too_short"
<1>1. ~BelowFloor(s, cfg) \/ RecognisedShortNote(s, cfg)
  BY DEF Gate
<1>2. ~BelowFloor(t, cfg) \/ RecognisedShortNote(t, cfg)
  BY <1>1, AboveFloorKept
<1> QED
  BY <1>2 DEF Gate

TextInv == text \in Seq(AnyWord)

\* What is written is always made of words.
LEMMA SpecText == JudgingSpec => []TextInv
<1>1. JudgingInit => TextInv
  BY DEF JudgingInit, TextInv
<1>2. TextInv /\ [JudgingNext]_judgingVars => TextInv'
  <2> SUFFICES ASSUME TextInv, [JudgingNext]_judgingVars PROVE TextInv'
    OBVIOUS
  <2>1. CASE UNCHANGED text
    BY <2>1 DEF TextInv
  <2>2. ASSUME NEW w \in Words, Write(w) PROVE TextInv'
    BY <2>2, WordsAssumption DEF Write, TextInv
  <2>3. CASE Punctuate
    <3>1. text[Len(text)] \in AnyWord /\ Len(text) \in DOMAIN text
      BY <2>3 DEF Punctuate, TextInv
    <3>2. [text[Len(text)] EXCEPT !.point = TRUE] \in AnyWord
      BY <3>1 DEF AnyWord
    <3>3. text' = [text EXCEPT ![Len(text)] = [text[Len(text)] EXCEPT !.point = TRUE]]
      BY <2>3 DEF Punctuate
    <3> QED
      BY <3>1, <3>2, <3>3 DEF TextInv
  <2>4. CASE text' = <<>>
    BY <2>4 DEF TextInv
  <2> QED
    BY <2>1, <2>2, <2>3, <2>4 DEF JudgingNext, Start, Judge, Rewrite, judgingVars
<1> QED
  BY <1>1, <1>2, PTL DEF JudgingSpec

\* A note that says its outcome does not lose it to a filler or to punctuation
\* (FillerKeepsOutcome).
THEOREM JudgingFillerKeepsOutcome == JudgingSpec => FillerKeepsOutcome
<1> DEFINE Kept == (Written /\ Written' /\ text # <<>> /\ Gate(text, config) = "carry_on"
                      /\ \/ Punctuate
                         \/ \E w \in Words : Write(w) /\ (~IsWord(w)
                                               \/ Stripped(w) \in config.short_note_fillers))
                   => Gate(text', config) # "note_too_short"
<1>1. ScoringInv /\ TextInv /\ TextInv' => Kept
  <2> SUFFICES ASSUME ScoringInv, TextInv, TextInv', Written, Gate(text, config) = "carry_on",
                      \/ Punctuate
                      \/ \E w \in Words : Write(w) /\ (~IsWord(w)
                                            \/ Stripped(w) \in config.short_note_fillers)
               PROVE  Gate(text', config) # "note_too_short"
    OBVIOUS
  <2>1. Accepted(config) /\ text \in Seq(AnyWord) /\ text' \in Seq(AnyWord)
    BY ServingAccepted DEF ScoringInv, Written, TextInv
  <2>2. SUFFICES /\ Len(text) <= Len(text')
                 /\ \A i \in 1..Len(text) : WordChars(text[i]) <= WordChars(text'[i])
                 /\ RecognisedShortNote(text, config) => RecognisedShortNote(text', config)
    BY <2>1, KeptFromTooShort
  <2>3. CASE Punctuate
    <3> DEFINE n == Len(text)
    <3>1. n \in DOMAIN text /\ text[n] \in AnyWord /\ ~text[n].point
      BY <2>1, <2>3 DEF Punctuate
    <3>2. /\ Len(text') = n /\ DOMAIN text' = DOMAIN text /\ DOMAIN text = 1..n
          /\ text'[n] = [text[n] EXCEPT !.point = TRUE]
          /\ \A i \in 1..n : i # n => text'[i] = text[i]
      BY <2>1, <2>3, <3>1 DEF Punctuate
    <3>3. /\ text'[n].stem = text[n].stem /\ text'[n].number = text[n].number
          /\ text'[n].point = TRUE /\ Stripped(text'[n]) = Stripped(text[n])
      BY <3>1, <3>2 DEF AnyWord, Stripped
    <3>4. WordChars(text[n]) <= WordChars(text'[n])
      <4>1. Width[text[n].stem] \in Nat
        BY <3>1, WidthAssumption DEF AnyWord
      <4> QED
        BY <3>1, <3>3, <4>1 DEF WordChars
    <3>5. \A i \in 1..n : WordChars(text[i]) \in Nat
      BY <2>1, WordWide
    <3>6. \A i \in DOMAIN text : IsWord(text'[i]) <=> IsWord(text[i])
      BY <3>2, <3>3 DEF IsWord
    <3>7. WordsAt(text') = WordsAt(text)
      BY <3>2, <3>6 DEF WordsAt
    <3>8. \A i \in WordsAt(text) : Stripped(text'[i]) = Stripped(text[i])
      BY <3>2, <3>3 DEF WordsAt
    <3>9. ShortNoteWords(text') = ShortNoteWords(text)
      BY <2>1, <3>7, <3>8, SameWords
    <3>10. \A i \in 1..n : WordChars(text[i]) <= WordChars(text'[i])
      BY <3>2, <3>4, <3>5
    <3> QED
      BY <3>1, <3>2, <3>9, <3>10 DEF RecognisedShortNote
  <2>4. ASSUME NEW w \in Words, Write(w),
               ~IsWord(w) \/ Stripped(w) \in config.short_note_fillers
        PROVE  /\ Len(text) <= Len(text')
               /\ \A i \in 1..Len(text) : WordChars(text[i]) <= WordChars(text'[i])
               /\ RecognisedShortNote(text, config) => RecognisedShortNote(text', config)
    <3> DEFINE words == ShortNoteWords(text)
               S == {words[k] : k \in DOMAIN words} \cup {Stripped(w)}
    <3>1. w \in AnyWord /\ text' = Append(text, w)
      BY <2>4, WordsAssumption DEF Write
    <3>2. /\ Len(text) \in Nat /\ Len(text') = Len(text) + 1 /\ DOMAIN text = 1..Len(text)
          /\ DOMAIN text' = 1..(Len(text) + 1) /\ text'[Len(text) + 1] = w
          /\ \A i \in 1..Len(text) : text'[i] = text[i]
      BY <2>1, <3>1
    <3>3. \A i \in 1..Len(text) : WordChars(text[i]) <= WordChars(text'[i])
      <4>1. \A i \in 1..Len(text) : WordChars(text[i]) \in Nat
        BY <2>1, WordWide
      <4> QED
        BY <3>2, <4>1
    <3>4. ASSUME RecognisedShortNote(text, config) PROVE RecognisedShortNote(text', config)
      <4>1. CASE ~IsWord(w)
        <5>1. WordsAt(text') = WordsAt(text)
          BY <3>2, <4>1 DEF WordsAt
        <5>2. \A i \in WordsAt(text) : Stripped(text'[i]) = Stripped(text[i])
          BY <3>2 DEF WordsAt
        <5>3. ShortNoteWords(text') = ShortNoteWords(text)
          BY <2>1, <5>1, <5>2, SameWords
        <5> QED
          BY <3>4, <5>3 DEF RecognisedShortNote
      <4>2. CASE IsWord(w) /\ Stripped(w) \in config.short_note_fillers
        <5>1. ShortNoteWords(text') = Append(words, Stripped(w))
          BY <2>1, <3>1, <4>2, LastWord
        <5>2. words \in Seq(S) /\ Stripped(w) \in S
          <6> DEFINE said == {words[k] : k \in DOMAIN words}
          <6>1. words \in Seq(said)
            BY <2>1, WordsNumbered
          <6>2. said \subseteq S
            OBVIOUS
          <6> HIDE DEF words, said, S
          <6>3. words \in Seq(S)
            BY <6>1, <6>2
          <6> QED
            BY <6>3 DEF S
        <5>3. PhraseRecognised(words, config) \/ CodesRecognised(words, config)
          BY <3>4 DEF RecognisedShortNote
        <5> HIDE DEF words, S
        <5>4. PhraseRecognised(Append(words, Stripped(w)), config)
                \/ CodesRecognised(Append(words, Stripped(w)), config)
          BY <2>1, <4>2, <5>2, <5>3, FillerRecognised
        <5>5. Append(words, Stripped(w)) # <<>>
          BY <5>2
        <5> QED
          BY <5>1, <5>4, <5>5 DEF RecognisedShortNote
      <4> QED
        BY <2>4, <4>1, <4>2
    <3> QED
      BY <3>2, <3>3, <3>4
  <2> QED
    BY <2>3, <2>4
<1>2. JudgingSpec => []ScoringInv
  BY SpecScoring, JudgingImplementsScoring, PTL
<1>3. ScoringInv /\ TextInv /\ TextInv' => [Kept]_judgingVars
  BY <1>1
<1> QED
  BY <1>2, <1>3, SpecText, PTL DEF FillerKeepsOutcome

-----------------------------------------------------------------------------
(***************************************************************************)
(* Part three.  The briefs for any notes, directories, floor, window,      *)
(* bands and totals.  A roll-up adds up because a read is cut by author    *)
(* and a note has one author: narrowing takes no later row of a note away, *)
(* so what a measure counts of the part is what it counts of the whole     *)
(* there (NarrowedCounts), and the sizes of disjoint parts are summed      *)
(* (PartsAddUp).  A line has a figure exactly when there are notes enough  *)
(* for the flagged share (FigureIffEnough), which more rows only help.     *)
(***************************************************************************)

\* What a row may say.
Row == [note : Notes, author : Everyone, created : {CreatedAt[n] : n \in Notes},
        system : BOOLEAN, total : Totals \cup {Null}, band : 1..Len(BandTops) \cup {Null},
        stamp : 1..MaxVersion, sent : BOOLEAN, flagged : BOOLEAN]

\* The rows a read answers from are a sequence of rows, the rows of one note are by
\* its one author, and the directory is one that may be given.
ReadsInv ==
    /\ rows \in Seq(Row) /\ users \in Directories
    /\ \A i \in DOMAIN rows : rows[i].author = Authors[rows[i].note]

\* A read is of finitely many rows, and so is what it is narrowed to.
LEMMA ReadFinite ==
    ASSUME rows \in Seq(Row), NEW read \in SUBSET DOMAIN rows
    PROVE  IsFiniteSet(read) /\ Cardinality(read) \in Nat
<1>1. DOMAIN rows = 1..Len(rows) /\ Len(rows) \in Nat
  OBVIOUS
<1>2. IsFiniteSet(DOMAIN rows)
  BY <1>1, FS_Interval
<1> QED
  BY <1>2, FS_Subset, FS_CardinalityType

\* What each measure counts and counts out of.
LEMMA Counts ==
    ASSUME NEW read
    PROVE  /\ Line(read).flagged.counted = Cardinality(Flagged(read))
           /\ Line(read).flagged.of = Cardinality(RepNotes(read))
           /\ Line(read).improved.counted = Cardinality(ImprovedRows(read))
           /\ Line(read).improved.of = Cardinality(Asked(read))
BY DEF Line, FlaggedShare, ImprovedShare, Share

\* The rows a figure counts.
Counting(m, figure, read) ==
    IF m = "flagged" THEN IF figure = "of" THEN RepNotes(read) ELSE Flagged(read)
    ELSE IF figure = "of" THEN Asked(read) ELSE ImprovedRows(read)

\* A read narrowed to whole notes: no later row of a note is taken from it.
SameNoteTogether(read, part) ==
    \A i \in part : \A j \in read : rows[j].note = rows[i].note => j \in part

\* What a measure counts of a part of whole notes is what it counts of the whole there.
LEMMA NarrowedCounts ==
    ASSUME NEW m \in {"flagged", "improved"}, NEW figure \in {"counted", "of"},
           NEW read, NEW part \in SUBSET read, SameNoteTogether(read, part)
    PROVE  Counting(m, figure, part) = Counting(m, figure, read) \cap part
<1>1. RepNotes(part) = RepNotes(read) \cap part /\ Flagged(part) = Flagged(read) \cap part
      /\ Asked(part) = Asked(read) \cap part
  BY DEF RepNotes, Flagged, Asked
<1>2. ImprovedRows(part) = ImprovedRows(read) \cap part
  <2>1. \A i \in part : Later(RepNotes(part), i) = Later(RepNotes(read), i)
    BY DEF Later, RepNotes, SameNoteTogether
  <2> QED
    BY <1>1, <2>1 DEF ImprovedRows, Asked, RepNotes
<1> QED
  BY <1>1, <1>2 DEF Counting

\* An author's rows are whole notes.
LEMMA AuthorsKeepNotes ==
    ASSUME ReadsInv, NEW read \in SUBSET DOMAIN rows, NEW authors
    PROVE  /\ ByAuthor(read, authors) \in SUBSET read
           /\ SameNoteTogether(read, ByAuthor(read, authors))
BY DEF ReadsInv, SameNoteTogether, ByAuthor

\* A roll-up over a read that is cut into parts by author counts what they count.
LEMMA PartsPool ==
    ASSUME ReadsInv, NEW read \in SUBSET DOMAIN rows, NEW P, IsFiniteSet(P),
           NEW by \in [P -> SUBSET Everyone],
           \A p, q \in P : p # q => by[p] \cap by[q] = {},
           \A i \in read : \E p \in P : rows[i].author \in by[p]
    PROVE  Pools([whole |-> Line(read), parts |-> [p \in P |-> Line(ByAuthor(read, by[p]))]])
<1> DEFINE brief == [whole |-> Line(read), parts |-> [p \in P |-> Line(ByAuthor(read, by[p]))]]
<1> SUFFICES ASSUME NEW m \in {"flagged", "improved"}, NEW figure \in {"counted", "of"}
             PROVE  brief.whole[m][figure] =
                        SumFunctionOnSet([p \in P |-> brief.parts[p][m][figure]], P)
  BY DEF Pools
<1> DEFINE whole == Counting(m, figure, read)
           part == [p \in P |-> Counting(m, figure, ByAuthor(read, by[p]))]
<1>1. brief.whole[m][figure] = Cardinality(whole)
  BY Counts DEF Counting
<1>2. ASSUME NEW p \in P PROVE brief.parts[p][m][figure] = Cardinality(part[p])
  BY Counts DEF Counting
<1>3. IsFiniteSet(whole)
  <2>1. whole \subseteq read
    BY DEF Counting, RepNotes, Flagged, Asked, ImprovedRows
  <2> QED
    BY <2>1, ReadFinite DEF ReadsInv
<1>4. ASSUME NEW p \in P PROVE part[p] = whole \cap ByAuthor(read, by[p])
  BY AuthorsKeepNotes, NarrowedCounts
<1>5. part \in [P -> SUBSET whole]
  BY <1>4
<1>6. \A p, q \in P : p # q => part[p] \cap part[q] = {}
  <2> HIDE DEF whole, part
  <2> QED
    BY <1>4 DEF ByAuthor
<1>7. \A i \in whole : \E p \in P : i \in part[p]
  <2>1. whole \subseteq read
    BY DEF Counting, RepNotes, Flagged, Asked, ImprovedRows
  <2> HIDE DEF whole, part
  <2> QED
    BY <1>4, <2>1 DEF ByAuthor
<1>8. [p \in P |-> brief.parts[p][m][figure]] = [p \in P |-> Cardinality(part[p])]
  <2> HIDE DEF brief, part
  <2> QED
    BY <1>2
<1> HIDE DEF brief, whole, part
<1>9. SumFunctionOnSet([p \in P |-> Cardinality(part[p])], P) = Cardinality(whole)
  BY ONLY IsFiniteSet(P), <1>3, <1>5, <1>6, <1>7, PartsAddUp
<1> QED
  BY <1>1, <1>8, <1>9

\* The people the directory lists may be asked about.
LEMMA Listed ==
    ASSUME ReadsInv
    PROVE  DOMAIN users \subseteq Everyone /\ IsFiniteSet(DOMAIN users)
BY DirectoriesAssumption DEF ReadsInv, Everyone

\* What a brief about some people reads is part of what a brief about more reads.
LEMMA ReadsOfPeople ==
    ASSUME ReadsInv, NEW team \in Teams
    PROVE  /\ Members(team) \subseteq InATeam /\ InATeam \subseteq DOMAIN users
           /\ TeamRows(team) \in SUBSET DOMAIN rows /\ Everything \in SUBSET DOMAIN rows
           /\ ByAuthor(Everything, Members(team)) = TeamRows(team)
           /\ \A u \in Members(team) : ByAuthor(TeamRows(team), {u}) = RowsBetween({u})
<1>1. Members(team) \subseteq InATeam /\ InATeam \subseteq DOMAIN users
  BY DEF Members, InATeam, Teams
<1>2. TeamRows(team) \in SUBSET DOMAIN rows /\ Everything \in SUBSET DOMAIN rows
  BY DEF TeamRows, Everything, ByAuthor, RowsBetween
<1>3. ByAuthor(Everything, Members(team)) = TeamRows(team)
  BY <1>1 DEF TeamRows, Everything, ByAuthor
<1>4. ASSUME NEW u \in Members(team) PROVE ByAuthor(TeamRows(team), {u}) = RowsBetween({u})
  <2>1. u \in Everyone
    BY <1>1, Listed
  <2> QED
    BY <2>1 DEF TeamRows, ByAuthor, RowsBetween
<1> QED
  BY <1>1, <1>2, <1>3, <1>4

\* The figures do not depend on the altitude they are read at.
LEMMA SameFigures ==
    ASSUME ReadsInv
    PROVE  SameFiguresAtEveryAltitude
<1>0. /\ IsFiniteSet(DOMAIN users) /\ DOMAIN users \subseteq Everyone
      /\ InATeam \subseteq DOMAIN users /\ Everything \in SUBSET DOMAIN rows
  BY Listed DEF InATeam, Everything, ByAuthor, RowsBetween
<1>1. ASSUME NEW team \in Teams
      PROVE  /\ \A u \in Members(team) : TeamBrief(team).parts[u] = RepBrief(u).whole
             /\ OrgBrief.parts[team] = TeamBrief(team).whole
  BY ReadsOfPeople DEF TeamBrief, RepBrief, OrgBrief
<1>2. ASSUME NEW team \in Teams PROVE Pools(TeamBrief(team))
  <2> DEFINE by == [u \in Members(team) |-> {u}]
  <2>1. IsFiniteSet(Members(team)) /\ Members(team) \subseteq Everyone
    BY <1>0, FS_Subset DEF Members
  <2>2. by \in [Members(team) -> SUBSET Everyone]
    BY <2>1
  <2>3. \A i \in TeamRows(team) : \E u \in Members(team) : rows[i].author \in by[u]
    BY DEF TeamRows, ByAuthor
  <2>4. TeamBrief(team) = [whole |-> Line(TeamRows(team)),
                           parts |-> [u \in Members(team) |-> Line(ByAuthor(TeamRows(team), by[u]))]]
    BY DEF TeamBrief
  <2>5. \A u, v \in Members(team) : u # v => by[u] \cap by[v] = {}
    OBVIOUS
  <2>6. TeamRows(team) \in SUBSET DOMAIN rows
    BY ReadsOfPeople
  <2> HIDE DEF by
  <2> QED
    BY <2>1, <2>2, <2>3, <2>4, <2>5, <2>6, PartsPool
<1>3. Pools(OrgBrief)
  <2> DEFINE by == [team \in Teams |-> Members(team)]
  <2>1. IsFiniteSet(Teams)
    <3> DEFINE teamOf == [u \in InATeam |-> users[u].team]
    <3>1. IsFiniteSet(InATeam)
      BY <1>0, FS_Subset
    <3>2. Teams = {teamOf[u] : u \in InATeam}
      BY DEF Teams
    <3>3. teamOf \in Surjection(InATeam, Teams)
      BY <3>2 DEF Surjection
    <3> QED
      BY <3>1, <3>3, FS_Surjection DEF ExistsSurjection
  <2>2. by \in [Teams -> SUBSET Everyone]
    BY <1>0 DEF Members
  <2>3. \A i \in Everything : \E team \in Teams : rows[i].author \in by[team]
    BY DEF Everything, ByAuthor, Teams, Members, InATeam
  <2>4. OrgBrief = [whole |-> Line(Everything),
                    parts |-> [team \in Teams |-> Line(ByAuthor(Everything, by[team]))]]
    BY DEF OrgBrief
  <2>5. \A team, other \in Teams : team # other => by[team] \cap by[other] = {}
    BY DEF Members
  <2> HIDE DEF by
  <2> QED
    BY <1>0, <2>1, <2>2, <2>3, <2>4, <2>5, PartsPool
<1> QED
  BY <1>1, <1>2, <1>3 DEF SameFiguresAtEveryAltitude

\* A line has something to tell exactly when there are notes enough for the flagged
\* share: the other two measures are over some of the same notes.
LEMMA FigureIffEnough ==
    ASSUME ReadsInv, NEW read \in SUBSET DOMAIN rows
    PROVE  HasAFigure(Line(read)) <=> Cardinality(RepNotes(read)) >= Floor
<1> DEFINE notes == RepNotes(read)
<1>1. notes \subseteq read /\ IsFiniteSet(notes) /\ Cardinality(notes) \in Nat
  BY ReadFinite DEF RepNotes, ReadsInv
<1>2. \A of \in Nat : Suppression(of) = "none" <=> of >= Floor
  BY FloorAssumption DEF Suppression
<1>3. PICK some \in SUBSET notes : Line(read).average.suppressed = Suppression(Cardinality(some))
  BY DEF Line, AverageBand
<1>4. /\ Line(read).flagged.suppressed = Suppression(Cardinality(notes))
      /\ Line(read).improved.suppressed = Suppression(Cardinality(Asked(read)))
  BY DEF Line, FlaggedShare, ImprovedShare, Share
<1>5. Asked(read) \subseteq notes
  BY DEF Asked
<1>6. HasAFigure(Line(read)) <=> \/ Line(read).average.suppressed = "none"
                                 \/ Line(read).flagged.suppressed = "none"
                                 \/ Line(read).improved.suppressed = "none"
  BY DEF HasAFigure, Line
<1> HIDE DEF notes
<1>7. ASSUME NEW fewer \in SUBSET notes
      PROVE  Cardinality(fewer) \in Nat /\ Cardinality(fewer) <= Cardinality(notes)
  BY <1>1, FS_Subset, FS_CardinalityType
<1>8. Suppression(Cardinality(notes)) = "none" <=> Cardinality(notes) >= Floor
  BY <1>1, <1>2
<1>9. ASSUME NEW fewer \in SUBSET notes, Suppression(Cardinality(fewer)) = "none"
      PROVE  Cardinality(notes) >= Floor
  BY <1>1, <1>2, <1>7, <1>9, FloorAssumption
<1> QED
  BY <1>3, <1>4, <1>5, <1>6, <1>8, <1>9 DEF notes

\* What has a figure has one among more rows.
LEMMA MoreRowsMoreFigures ==
    ASSUME ReadsInv, NEW more \in SUBSET DOMAIN rows, NEW read \in SUBSET more,
           HasAFigure(Line(read))
    PROVE  HasAFigure(Line(more))
<1>1. RepNotes(read) \subseteq RepNotes(more) /\ RepNotes(more) \subseteq DOMAIN rows
  BY DEF RepNotes
<1>2. /\ IsFiniteSet(RepNotes(more)) /\ Cardinality(RepNotes(more)) \in Nat
      /\ Cardinality(RepNotes(read)) \in Nat
  BY <1>1, ReadFinite DEF ReadsInv
<1>3. Cardinality(RepNotes(read)) <= Cardinality(RepNotes(more))
  BY <1>1, <1>2, FS_Subset
<1>4. Cardinality(RepNotes(read)) >= Floor
  BY FigureIffEnough
<1>5. Cardinality(RepNotes(more)) >= Floor
  BY <1>2, <1>3, <1>4, FloorAssumption
<1> QED
  BY <1>5, FigureIffEnough

\* A brief that is sent has one above it that is sent.
LEMMA ReachUp ==
    ASSUME ReadsInv
    PROVE  FiguresReachUp
<1> SUFFICES ASSUME NEW u \in InATeam
             PROVE  /\ ReadBrief("rep", u) = 200 => ReadBrief("team_leader", u) = 200
                    /\ ReadBrief("team_leader", u) = 200 =>
                           \A head \in DOMAIN users : ReadBrief("head_of_sales", head) = 200
  BY DEF FiguresReachUp
<1> DEFINE team == users[u].team
<1>1. u \in DOMAIN users /\ u \in Members(team) /\ team \in Teams /\ team # NoTeam
  BY DEF InATeam, Members, Teams
<1>2. ReadBrief("rep", u) = 200 => HasAFigure(Line(RowsBetween({u})))
  BY <1>1 DEF ReadBrief, BuildBrief, LinesOf, RepBrief
<1>3. ReadBrief("team_leader", u) = 200 <=>
          \/ HasAFigure(Line(TeamRows(team)))
          \/ \E v \in Members(team) : HasAFigure(Line(ByAuthor(TeamRows(team), {v})))
  <2> DEFINE lines == LinesOf(TeamBrief(team))
  <2>1. BuildBrief("team_leader", u) = lines
    BY <1>1 DEF BuildBrief
  <2>2. ReadBrief("team_leader", u) = 200 <=> \E line \in lines : HasAFigure(line)
    BY <1>1, <2>1 DEF ReadBrief
  <2>3. lines = {Line(TeamRows(team))}
                    \cup {Line(ByAuthor(TeamRows(team), {v})) : v \in Members(team)}
    BY DEF LinesOf, TeamBrief
  <2> HIDE DEF lines
  <2> QED
    BY <2>2, <2>3
<1>4. ASSUME NEW head \in DOMAIN users, HasAFigure(Line(Everything))
      PROVE  ReadBrief("head_of_sales", head) = 200
  BY <1>4 DEF ReadBrief, BuildBrief, LinesOf, OrgBrief
<1> HIDE DEF team
<1>5. ReadBrief("rep", u) = 200 => ReadBrief("team_leader", u) = 200
  BY <1>1, <1>2, <1>3, ReadsOfPeople
<1>6. \A v \in Members(team) : ByAuthor(TeamRows(team), {v}) \subseteq TeamRows(team)
  BY DEF ByAuthor
<1>7. TeamRows(team) \subseteq Everything /\ Everything \in SUBSET DOMAIN rows
  BY <1>1, ReadsOfPeople DEF ByAuthor
<1>8. ReadBrief("team_leader", u) = 200 => HasAFigure(Line(Everything))
  BY <1>3, <1>6, <1>7, MoreRowsMoreFigures
<1> QED
  BY <1>4, <1>5, <1>8

-----------------------------------------------------------------------------
(* The invariant of the briefs *)

\* Every total has a band of the rubric's.
LEMMA BandIsOne ==
    ASSUME NEW total \in 0..100
    PROVE  Band(total) \in 1..Len(BandTops)
<1> DEFINE S == {i \in DOMAIN BandTops : total <= BandTops[i]} \cup {Len(BandTops)}
<1>1. S \in SUBSET Nat /\ S # {} /\ S \subseteq 1..Len(BandTops)
  BY TotalsAssumption
<1>2. \E n \in S : \A m \in S : n <= m
  <2> HIDE DEF S
  <2> QED
    BY <1>1, Least
<1>3. Band(total) \in S
  BY <1>2 DEF Band, Min
<1> QED
  BY <1>1, <1>3

\* Every row the pipeline shapes is a row of its note's author, with both halves or neither.
LEMMA RowsRecorded ==
    ASSUME NEW n \in Notes, NEW sent \in BOOLEAN, version \in 1..MaxVersion
    PROVE  /\ \A total \in Totals : /\ ScoredRow(n, total, sent) \in Row
                                    /\ ScoredRow(n, total, sent).author = Authors[n]
                                    /\ ScoredRow(n, total, sent).note = n
                                    /\ ScoredRow(n, total, sent).total # Null
                                    /\ ScoredRow(n, total, sent).band # Null
           /\ \A kind \in {"note_too_short", "unclassifiable", "system_event"} :
                 /\ SuppressedRow(n, kind, sent) \in Row
                 /\ SuppressedRow(n, kind, sent).author = Authors[n]
                 /\ SuppressedRow(n, kind, sent).note = n
                 /\ SuppressedRow(n, kind, sent).total = Null
                 /\ SuppressedRow(n, kind, sent).band = Null
<1>1. Authors[n] \in Everyone /\ CreatedAt[n] \in {CreatedAt[m] : m \in Notes}
  BY DEF Everyone
<1>2. ASSUME NEW total \in Totals
      PROVE  /\ ScoredRow(n, total, sent) \in Row
             /\ ScoredRow(n, total, sent).author = Authors[n]
             /\ ScoredRow(n, total, sent).note = n
             /\ ScoredRow(n, total, sent).total # Null
             /\ ScoredRow(n, total, sent).band # Null
  <2>1. total \in 0..100 /\ total # Null
    BY TotalsAssumption DEF Null
  <2>2. Band(total) \in 1..Len(BandTops)
    BY <2>1, BandIsOne
  <2>5. Band(total) # Null
    BY <2>2, TotalsAssumption DEF Null
  <2> DEFINE flag == total < AcceptAt
             ask == sent /\ total < AcceptAt
  <2>3. flag \in BOOLEAN /\ ask \in BOOLEAN
    OBVIOUS
  <2>4. ScoredRow(n, total, sent) =
            [note |-> n, author |-> Authors[n], created |-> CreatedAt[n], system |-> FALSE,
             total |-> total, band |-> Band(total), stamp |-> version,
             sent |-> ask, flagged |-> flag]
    BY DEF ScoredRow
  <2> HIDE DEF flag, ask
  <2> QED
    BY <1>1, <2>1, <2>2, <2>3, <2>4, <2>5 DEF Row
<1>3. ASSUME NEW kind \in {"note_too_short", "unclassifiable", "system_event"}
      PROVE  /\ SuppressedRow(n, kind, sent) \in Row
             /\ SuppressedRow(n, kind, sent).author = Authors[n]
             /\ SuppressedRow(n, kind, sent).note = n
             /\ SuppressedRow(n, kind, sent).total = Null
             /\ SuppressedRow(n, kind, sent).band = Null
  <2> DEFINE flag == kind = "note_too_short"
             ask == sent /\ kind = "note_too_short"
             system == kind = "system_event"
  <2>3. flag \in BOOLEAN /\ ask \in BOOLEAN /\ system \in BOOLEAN
    OBVIOUS
  <2>4. SuppressedRow(n, kind, sent) =
            [note |-> n, author |-> Authors[n], created |-> CreatedAt[n], system |-> system,
             total |-> Null, band |-> Null, stamp |-> version,
             sent |-> ask, flagged |-> flag]
    BY DEF SuppressedRow
  <2> HIDE DEF flag, ask, system
  <2> QED
    BY <1>1, <2>3, <2>4 DEF Row
<1> QED
  BY <1>2, <1>3

\* A row has a total exactly when it has a band.
Halved == \A i \in DOMAIN rows : rows[i].total = Null <=> rows[i].band = Null
FiguresInv ==
    ReadsInv /\ now \in 0..MaxTime /\ version \in 1..MaxVersion /\ Halved

\* In every step the rows are kept, or one of a note by its author is recorded behind them.
LEMMA StepsRecord ==
    ASSUME FiguresInv, [BriefsNext]_briefsVars
    PROVE  /\ users' = users /\ now' \in 0..MaxTime /\ version' \in 1..MaxVersion
           /\ \/ rows' = rows
              \/ \E row \in Row : /\ rows' = Append(rows, row)
                                  /\ row.author = Authors[row.note]
                                  /\ row.total = Null <=> row.band = Null
<1>1. CASE RecordNote
  <2>1. PICK n \in Notes, sent \in BOOLEAN :
            \/ \E total \in Totals : Record(ScoredRow(n, total, sent))
            \/ \E kind \in {"note_too_short", "unclassifiable", "system_event"} :
                   Record(SuppressedRow(n, kind, sent))
    BY <1>1 DEF RecordNote
  <2>2. \E row \in Row : /\ Record(row) /\ row.author = Authors[row.note]
                         /\ row.total = Null <=> row.band = Null
    BY <2>1, RowsRecorded DEF FiguresInv
  <2> QED
    BY <2>2 DEF Record, FiguresInv
<1>2. CASE Tick
  BY <1>2, BoundsAssumption DEF Tick, FiguresInv
<1>3. CASE Reconfigure
  BY <1>3, BoundsAssumption DEF Reconfigure, FiguresInv
<1>4. CASE UNCHANGED briefsVars
  BY <1>4 DEF briefsVars, FiguresInv
<1> QED
  BY <1>1, <1>2, <1>3, <1>4 DEF BriefsNext

\* The rows recorded so far stay what they are.
LEMMA RowsKept ==
    ASSUME FiguresInv, [BriefsNext]_briefsVars
    PROVE  /\ rows' \in Seq(Row) /\ DOMAIN rows \subseteq DOMAIN rows'
           /\ \A i \in DOMAIN rows : rows'[i] = rows[i]
           /\ \A i \in DOMAIN rows' \ DOMAIN rows :
                  /\ rows'[i].author = Authors[rows'[i].note]
                  /\ rows'[i].total = Null <=> rows'[i].band = Null
<1>1. rows \in Seq(Row)
  BY DEF FiguresInv, ReadsInv
<1>2. CASE rows' = rows
  BY <1>1, <1>2
<1>3. ASSUME NEW row \in Row, rows' = Append(rows, row), row.author = Authors[row.note],
             row.total = Null <=> row.band = Null
      PROVE  /\ rows' \in Seq(Row) /\ DOMAIN rows \subseteq DOMAIN rows'
             /\ \A i \in DOMAIN rows : rows'[i] = rows[i]
             /\ \A i \in DOMAIN rows' \ DOMAIN rows : rows'[i] = row
  BY <1>1, <1>3
<1> QED
  BY <1>2, <1>3, StepsRecord

\* Nothing is recorded at first.
LEMMA InitFiguresInv == BriefsInit => FiguresInv
<1> SUFFICES ASSUME BriefsInit PROVE FiguresInv
  OBVIOUS
<1>1. rows = <<>> /\ users \in Directories /\ now = 0 /\ version = 1
  BY DEF BriefsInit
<1>2. rows \in Seq(Row) /\ DOMAIN rows = {}
  BY <1>1
<1> QED
  BY <1>1, <1>2, BoundsAssumption DEF FiguresInv, ReadsInv, Halved

\* Every step keeps the rows what they are.
LEMMA NextFiguresInv ==
    ASSUME FiguresInv, [BriefsNext]_briefsVars
    PROVE  FiguresInv'
<1>1. \A i \in DOMAIN rows' : /\ rows'[i].author = Authors[rows'[i].note]
                              /\ rows'[i].total = Null <=> rows'[i].band = Null
  BY RowsKept DEF FiguresInv, ReadsInv, Halved
<1>2. users' \in Directories /\ now' \in 0..MaxTime /\ version' \in 1..MaxVersion
  BY StepsRecord DEF FiguresInv, ReadsInv
<1> QED
  BY <1>1, <1>2, RowsKept DEF FiguresInv, ReadsInv, Halved

\* While the window stands still, what is counted is still counted.
LEMMA KeptImprovement ==
    ASSUME FiguresInv, [BriefsNext]_briefsVars, now' = now
    PROVE  CountedImproved <= CountedImproved' /\ CountedFlagged <= CountedFlagged'
<1> DEFINE read == RowsBetween(Everyone)
<1>1. /\ DOMAIN rows \subseteq DOMAIN rows' /\ rows' \in Seq(Row) /\ rows \in Seq(Row)
      /\ \A i \in DOMAIN rows : rows'[i] = rows[i]
  BY RowsKept DEF FiguresInv, ReadsInv
<1>2. read \subseteq read' /\ read \subseteq DOMAIN rows /\ read' \subseteq DOMAIN rows'
  BY <1>1 DEF RowsBetween
<1>3. /\ RepNotes(read) \subseteq RepNotes(read)' /\ Flagged(read) \subseteq Flagged(read)'
      /\ Asked(read) \subseteq Asked(read)'
  BY <1>1, <1>2 DEF RepNotes, Flagged, Asked
<1>4. ImprovedRows(read) \subseteq ImprovedRows(read)'
  BY <1>1, <1>2, <1>3 DEF ImprovedRows, Improved, Later, Asked, RepNotes
<1> DEFINE improved == ImprovedRows(read)
           flagged == Flagged(read)
<1>5. /\ improved \subseteq improved' /\ improved' \subseteq DOMAIN rows'
      /\ flagged \subseteq flagged' /\ flagged' \subseteq DOMAIN rows'
  BY <1>2, <1>3, <1>4 DEF ImprovedRows, Asked, Flagged, RepNotes
<1>6. CountedImproved = Cardinality(improved) /\ CountedFlagged = Cardinality(flagged)
  BY DEF CountedImproved, ImprovedShare, Share, CountedFlagged, FlaggedShare
<1>7. CountedImproved' = Cardinality(improved') /\ CountedFlagged' = Cardinality(flagged')
  BY DEF CountedImproved, ImprovedShare, Share, CountedFlagged, FlaggedShare
<1>8. IsFiniteSet(DOMAIN rows')
  <2>1. DOMAIN rows' = 1..Len(rows') /\ Len(rows') \in Nat
    BY <1>1
  <2> QED
    BY <2>1, FS_Interval
<1> HIDE DEF improved, flagged
<1>9. \A more \in SUBSET DOMAIN rows' : \A some \in SUBSET more : Cardinality(some) <= Cardinality(more)
  BY <1>8, FS_Subset
<1> QED
  BY <1>5, <1>6, <1>7, <1>9

\* A part of a whole is a percentage of it.
LEMMA PercentIsOne ==
    ASSUME NEW of \in Nat \ {0}, NEW counted \in 0..of
    PROVE  Percent(counted, of) \in 0..100
<1> DEFINE half == of \div 2
           n == counted * 100 + half
           q == n \div of
<1>1. half \in Nat /\ 2 * half <= of
  BY SMT
<1>2. counted * 100 \in Nat /\ counted * 100 <= of * 100
  BY SMT
<1>3. n \in Nat
  BY <1>1, <1>2
<1> HIDE DEF half, n
<1>4. q \in Nat /\ of * q <= n
  BY <1>3, SMT
<1> HIDE DEF q
<1>5. of * q < of * 101
  BY <1>1, <1>2, <1>4, SMT DEF n
<1>6. q <= 100
  BY <1>4, <1>5, SMT
<1> QED
  BY <1>4, <1>6 DEF Percent, q, n, half

\* A share counts some of what it is out of.
LEMMA SharesTyped ==
    ASSUME ReadsInv, NEW read \in SUBSET DOMAIN rows
    PROVE  LineOK(Line(read))
<1> SUFFICES ASSUME NEW m \in {"flagged", "improved"}
             PROVE  /\ Line(read)[m].counted \in 0..Line(read)[m].of
                    /\ Line(read)[m].percent \in 0..100 \cup {Null}
  BY DEF LineOK
<1> DEFINE of == Counting(m, "of", read)
           counted == Counting(m, "counted", read)
<1>1. of \subseteq read /\ counted \subseteq of
  BY DEF Counting, RepNotes, Flagged, Asked, ImprovedRows
<1>2. IsFiniteSet(of) /\ Cardinality(of) \in Nat /\ Cardinality(counted) \in Nat
  BY <1>1, ReadFinite DEF ReadsInv
<1>3. Cardinality(counted) \in 0..Cardinality(of)
  <2> HIDE DEF of, counted
  <2>1. Cardinality(counted) <= Cardinality(of)
    BY <1>1, <1>2, FS_Subset
  <2> QED
    BY <1>2, <2>1
<1>4. Line(read)[m] = Share(Cardinality(counted), Cardinality(of))
  BY DEF Counting, Line, FlaggedShare, ImprovedShare
<1> HIDE DEF of, counted
<1>5. Suppression(Cardinality(of)) = "none" => Cardinality(of) # 0
  BY DEF Suppression
<1>6. Cardinality(of) # 0 => Percent(Cardinality(counted), Cardinality(of)) \in 0..100
  BY <1>2, <1>3, PercentIsOne
<1> QED
  BY <1>3, <1>4, <1>5, <1>6 DEF Share

-----------------------------------------------------------------------------
(* The theorems of the briefs *)

\* Types of the briefs' state, and every proportion a brief could print.
THEOREM BriefsTyped == BriefsSpec => []BriefsTypeOK
<1>1. FiguresInv => BriefsTypeOK
  <2> SUFFICES ASSUME FiguresInv PROVE BriefsTypeOK
    OBVIOUS
  <2>1. \A authors \in SUBSET Everyone : LineOK(Line(RowsBetween(authors)))
    BY SharesTyped DEF FiguresInv, RowsBetween
  <2> QED
    BY <2>1 DEF BriefsTypeOK, FiguresInv, ReadsInv, Halved
<1> QED
  BY <1>1, InitFiguresInv, NextFiguresInv, PTL DEF BriefsSpec

\* Nobody's figures depend on who reads them, and every roll-up counts exactly the
\* people under it (SameFiguresAtEveryAltitude).
THEOREM BriefsSameFigures == BriefsSpec => []SameFiguresAtEveryAltitude
<1>1. FiguresInv => SameFiguresAtEveryAltitude
  BY SameFigures DEF FiguresInv
<1> QED
  BY <1>1, InitFiguresInv, NextFiguresInv, PTL DEF BriefsSpec

\* Whoever reads about more people is sent a brief whenever one of them is
\* (FiguresReachUp).
THEOREM BriefsFiguresReachUp == BriefsSpec => []FiguresReachUp
<1>1. FiguresInv => FiguresReachUp
  BY ReachUp DEF FiguresInv
<1> QED
  BY <1>1, InitFiguresInv, NextFiguresInv, PTL DEF BriefsSpec

\* No row recorded later takes back an improvement (ImprovementKept).
THEOREM BriefsImprovementKept == BriefsSpec => ImprovementKept
<1>1. FiguresInv /\ [BriefsNext]_briefsVars =>
          [now' = now => CountedImproved <= CountedImproved'
                             /\ CountedFlagged <= CountedFlagged']_briefsVars
  BY KeptImprovement
<1> QED
  BY <1>1, InitFiguresInv, NextFiguresInv, PTL DEF BriefsSpec, ImprovementKept
===============================================================================
