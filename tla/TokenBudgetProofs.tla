--------------------------- MODULE TokenBudgetProofs ---------------------------
(***************************************************************************)
(* The token budget for any number of slots, users, limits and thresholds. *)
(* WarnedOnce is inductive with the types.  OvershootBounded is not: what  *)
(* a judgement may still spend, and what is on its way to the store, has   *)
(* to be counted with what is on the counter.  A judgement that is         *)
(* admitted renews the bound, whatever happened before; every other step   *)
(* only moves tokens from the calls still to be made, through the wire, to *)
(* the counter.                                                            *)
(***************************************************************************)
EXTENDS TokenBudget, FiniteSetTheorems, TLAPS

\* The calls of this counter that slots with so many left may still make, and
\* the charges of it among those on their way.
CallsLeft(c, l) == {call \in SlotsOf(c) \X (1..(2 * Passes)) : call[2] <= l[call[1]]}
ChargesTo(c, w) == {charge \in w : c \in CountersOf[charge[1]]}
Load(c) == Cardinality(CallsLeft(c, left)) + Cardinality(ChargesTo(c, wire))

\* In calls: what nobody guards, with what the slots may spend from full or
\* from a degraded judgement.
UnguardedCalls == bypasses * 2 * Passes + lost
Fresh(c) == Cardinality(SlotsOf(c)) * 2 * Passes + UnguardedCalls
Degraded(c) == (Cardinality(SlotsOf(c)) * 2 - 1) * Passes + UnguardedCalls

LoadWithin(c) ==
    \/ total[c].n + Load(c) * MostTokens <= WarnAt[c] - 1 + Fresh(c) * MostTokens
    \/ total[c].n + Load(c) * MostTokens <= Limit[c] - 1 + Degraded(c) * MostTokens

\* Only a spending judgement has calls left, and a charge is lost but once.
CallsOf ==
    /\ \A s \in Slots : pc[s] # "spending" => left[s] = 0
    /\ IsFiniteSet(wire) /\ Cardinality(wire) <= lost

BudgetInv == TypeOK /\ CallsOf /\ \A c \in Counters : LoadWithin(c)

-----------------------------------------------------------------------------
LEMMA Constants ==
    /\ IsFiniteSet(Slots) /\ CountersOf \in [Slots -> SUBSET Counters]
    /\ Limit \in [Counters -> Nat \ {0}] /\ WarnAt \in [Counters -> Nat \ {0}]
    /\ \A c \in Counters : WarnAt[c] <= Limit[c] /\ Leftover \subseteq 1..Limit[c]
    /\ Window \in Nat \ {0} /\ Passes \in Nat \ {0} /\ Tokens \subseteq Nat \ {0}
    /\ MaxBypasses \in Nat /\ MaxLost \in Nat
BY SlotsAssumption, BudgetAssumption

LEMMA MostTokensFacts == MostTokens \in Nat \ {0} /\ \A t \in Tokens : t <= MostTokens
<1>1. MostTokens \in Tokens /\ \A t \in Tokens : t <= MostTokens
  BY BudgetAssumption DEF MostTokens
<1> QED
  BY <1>1, Constants

\* Arithmetic of one counter, in calls of `m' tokens each.
LEMMA Scaled ==
    ASSUME NEW a \in Int, NEW b \in Int, NEW m \in Nat
    PROVE  /\ (a + b) * m = a * m + b * m
           /\ a <= b => a * m <= b * m
<1>1. (a + b) * m = a * m + b * m
  OBVIOUS
<1>2. ASSUME a <= b PROVE a * m <= b * m
  <2>1. PICK d \in Nat : b = a + d
    BY <1>2
  <2>2. b * m = a * m + d * m
    BY <2>1
  <2>3. d * m >= 0
    OBVIOUS
  <2>4. a * m \in Int /\ d * m \in Int /\ b * m \in Int
    OBVIOUS
  <2> QED
    BY <2>2, <2>3, <2>4
<1> QED
  BY <1>1, <1>2

LEMMA SlotsOfFacts ==
    ASSUME NEW c \in Counters
    PROVE  IsFiniteSet(SlotsOf(c)) /\ Cardinality(SlotsOf(c)) \in Nat \ {0}
<1>1. SlotsOf(c) \subseteq Slots /\ SlotsOf(c) # {}
  BY SlotsAssumption DEF SlotsOf
<1>2. IsFiniteSet(SlotsOf(c))
  BY <1>1, Constants, FS_Subset
<1> QED
  BY <1>1, <1>2, FS_CardinalityType, FS_EmptySet

-----------------------------------------------------------------------------
(* How many calls are left *)

\* So many calls of so many slots.
LEMMA Block ==
    ASSUME NEW S, IsFiniteSet(S), NEW k \in Nat
    PROVE  IsFiniteSet(S \X (1..k)) /\ Cardinality(S \X (1..k)) = Cardinality(S) * k
<1>1. IsFiniteSet(1..k) /\ Cardinality(1..k) = k
  BY FS_Interval
<1> QED
  BY <1>1, FS_Product

LEMMA LeftFacts ==
    ASSUME NEW c \in Counters, NEW l \in [Slots -> 0..(2 * Passes)]
    PROVE  /\ IsFiniteSet(CallsLeft(c, l)) /\ Cardinality(CallsLeft(c, l)) \in Nat
           /\ Cardinality(CallsLeft(c, l)) <= Cardinality(SlotsOf(c)) * 2 * Passes
<1> DEFINE block == SlotsOf(c) \X (1..(2 * Passes))
<1>1. 2 * Passes \in Nat
  BY Constants
<1>2. IsFiniteSet(block) /\ Cardinality(block) = Cardinality(SlotsOf(c)) * (2 * Passes)
  BY <1>1, SlotsOfFacts, Block
<1>3. CallsLeft(c, l) \subseteq block
  BY DEF CallsLeft
<1>4. /\ IsFiniteSet(CallsLeft(c, l)) /\ Cardinality(CallsLeft(c, l)) \in Nat
      /\ Cardinality(CallsLeft(c, l)) <= Cardinality(block)
  BY <1>2, <1>3, FS_Subset, FS_CardinalityType
<1>5. Cardinality(SlotsOf(c)) * (2 * Passes) = Cardinality(SlotsOf(c)) * 2 * Passes
  BY Constants, SlotsOfFacts
<1> QED
  BY <1>2, <1>4, <1>5

\* Fewer calls of each slot, fewer calls.
LEMMA LeftFewer ==
    ASSUME NEW c \in Counters, NEW l \in [Slots -> 0..(2 * Passes)],
           NEW k \in [Slots -> 0..(2 * Passes)], \A s \in SlotsOf(c) : k[s] <= l[s]
    PROVE  Cardinality(CallsLeft(c, k)) <= Cardinality(CallsLeft(c, l))
<1>1. ASSUME NEW call \in CallsLeft(c, k) PROVE call \in CallsLeft(c, l)
  <2>1. PICK s \in SlotsOf(c), i \in 1..(2 * Passes) : call = <<s, i>> /\ i <= k[s]
    BY DEF CallsLeft
  <2>2. s \in Slots /\ k[s] \in Int /\ l[s] \in Int /\ i \in Int /\ k[s] <= l[s]
    BY <2>1, Constants DEF SlotsOf
  <2> QED
    BY <2>1, <2>2 DEF CallsLeft
<1>2. CallsLeft(c, k) \subseteq CallsLeft(c, l)
  BY <1>1
<1> QED
  BY <1>2, LeftFacts, FS_Subset

\* A call is made.
LEMMA LeftOneLess ==
    ASSUME NEW c \in Counters, NEW l \in [Slots -> 0..(2 * Passes)], NEW s \in SlotsOf(c),
           l[s] > 0
    PROVE  Cardinality(CallsLeft(c, [l EXCEPT ![s] = l[s] - 1]))
             = Cardinality(CallsLeft(c, l)) - 1
<1> DEFINE k == [l EXCEPT ![s] = l[s] - 1]
<1>0. s \in Slots /\ l[s] \in 1..(2 * Passes)
  BY Constants DEF SlotsOf
<1>1. <<s, l[s]>> \in CallsLeft(c, l)
  BY <1>0 DEF CallsLeft
<1>2. CallsLeft(c, k) = CallsLeft(c, l) \ {<<s, l[s]>>}
  <2>1. ASSUME NEW r \in SlotsOf(c), NEW i \in 1..(2 * Passes)
        PROVE  i <= k[r] <=> i <= l[r] /\ <<r, i>> # <<s, l[s]>>
    <3>1. r \in Slots /\ l[r] \in 0..(2 * Passes)
      BY DEF SlotsOf
    <3> QED
      BY <1>0, <3>1, Constants
  <2>2. ASSUME NEW call \in SlotsOf(c) \X (1..(2 * Passes))
        PROVE  call[2] <= k[call[1]] <=> call[2] <= l[call[1]] /\ call # <<s, l[s]>>
    BY <2>1
  <2> HIDE DEF k
  <2>3. /\ CallsLeft(c, k) \subseteq SlotsOf(c) \X (1..(2 * Passes))
        /\ CallsLeft(c, l) \subseteq SlotsOf(c) \X (1..(2 * Passes))
    BY DEF CallsLeft
  <2>4. \A call \in SlotsOf(c) \X (1..(2 * Passes)) :
            call \in CallsLeft(c, k) <=> call \in CallsLeft(c, l) /\ call # <<s, l[s]>>
    BY <2>2 DEF CallsLeft
  <2> QED
    BY <2>3, <2>4
<1> HIDE DEF k
<1>3. Cardinality(CallsLeft(c, k)) = Cardinality(CallsLeft(c, l)) - 1
  BY <1>1, <1>2, LeftFacts, FS_RemoveElement
<1> QED
  BY <1>3 DEF k

\* A slot that had no calls left gets a judgement's.
LEMMA LeftMore ==
    ASSUME NEW c \in Counters, NEW l \in [Slots -> 0..(2 * Passes)], NEW s \in Slots,
           NEW more \in 0..(2 * Passes)
    PROVE  Cardinality(CallsLeft(c, [l EXCEPT ![s] = more]))
             <= Cardinality(CallsLeft(c, l)) + more
<1> DEFINE k == [l EXCEPT ![s] = more]
           own == {s} \X (1..more)
<1>0. k \in [Slots -> 0..(2 * Passes)] /\ more \in Nat
  BY Constants
<1>1. IsFiniteSet(own) /\ Cardinality(own) = more
  <2>1. IsFiniteSet({s}) /\ Cardinality({s}) = 1
    BY FS_Singleton
  <2>2. IsFiniteSet(own) /\ Cardinality(own) = 1 * more
    BY <1>0, <2>1, Block
  <2> QED
    BY <1>0, <2>2
<1>2. CallsLeft(c, k) \subseteq CallsLeft(c, l) \cup own
  <2>1. ASSUME NEW r \in SlotsOf(c), NEW i \in 1..(2 * Passes), i <= k[r]
        PROVE  i <= l[r] \/ <<r, i>> \in own
    BY <1>0, <2>1, Constants DEF SlotsOf
  <2> HIDE DEF k, own
  <2>2. ASSUME NEW call \in SlotsOf(c) \X (1..(2 * Passes)), call[2] <= k[call[1]]
        PROVE  call[2] <= l[call[1]] \/ call \in own
    BY <2>1, <2>2
  <2> QED
    BY <2>2 DEF CallsLeft
<1> HIDE DEF own, k
<1>3. /\ IsFiniteSet(CallsLeft(c, l) \cup own)
      /\ Cardinality(CallsLeft(c, l) \cup own) =
           Cardinality(CallsLeft(c, l)) + Cardinality(own) - Cardinality(CallsLeft(c, l) \cap own)
      /\ Cardinality(CallsLeft(c, l) \cap own) \in Nat
  <2>1. IsFiniteSet(CallsLeft(c, l) \cap own)
    BY <1>1, FS_Subset
  <2> QED
    BY <1>1, <2>1, LeftFacts, FS_Union, FS_CardinalityType
<1>4. Cardinality(CallsLeft(c, k)) <= Cardinality(CallsLeft(c, l) \cup own)
  BY <1>2, <1>3, FS_Subset
<1>5. Cardinality(CallsLeft(c, k)) \in Nat /\ Cardinality(CallsLeft(c, l)) \in Nat
  BY <1>0, LeftFacts
<1>6. Cardinality(CallsLeft(c, k)) <= Cardinality(CallsLeft(c, l)) + more
  BY <1>0, <1>1, <1>3, <1>4, <1>5
<1> QED
  BY <1>6 DEF k

\* One of the slots runs without reprompts.
LEMMA LeftDegraded ==
    ASSUME NEW c \in Counters, NEW l \in [Slots -> 0..(2 * Passes)], NEW s \in SlotsOf(c)
    PROVE  Cardinality(CallsLeft(c, [l EXCEPT ![s] = Passes]))
             <= (Cardinality(SlotsOf(c)) * 2 - 1) * Passes
<1> DEFINE l0 == [l EXCEPT ![s] = 0]
           others == (SlotsOf(c) \ {s}) \X (1..(2 * Passes))
           n == Cardinality(SlotsOf(c))
<1>0. /\ s \in Slots /\ Passes \in 0..(2 * Passes) /\ 2 * Passes \in Nat /\ Passes \in Nat
      /\ l0 \in [Slots -> 0..(2 * Passes)] /\ [l EXCEPT ![s] = Passes] = [l0 EXCEPT ![s] = Passes]
  BY Constants DEF SlotsOf
<1>1. n \in Nat /\ IsFiniteSet(SlotsOf(c) \ {s}) /\ Cardinality(SlotsOf(c) \ {s}) = n - 1
  BY SlotsOfFacts, FS_RemoveElement
<1>2. IsFiniteSet(others) /\ Cardinality(others) = (n - 1) * (2 * Passes)
  BY <1>0, <1>1, Block
<1>3. CallsLeft(c, l0) \subseteq others
  <2>1. ASSUME NEW r \in SlotsOf(c), NEW i \in 1..(2 * Passes), i <= l0[r] PROVE r # s
    BY <1>0, <2>1
  <2> HIDE DEF l0
  <2> QED
    BY <2>1 DEF CallsLeft
<1> HIDE DEF l0, others, n
<1>4. Cardinality(CallsLeft(c, l0)) <= (n - 1) * (2 * Passes)
  BY <1>2, <1>3, FS_Subset
<1>5. /\ Cardinality(CallsLeft(c, [l0 EXCEPT ![s] = Passes])) <= Cardinality(CallsLeft(c, l0)) + Passes
      /\ Cardinality(CallsLeft(c, l0)) \in Nat
      /\ Cardinality(CallsLeft(c, [l0 EXCEPT ![s] = Passes])) \in Nat
  <2>1. [l0 EXCEPT ![s] = Passes] \in [Slots -> 0..(2 * Passes)]
    BY <1>0
  <2> QED
    BY <1>0, <2>1, LeftMore, LeftFacts
<1>6. (n - 1) * (2 * Passes) + Passes = (n * 2 - 1) * Passes /\ (n * 2 - 1) * Passes \in Int
  BY <1>0, <1>1
<1>7. Cardinality(CallsLeft(c, [l0 EXCEPT ![s] = Passes])) <= (n * 2 - 1) * Passes
  <2>1. (n - 1) * (2 * Passes) \in Int
    BY <1>0, <1>1
  <2> QED
    BY <1>0, <1>4, <1>5, <1>6, <2>1
<1> QED
  BY <1>0, <1>7 DEF n

-----------------------------------------------------------------------------
(* What is on the wire *)

LEMMA WireFacts ==
    ASSUME NEW c \in Counters, NEW w, IsFiniteSet(w)
    PROVE  /\ IsFiniteSet(ChargesTo(c, w)) /\ Cardinality(ChargesTo(c, w)) \in Nat
           /\ Cardinality(ChargesTo(c, w)) <= Cardinality(w)
<1>1. ChargesTo(c, w) \subseteq w
  BY DEF ChargesTo
<1> QED
  BY <1>1, FS_Subset, FS_CardinalityType

\* One more member is at most one more.
LEMMA OneMore ==
    ASSUME NEW S, IsFiniteSet(S), NEW x
    PROVE  /\ IsFiniteSet(S \cup {x}) /\ Cardinality(S) \in Nat
           /\ Cardinality(S \cup {x}) <= Cardinality(S) + 1
<1>1. Cardinality(S) \in Nat
  BY FS_CardinalityType
<1>2. /\ IsFiniteSet(S \cup {x})
      /\ Cardinality(S \cup {x}) = IF x \in S THEN Cardinality(S) ELSE Cardinality(S) + 1
  BY FS_AddElement
<1> QED
  BY <1>1, <1>2

\* One more charge on the wire is at most one more for each counter.
LEMMA WireOneMore ==
    ASSUME NEW c \in Counters, NEW w, IsFiniteSet(w), NEW charge
    PROVE  Cardinality(ChargesTo(c, w \cup {charge})) <= Cardinality(ChargesTo(c, w)) + 1
<1>1. ChargesTo(c, w \cup {charge}) \subseteq ChargesTo(c, w) \cup {charge}
  BY DEF ChargesTo
<1>2. /\ IsFiniteSet(ChargesTo(c, w) \cup {charge}) /\ Cardinality(ChargesTo(c, w)) \in Nat
      /\ Cardinality(ChargesTo(c, w) \cup {charge}) <= Cardinality(ChargesTo(c, w)) + 1
  BY WireFacts, OneMore
<1>3. /\ IsFiniteSet(ChargesTo(c, w \cup {charge}))
      /\ Cardinality(ChargesTo(c, w \cup {charge})) <= Cardinality(ChargesTo(c, w) \cup {charge})
  BY <1>1, <1>2, FS_Subset
<1>4. /\ Cardinality(ChargesTo(c, w \cup {charge})) \in Nat
      /\ Cardinality(ChargesTo(c, w) \cup {charge}) \in Nat
  BY <1>2, <1>3, FS_CardinalityType
<1> QED
  BY <1>2, <1>3, <1>4

\* A charge leaves the wire.
LEMMA WireOneLess ==
    ASSUME NEW c \in Counters, NEW w, IsFiniteSet(w), NEW charge \in w
    PROVE  /\ IsFiniteSet(w \ {charge}) /\ Cardinality(w \ {charge}) <= Cardinality(w)
           /\ Cardinality(ChargesTo(c, w \ {charge})) <= Cardinality(ChargesTo(c, w))
           /\ c \in CountersOf[charge[1]] =>
                Cardinality(ChargesTo(c, w \ {charge})) = Cardinality(ChargesTo(c, w)) - 1
<1>1. IsFiniteSet(w \ {charge}) /\ Cardinality(w \ {charge}) <= Cardinality(w)
  BY FS_Subset
<1>2. ChargesTo(c, w \ {charge}) = ChargesTo(c, w) \ {charge}
  BY DEF ChargesTo
<1>3. IsFiniteSet(ChargesTo(c, w))
  BY WireFacts
<1>4. Cardinality(ChargesTo(c, w) \ {charge}) <= Cardinality(ChargesTo(c, w))
  BY <1>3, FS_Subset
<1>5. ASSUME c \in CountersOf[charge[1]]
      PROVE  Cardinality(ChargesTo(c, w) \ {charge}) = Cardinality(ChargesTo(c, w)) - 1
  <2>1. charge \in ChargesTo(c, w)
    BY <1>5 DEF ChargesTo
  <2> QED
    BY <1>3, <2>1, FS_RemoveElement
<1> QED
  BY <1>1, <1>2, <1>4, <1>5

-----------------------------------------------------------------------------
(* Renewing the bound, and moving tokens under it *)

LEMMA LoadType == ASSUME TypeOK, CallsOf, NEW c \in Counters PROVE Load(c) \in Nat
<1>1. Cardinality(CallsLeft(c, left)) \in Nat
  BY LeftFacts DEF TypeOK
<1>2. Cardinality(ChargesTo(c, wire)) \in Nat
  BY WireFacts DEF CallsOf
<1> QED
  BY <1>1, <1>2 DEF Load

LEMMA UnguardedType == TypeOK => UnguardedCalls \in Nat
<1> SUFFICES ASSUME TypeOK PROVE UnguardedCalls \in Nat
  OBVIOUS
<1>1. bypasses \in Nat /\ lost \in Nat /\ Passes \in Nat
  BY Constants DEF TypeOK
<1> QED
  BY <1>1 DEF UnguardedCalls

\* The arithmetic of a renewal: so many calls over a reading below `limit'.
LEMMA Renewed ==
    ASSUME NEW n \in Nat, NEW limit \in Nat \ {0}, n < limit, NEW calls \in Nat,
           NEW bound \in Int, calls <= bound, NEW m \in Nat
    PROVE  n + calls * m <= limit - 1 + bound * m
<1>1. calls * m <= bound * m
  BY Scaled
<1>2. calls * m \in Int /\ bound * m \in Int
  OBVIOUS
<1> QED
  BY <1>1, <1>2

\* The arithmetic of a move: what lands on the counter leaves the load, and what
\* nobody guards is allowed for.
LEMMA Moved ==
    ASSUME NEW n \in Nat, NEW n2 \in Nat, NEW calls \in Nat, NEW calls2 \in Nat,
           NEW bound \in Int, NEW bound2 \in Int, NEW m \in Nat, NEW base \in Int,
           \/ n2 <= n /\ calls2 + bound <= calls + bound2
           \/ n2 <= n + m /\ calls2 + 1 + bound <= calls + bound2,
           n + calls * m <= base + bound * m
    PROVE  n2 + calls2 * m <= base + bound2 * m
<1>1. /\ (calls2 + bound) * m = calls2 * m + bound * m
      /\ (calls + bound2) * m = calls * m + bound2 * m
      /\ (calls2 + 1 + bound) * m = calls2 * m + m + bound * m
  OBVIOUS
<1>2. calls2 * m \in Int /\ bound * m \in Int /\ calls * m \in Int /\ bound2 * m \in Int
  OBVIOUS
<1>3. CASE n2 <= n /\ calls2 + bound <= calls + bound2
  <2>1. (calls2 + bound) * m <= (calls + bound2) * m
    <3>1. calls2 + bound \in Int /\ calls + bound2 \in Int
      OBVIOUS
    <3> QED
      BY <1>3, <3>1, Scaled
  <2> QED
    BY <1>1, <1>2, <1>3, <2>1
<1>4. CASE n2 <= n + m /\ calls2 + 1 + bound <= calls + bound2
  <2>1. (calls2 + 1 + bound) * m <= (calls + bound2) * m
    <3>1. calls2 + 1 + bound \in Int /\ calls + bound2 \in Int
      OBVIOUS
    <3> QED
      BY <1>4, <3>1, Scaled
  <2> QED
    BY <1>1, <1>2, <1>4, <2>1
<1> QED
  BY <1>3, <1>4

\* The same for a counter: its bound goes on when its total and its load grow by
\* no more than what is unguarded, or when an answer's tokens leave its load.
LEMMA LoadMoves ==
    ASSUME TypeOK, NEW c \in Counters, LoadWithin(c), total'[c].n \in Nat,
           Load(c) \in Nat, Load(c)' \in Nat, UnguardedCalls' \in Nat,
           \/ /\ total'[c].n <= total[c].n
              /\ Load(c)' + UnguardedCalls <= Load(c) + UnguardedCalls'
           \/ /\ total'[c].n <= total[c].n + MostTokens
              /\ Load(c)' + 1 + UnguardedCalls <= Load(c) + UnguardedCalls'
    PROVE  LoadWithin(c)'
<1> DEFINE slots == Cardinality(SlotsOf(c))
<1>1. /\ total[c].n \in Nat /\ MostTokens \in Nat /\ slots \in Nat /\ Passes \in Nat
      /\ WarnAt[c] - 1 \in Int /\ Limit[c] - 1 \in Int
  BY Constants, MostTokensFacts, SlotsOfFacts DEF TypeOK
<1>2. UnguardedCalls \in Nat
  BY UnguardedType
<1>3. slots * 2 * Passes \in Int /\ (slots * 2 - 1) * Passes \in Int
  BY <1>1
<1>4. /\ Fresh(c) = slots * 2 * Passes + UnguardedCalls
      /\ Fresh(c)' = slots * 2 * Passes + UnguardedCalls'
      /\ Degraded(c) = (slots * 2 - 1) * Passes + UnguardedCalls
      /\ Degraded(c)' = (slots * 2 - 1) * Passes + UnguardedCalls'
  BY DEF Fresh, Degraded, SlotsOf
<1> HIDE DEF slots
<1>5. ASSUME NEW part \in Int
      PROVE  /\ part + UnguardedCalls \in Int /\ part + UnguardedCalls' \in Int
             /\ \/ /\ total'[c].n <= total[c].n
                   /\ Load(c)' + (part + UnguardedCalls) <= Load(c) + (part + UnguardedCalls')
                \/ /\ total'[c].n <= total[c].n + MostTokens
                   /\ Load(c)' + 1 + (part + UnguardedCalls) <= Load(c) + (part + UnguardedCalls')
  BY <1>2
<1>6. ASSUME NEW base \in Int, NEW part \in Int,
             total[c].n + Load(c) * MostTokens <= base + (part + UnguardedCalls) * MostTokens
      PROVE  total'[c].n + Load(c)' * MostTokens <= base + (part + UnguardedCalls') * MostTokens
  <2> DEFINE b == part + UnguardedCalls
             b2 == part + UnguardedCalls'
             n1 == total[c].n
             n2 == total'[c].n
             l1 == Load(c)
             l2 == Load(c)'
             m == MostTokens
  <2>1. /\ b \in Int /\ b2 \in Int /\ n1 \in Nat /\ n2 \in Nat /\ l1 \in Nat /\ l2 \in Nat
        /\ m \in Nat
        /\ \/ n2 <= n1 /\ l2 + b <= l1 + b2
           \/ n2 <= n1 + m /\ l2 + 1 + b <= l1 + b2
        /\ n1 + l1 * m <= base + b * m
    BY <1>1, <1>5, <1>6
  <2> HIDE DEF b, b2, n1, n2, l1, l2, m
  <2>2. n2 + l2 * m <= base + b2 * m
    BY <2>1, Moved
  <2> QED
    BY <2>2 DEF b2, n2, l2, m
<1> QED
  BY <1>1, <1>3, <1>4, <1>6 DEF LoadWithin

\* What a slot's caller does to the other counters, or nobody does to any.
LEMMA LoadUntouched ==
    ASSUME TypeOK, CallsOf, NEW c \in Counters, LoadWithin(c), total'[c] = total[c],
           Load(c)' = Load(c), UNCHANGED <<bypasses, lost>>
    PROVE  LoadWithin(c)'
<1>1. UnguardedCalls' = UnguardedCalls /\ UnguardedCalls \in Nat /\ total[c].n \in Nat
  BY UnguardedType DEF UnguardedCalls, TypeOK
<1>2. Load(c) \in Nat
  BY LoadType
<1> QED
  BY <1>1, <1>2, LoadMoves

-----------------------------------------------------------------------------
LEMMA InitBudget == Init => BudgetInv
<1> SUFFICES ASSUME Init PROVE BudgetInv
  OBVIOUS
<1>1. total \in [Counters -> [n : Nat, ttl : -1..Window]]
  <2>1. {Gone} \cup {[n |-> v, ttl |-> NoExpiry] : v \in Leftover} \subseteq
          [n : Nat, ttl : -1..Window] \/ Counters = {}
    BY Constants DEF Gone, NoExpiry
  <2> QED
    BY <2>1 DEF Init
<1>2. missed \in [Counters -> BOOLEAN]
  BY DEF Init
<1>3. TypeOK
  <2>1. /\ pc \in [Slots -> {"free", "preflight", "spending"}] /\ left \in [Slots -> 0..(2 * Passes)]
        /\ bypasses \in 0..MaxBypasses /\ lost \in 0..MaxLost /\ warned \in [Counters -> Nat]
        /\ wire = {}
    BY Constants DEF Init
  <2> QED
    BY <1>1, <1>2, <2>1 DEF TypeOK
<1>4. CallsOf
  BY FS_EmptySet DEF Init, CallsOf
<1>5. ASSUME NEW c \in Counters PROVE LoadWithin(c)
  <2> DEFINE slots == Cardinality(SlotsOf(c))
  <2>1. /\ total[c].n \in Nat /\ total[c].n <= Limit[c] /\ Limit[c] \in Nat \ {0}
        /\ bypasses = 0 /\ lost = 0
    BY <1>1, Constants DEF Init, Gone
  <2>2. Load(c) = 0
    <3>1. CallsLeft(c, left) = {}
      BY Constants DEF Init, CallsLeft, SlotsOf
    <3>2. ChargesTo(c, wire) = {}
      BY DEF Init, ChargesTo
    <3> QED
      BY <3>1, <3>2, FS_EmptySet DEF Load
  <2>3. slots \in Nat \ {0} /\ Passes \in Nat \ {0} /\ MostTokens \in Nat \ {0}
    BY SlotsOfFacts, Constants, MostTokensFacts
  <2> HIDE DEF slots
  <2>4. (slots * 2 - 1) * Passes >= 1 /\ (slots * 2 - 1) * Passes \in Int
    <3>1. 1 * Passes <= (slots * 2 - 1) * Passes
      <4>1. 1 \in Int /\ slots * 2 - 1 \in Int /\ 1 <= slots * 2 - 1 /\ Passes \in Nat
        BY <2>3
      <4> QED
        BY <4>1, Scaled
    <3> QED
      BY <2>3, <3>1
  <2>5. Degraded(c) = (slots * 2 - 1) * Passes
    BY <2>1, <2>3 DEF Degraded, UnguardedCalls, slots
  <2>6. 1 * MostTokens <= Degraded(c) * MostTokens /\ Degraded(c) * MostTokens \in Int
    <3>1. Degraded(c) \in Int /\ 1 <= Degraded(c) /\ MostTokens \in Nat /\ 1 \in Int
      BY <2>3, <2>4, <2>5
    <3> QED
      BY <3>1, Scaled
  <2> QED
    BY <2>1, <2>2, <2>3, <2>6 DEF LoadWithin
<1> QED
  BY <1>3, <1>4, <1>5 DEF BudgetInv

LEMMA NextTypes ==
    ASSUME TypeOK', CallsOf', NEW c \in Counters
    PROVE  Load(c)' \in Nat /\ UnguardedCalls' \in Nat /\ total'[c].n \in Nat
<1>1. Cardinality(CallsLeft(c, left')) \in Nat
  BY LeftFacts DEF TypeOK
<1>2. Cardinality(ChargesTo(c, wire')) \in Nat
  BY WireFacts DEF CallsOf
<1>3. Load(c)' = Cardinality(CallsLeft(c, left')) + Cardinality(ChargesTo(c, wire'))
  BY DEF Load, CallsLeft, ChargesTo, SlotsOf
<1>4. bypasses' \in Nat /\ lost' \in Nat /\ Passes \in Nat
  BY Constants DEF TypeOK
<1>5. UnguardedCalls' \in Nat
  <2>1. ASSUME NEW n \in Nat, NEW m \in Nat, NEW p \in Nat PROVE n * 2 * p + m \in Nat
    OBVIOUS
  <2>2. bypasses' * 2 * Passes + lost' \in Nat
    BY <1>4, <2>1
  <2> QED
    BY <2>2 DEF UnguardedCalls
<1>6. total'[c].n \in Nat
  BY DEF TypeOK
<1> QED
  BY <1>1, <1>2, <1>3, <1>5, <1>6

\* The load after a step, from the calls and the wire after it.
LEMMA NextLoad ==
    ASSUME NEW c \in Counters
    PROVE  Load(c)' = Cardinality(CallsLeft(c, left')) + Cardinality(ChargesTo(c, wire'))
BY DEF Load, CallsLeft, ChargesTo, SlotsOf

\* The script adds its tokens to the counters it was sent for, and to no other.
LEMMA ScriptFacts ==
    ASSUME TypeOK, NEW s \in Slots, NEW t \in Tokens, AddTokensScript(s, t)
    PROVE  /\ total' \in [Counters -> [n : Nat, ttl : -1..Window]]
           /\ \A c \in Counters : IF c \in CountersOf[s] THEN total'[c].n = total[c].n + t
                                   ELSE total'[c] = total[c]
<1>1. ASSUME NEW c \in Counters
      PROVE  /\ Charged(total[c], t) \in [n : Nat, ttl : -1..Window]
             /\ Charged(total[c], t).n = total[c].n + t
  BY Constants DEF TypeOK, Charged
<1> QED
  BY <1>1 DEF TypeOK, AddTokensScript

\* Nothing is charged and nothing is called: the load stays or shrinks.
LEMMA IdleKeeps ==
    ASSUME BudgetInv, NEW s \in Slots, Reserve(s) \/ PreflightDenies(s) \/ JudgementEnds(s)
    PROVE  BudgetInv'
<1> USE DEF BudgetInv
<1>1. /\ UNCHANGED <<total, wire, bypasses, lost, warned, missed>>
      /\ pc' \in [Slots -> {"free", "preflight", "spending"}]
      /\ left' \in [Slots -> 0..(2 * Passes)]
      /\ \A q \in Slots : left'[q] <= left[q]
      /\ \A q \in Slots : pc'[q] # "spending" => left'[q] = 0
  <2>1. CASE Reserve(s)
    BY <2>1, Constants DEF Reserve, TypeOK, CallsOf
  <2>2. CASE PreflightDenies(s)
    BY <2>2, Constants DEF PreflightDenies, TypeOK, CallsOf
  <2>3. CASE JudgementEnds(s)
    BY <2>3, Constants DEF JudgementEnds, TypeOK, CallsOf
  <2> QED
    BY <2>1, <2>2, <2>3
<1>2. TypeOK' /\ CallsOf'
  BY <1>1 DEF TypeOK, CallsOf
<1>3. ASSUME NEW c \in Counters PROVE LoadWithin(c)'
  <2>1. Cardinality(CallsLeft(c, left')) <= Cardinality(CallsLeft(c, left))
    BY <1>1, LeftFewer DEF TypeOK, SlotsOf
  <2>2. /\ Cardinality(CallsLeft(c, left)) \in Nat /\ Cardinality(CallsLeft(c, left')) \in Nat
        /\ Cardinality(ChargesTo(c, wire)) \in Nat /\ wire' = wire
    BY <1>1, LeftFacts, WireFacts DEF TypeOK, CallsOf
  <2>3. Load(c)' <= Load(c)
    BY <2>1, <2>2, NextLoad DEF Load
  <2>4. UnguardedCalls' = UnguardedCalls /\ total'[c].n <= total[c].n
    BY <1>1 DEF UnguardedCalls, TypeOK
  <2> QED
    BY <1>2, <2>3, <2>4, LoadType, NextTypes, UnguardedType, LoadMoves
<1> QED
  BY <1>2, <1>3

\* The types and the calls of a slot that begins to spend.
LEMMA SpendTypes ==
    ASSUME BudgetInv, NEW s \in Slots, NEW near \in BOOLEAN, Spend(s, near),
           UNCHANGED <<total, wire, lost, warned, missed>>, bypasses' \in 0..MaxBypasses
    PROVE  /\ TypeOK' /\ CallsOf' /\ Calls(near) \in 0..(2 * Passes)
           /\ left' = [left EXCEPT ![s] = Calls(near)]
<1>1. Calls(near) \in 0..(2 * Passes)
  BY Constants DEF Calls
<1> QED
  BY <1>1 DEF BudgetInv, TypeOK, CallsOf, Spend

\* Admitted: what its counters read below their limits renews their bounds.
LEMMA AdmitKeeps == ASSUME BudgetInv, NEW s \in Slots, PreflightAdmits(s) PROVE BudgetInv'
<1> USE DEF BudgetInv
<1> DEFINE near == \E c \in CountersOf[s] : NearBudget(c)
<1>1. near \in BOOLEAN /\ Spend(s, near) /\ UNCHANGED <<total, wire, bypasses, lost, warned, missed>>
  BY DEF PreflightAdmits
<1>2. /\ TypeOK' /\ CallsOf' /\ Calls(near) \in 0..(2 * Passes)
      /\ left' = [left EXCEPT ![s] = Calls(near)]
  <2>1. bypasses' \in 0..MaxBypasses
    BY <1>1 DEF TypeOK
  <2> QED
    BY <1>1, <2>1, SpendTypes
<1>3. ASSUME NEW c \in Counters PROVE LoadWithin(c)'
  <2> DEFINE calls == Cardinality(CallsLeft(c, left'))
             charges == Cardinality(ChargesTo(c, wire))
             slots == Cardinality(SlotsOf(c))
  <2>1. calls \in Nat /\ calls <= slots * 2 * Passes
    BY <1>2, LeftFacts DEF TypeOK
  <2>2. charges \in Nat /\ charges <= lost /\ lost \in Nat
    <3>1. IsFiniteSet(wire) /\ Cardinality(wire) <= lost /\ lost \in Nat
      BY DEF TypeOK, CallsOf
    <3>2. /\ charges \in Nat /\ charges <= Cardinality(wire) /\ Cardinality(wire) \in Nat
      BY <3>1, WireFacts, FS_CardinalityType
    <3> QED
      BY <3>1, <3>2
  <2>3. Load(c)' = calls + charges
    BY <1>1, NextLoad
  <2>4. /\ total[c].n \in Nat /\ WarnAt[c] \in Nat \ {0} /\ Limit[c] \in Nat \ {0}
        /\ MostTokens \in Nat /\ slots \in Nat /\ Passes \in Nat
        /\ bypasses * 2 * Passes \in Nat /\ slots * 2 * Passes \in Int
        /\ (slots * 2 - 1) * Passes \in Int
    <3>1. bypasses \in Nat
      BY DEF TypeOK
    <3>2. slots \in Nat /\ Passes \in Nat
      BY SlotsOfFacts, Constants
    <3>3. total[c].n \in Nat
      BY DEF TypeOK
    <3>4. WarnAt[c] \in Nat \ {0} /\ Limit[c] \in Nat \ {0} /\ MostTokens \in Nat
      BY Constants, MostTokensFacts
    <3> QED
      BY <3>1, <3>2, <3>3, <3>4
  <2>5. /\ Fresh(c)' = slots * 2 * Passes + (bypasses * 2 * Passes + lost)
        /\ Degraded(c)' = (slots * 2 - 1) * Passes + (bypasses * 2 * Passes + lost)
        /\ total' = total
    BY <1>1 DEF Fresh, Degraded, UnguardedCalls, SlotsOf
  <2>6. ASSUME c \notin CountersOf[s] PROVE LoadWithin(c)'
    <3>1. CallsLeft(c, left') = CallsLeft(c, left)
      BY <1>2, <2>6 DEF CallsLeft, SlotsOf, TypeOK
    <3>2. Load(c)' = Load(c)
      BY <2>3, <3>1 DEF Load
    <3> QED
      BY <1>1, <3>2, LoadUntouched
  <2>7. ASSUME total[c].n < WarnAt[c] PROVE LoadWithin(c)'
    <3> DEFINE bound == slots * 2 * Passes + (bypasses * 2 * Passes + lost)
    <3>1. bound \in Int /\ calls + charges \in Nat /\ calls + charges <= bound
      BY <2>1, <2>2, <2>4
    <3> HIDE DEF bound, calls, charges
    <3>2. total[c].n + (calls + charges) * MostTokens <= WarnAt[c] - 1 + bound * MostTokens
      BY <2>4, <2>7, <3>1, Renewed
    <3> QED
      BY <2>3, <2>5, <3>2 DEF LoadWithin, bound
  <2>8. ASSUME c \in CountersOf[s], total[c].n >= WarnAt[c] PROVE LoadWithin(c)'
    <3> DEFINE bound == (slots * 2 - 1) * Passes + (bypasses * 2 * Passes + lost)
    <3>1. near /\ total[c].n < Limit[c]
      BY <2>4, <2>8 DEF PreflightAdmits, AtBudget, NearBudget
    <3>2. left' = [left EXCEPT ![s] = Passes] /\ s \in SlotsOf(c)
      BY <1>2, <2>8, <3>1 DEF Calls, SlotsOf
    <3>3. calls <= (slots * 2 - 1) * Passes
      BY <3>2, LeftDegraded DEF TypeOK
    <3>4. bound \in Int /\ calls + charges \in Nat /\ calls + charges <= bound
      BY <2>1, <2>2, <2>4, <3>3
    <3> HIDE DEF bound, calls, charges
    <3>5. total[c].n + (calls + charges) * MostTokens <= Limit[c] - 1 + bound * MostTokens
      BY <2>4, <3>1, <3>4, Renewed
    <3> QED
      BY <2>3, <2>5, <3>5 DEF LoadWithin, bound
  <2> QED
    BY <2>4, <2>6, <2>7, <2>8
<1> QED
  BY <1>2, <1>3

\* Bypassed: a whole judgement more that nobody guards.
LEMMA BypassKeeps == ASSUME BudgetInv, NEW s \in Slots, PreflightBypassed(s) PROVE BudgetInv'
<1> USE DEF BudgetInv
<1>1. /\ Spend(s, FALSE) /\ UNCHANGED <<total, wire, lost, warned, missed>>
      /\ bypasses' = bypasses + 1 /\ bypasses' \in 0..MaxBypasses
  <2>1. bypasses \in 0..MaxBypasses /\ bypasses < MaxBypasses /\ bypasses' = bypasses + 1
    BY DEF PreflightBypassed, TypeOK
  <2>2. bypasses' \in 0..MaxBypasses
    BY <2>1, Constants
  <2> QED
    BY <2>1, <2>2 DEF PreflightBypassed
<1>2. TypeOK' /\ CallsOf' /\ left' = [left EXCEPT ![s] = 2 * Passes] /\ 2 * Passes \in 0..(2 * Passes)
  BY <1>1, SpendTypes DEF Calls
<1>3. ASSUME NEW c \in Counters PROVE LoadWithin(c)'
  <2>1. Cardinality(CallsLeft(c, left')) <= Cardinality(CallsLeft(c, left)) + 2 * Passes
    BY <1>2, LeftMore DEF TypeOK
  <2>2. /\ Cardinality(CallsLeft(c, left)) \in Nat /\ Cardinality(CallsLeft(c, left')) \in Nat
        /\ Cardinality(ChargesTo(c, wire)) \in Nat /\ wire' = wire
    BY <1>1, <1>2, LeftFacts, WireFacts DEF TypeOK, CallsOf
  <2>3. UnguardedCalls' = UnguardedCalls + 2 * Passes
    <3>1. bypasses \in Nat /\ lost \in Nat /\ Passes \in Nat
      BY Constants DEF TypeOK
    <3>2. (bypasses + 1) * 2 * Passes = bypasses * 2 * Passes + 2 * Passes
      BY <3>1
    <3> QED
      BY <1>1, <3>1, <3>2 DEF UnguardedCalls
  <2>4. Load(c)' + UnguardedCalls <= Load(c) + UnguardedCalls' /\ total'[c].n <= total[c].n
    <3>1. UnguardedCalls \in Nat /\ Passes \in Nat /\ total[c].n \in Nat
      BY UnguardedType, Constants DEF TypeOK
    <3> QED
      BY <1>1, <2>1, <2>2, <2>3, <3>1, NextLoad DEF Load
  <2> QED
    BY <1>2, <2>4, LoadType, NextTypes, LoadMoves
<1> QED
  BY <1>2, <1>3

\* An answer is charged: its tokens go from the calls that were left to the
\* counters.
LEMMA ChargeKeeps == ASSUME BudgetInv, NEW s \in Slots, AnswerCharged(s) PROVE BudgetInv'
<1> USE DEF BudgetInv
<1>1. /\ pc[s] = "spending" /\ left[s] > 0 /\ left' = [left EXCEPT ![s] = left[s] - 1]
      /\ UNCHANGED <<wire, pc, bypasses, lost, missed>>
  BY DEF AnswerCharged
<1>2. PICK t \in Tokens :
         /\ AddTokensScript(s, t)
         /\ warned' = [c \in Counters |->
               IF c \in CountersOf[s] /\ Crosses(c, t) THEN warned[c] + 1 ELSE warned[c]]
  BY DEF AnswerCharged
<1>3. /\ total' \in [Counters -> [n : Nat, ttl : -1..Window]]
      /\ \A c \in Counters : IF c \in CountersOf[s] THEN total'[c].n = total[c].n + t
                              ELSE total'[c] = total[c]
  BY <1>2, ScriptFacts
<1>4. left' \in [Slots -> 0..(2 * Passes)]
  BY <1>1, Constants DEF TypeOK
<1>5. TypeOK'
  <2>1. warned' \in [Counters -> Nat]
    BY <1>2 DEF TypeOK
  <2> QED
    BY <1>1, <1>3, <1>4, <2>1 DEF TypeOK
<1>6. CallsOf'
  BY <1>1 DEF CallsOf, TypeOK
<1>7. ASSUME NEW c \in Counters PROVE LoadWithin(c)'
  <2>1. UnguardedCalls' = UnguardedCalls
    BY <1>1 DEF UnguardedCalls
  <2>2. CASE c \in CountersOf[s]
    <3>1. Cardinality(CallsLeft(c, left')) = Cardinality(CallsLeft(c, left)) - 1
      BY <1>1, <2>2, LeftOneLess DEF TypeOK, SlotsOf
    <3>2. Load(c)' = Load(c) - 1
      <4>1. /\ Cardinality(CallsLeft(c, left)) \in Nat /\ Cardinality(ChargesTo(c, wire)) \in Nat
            /\ wire' = wire
        BY <1>1, LeftFacts, WireFacts DEF TypeOK, CallsOf
      <4> QED
        BY <3>1, <4>1, NextLoad DEF Load
    <3>3. total'[c].n <= total[c].n + MostTokens
      <4>1. t \in Nat /\ t <= MostTokens /\ MostTokens \in Nat /\ total[c].n \in Nat
        BY MostTokensFacts, Constants DEF TypeOK
      <4> QED
        BY <1>3, <2>2, <4>1
    <3>4. Load(c) \in Nat /\ UnguardedCalls \in Nat
      BY LoadType, UnguardedType
    <3>5. Load(c)' + 1 + UnguardedCalls <= Load(c) + UnguardedCalls'
      BY <2>1, <3>2, <3>4
    <3> QED
      BY <1>5, <1>6, <3>3, <3>4, <3>5, NextTypes, LoadMoves
  <2>3. CASE c \notin CountersOf[s]
    <3>1. CallsLeft(c, left') = CallsLeft(c, left)
      BY <1>1, <2>3 DEF CallsLeft, SlotsOf, TypeOK
    <3>2. Load(c)' = Load(c)
      BY <1>1, <3>1, NextLoad DEF Load
    <3> QED
      BY <1>1, <1>3, <2>3, <3>2, LoadUntouched
  <2> QED
    BY <2>2, <2>3
<1> QED
  BY <1>5, <1>6, <1>7

\* A charge the store does not answer: from the calls to the wire, or nowhere.
LEMMA LoseKeeps == ASSUME BudgetInv, NEW s \in Slots, AnswerUncharged(s) PROVE BudgetInv'
<1> USE DEF BudgetInv
<1>1. /\ pc[s] = "spending" /\ left[s] > 0 /\ left' = [left EXCEPT ![s] = left[s] - 1]
      /\ lost < MaxLost /\ lost' = lost + 1
      /\ wire' = wire \/ \E t \in Tokens : wire' = wire \cup {<<s, t, lost + 1>>}
      /\ UNCHANGED <<total, pc, bypasses, warned, missed>>
  BY DEF AnswerUncharged
<1>2. /\ left' \in [Slots -> 0..(2 * Passes)] /\ lost \in Nat /\ lost + 1 \in 1..MaxLost
      /\ \A q \in Slots : left'[q] <= left[q]
  BY <1>1, Constants DEF TypeOK
<1>3. TypeOK'
  <2>1. wire' \subseteq Slots \X Tokens \X (1..MaxLost)
    BY <1>1, <1>2 DEF TypeOK
  <2>2. lost' \in 0..MaxLost
    BY <1>1, <1>2, Constants
  <2> QED
    BY <1>1, <1>2, <2>1, <2>2 DEF TypeOK
<1>w. IsFiniteSet(wire') /\ Cardinality(wire') <= lost'
  <2>1. IsFiniteSet(wire) /\ Cardinality(wire) \in Nat /\ Cardinality(wire) <= lost
    BY FS_CardinalityType DEF CallsOf
  <2>2. CASE wire' = wire
    BY <1>1, <1>2, <2>1, <2>2
  <2>3. ASSUME NEW charge, wire' = wire \cup {charge}
        PROVE  IsFiniteSet(wire') /\ Cardinality(wire') <= lost'
    <3>1. IsFiniteSet(wire') /\ Cardinality(wire') <= Cardinality(wire) + 1
      BY <2>1, <2>3, OneMore
    <3>2. Cardinality(wire') \in Nat
      BY <3>1, FS_CardinalityType
    <3> QED
      BY <1>1, <1>2, <2>1, <3>1, <3>2
  <2> QED
    BY <1>1, <2>2, <2>3
<1>4. ASSUME NEW c \in Counters
      PROVE  /\ Cardinality(ChargesTo(c, wire')) <= Cardinality(ChargesTo(c, wire)) + 1
             /\ Cardinality(ChargesTo(c, wire')) \in Nat /\ Cardinality(ChargesTo(c, wire)) \in Nat
  <2>1. IsFiniteSet(wire)
    BY DEF CallsOf
  <2>2. Cardinality(ChargesTo(c, wire')) \in Nat /\ Cardinality(ChargesTo(c, wire)) \in Nat
    BY <1>w, <2>1, WireFacts
  <2>3. CASE wire' = wire
    BY <2>2, <2>3
  <2>4. ASSUME NEW charge, wire' = wire \cup {charge}
        PROVE  Cardinality(ChargesTo(c, wire')) <= Cardinality(ChargesTo(c, wire)) + 1
    BY <2>1, <2>4, WireOneMore
  <2> QED
    BY <1>1, <2>2, <2>3, <2>4
<1>5. CallsOf'
  <2>2. \A q \in Slots : pc'[q] # "spending" => left'[q] = 0
    BY <1>1 DEF CallsOf, TypeOK
  <2> QED
    BY <1>w, <2>2 DEF CallsOf
<1>6. ASSUME NEW c \in Counters PROVE LoadWithin(c)'
  <2>1. UnguardedCalls' = UnguardedCalls + 1
    <3>1. bypasses * 2 * Passes \in Nat
      <4>1. bypasses \in Nat /\ Passes \in Nat
        BY Constants DEF TypeOK
      <4> QED
        BY <4>1
    <3> QED
      BY <1>1, <1>2, <3>1 DEF UnguardedCalls
  <2>2. /\ Cardinality(CallsLeft(c, left')) <= Cardinality(CallsLeft(c, left))
        /\ Cardinality(CallsLeft(c, left')) \in Nat /\ Cardinality(CallsLeft(c, left)) \in Nat
    BY <1>2, LeftFewer, LeftFacts DEF TypeOK, SlotsOf
  <2>3. UnguardedCalls \in Nat /\ total'[c].n <= total[c].n
    BY <1>1, UnguardedType DEF TypeOK
  <2>4. Load(c)' + UnguardedCalls <= Load(c) + UnguardedCalls'
    BY <1>4, <2>1, <2>2, <2>3, NextLoad DEF Load
  <2> QED
    BY <1>3, <1>5, <2>3, <2>4, LoadType, NextTypes, LoadMoves
<1> QED
  BY <1>3, <1>5, <1>6

\* A charge nobody reads the reply of lands, or does not.
LEMMA LateKeeps == ASSUME BudgetInv, LateCharge PROVE BudgetInv'
<1> USE DEF BudgetInv
<1>1. PICK w \in wire :
         /\ wire' = wire \ {w} /\ UNCHANGED <<pc, left, bypasses, lost, warned>>
         /\ \/ /\ AddTokensScript(w[1], w[2])
               /\ missed' = [c \in Counters |-> missed[c] \/ c \in CountersOf[w[1]]]
            \/ UNCHANGED <<total, missed>>
  BY DEF LateCharge
<1>2. w[1] \in Slots /\ w[2] \in Tokens
  BY DEF TypeOK
<1>3. /\ total' \in [Counters -> [n : Nat, ttl : -1..Window]]
      /\ \A c \in Counters : total'[c] = total[c] \/
            (c \in CountersOf[w[1]] /\ total'[c].n = total[c].n + w[2])
  BY <1>1, <1>2, ScriptFacts DEF TypeOK
<1>4. missed' \in [Counters -> BOOLEAN]
  <2>1. [c \in Counters |-> missed[c] \/ c \in CountersOf[w[1]]] \in [Counters -> BOOLEAN]
    BY Zenon
  <2> QED
    BY <1>1, <2>1 DEF TypeOK
<1>5. TypeOK'
  BY <1>1, <1>3, <1>4 DEF TypeOK
<1>6. CallsOf'
  <2>1. IsFiniteSet(wire \ {w}) /\ Cardinality(wire \ {w}) <= Cardinality(wire)
        /\ Cardinality(wire) \in Nat /\ Cardinality(wire \ {w}) \in Nat
    BY FS_Subset, FS_CardinalityType DEF CallsOf
  <2>2. Cardinality(wire) <= lost /\ lost \in Nat
    BY DEF CallsOf, TypeOK
  <2> QED
    BY <1>1, <2>1, <2>2 DEF CallsOf
<1>7. ASSUME NEW c \in Counters PROVE LoadWithin(c)'
  <2>1. UnguardedCalls' = UnguardedCalls /\ UnguardedCalls \in Nat
    BY <1>1, UnguardedType DEF UnguardedCalls
  <2>2. /\ Cardinality(ChargesTo(c, wire')) <= Cardinality(ChargesTo(c, wire))
        /\ c \in CountersOf[w[1]] =>
              Cardinality(ChargesTo(c, wire')) = Cardinality(ChargesTo(c, wire)) - 1
    BY <1>1, WireOneLess DEF CallsOf
  <2>3. /\ Cardinality(CallsLeft(c, left)) \in Nat /\ left' = left
        /\ Cardinality(ChargesTo(c, wire)) \in Nat /\ Cardinality(ChargesTo(c, wire')) \in Nat
    BY <1>1, <1>6, LeftFacts, WireFacts DEF TypeOK, CallsOf
  <2>4. total[c].n \in Nat /\ w[2] \in Nat /\ w[2] <= MostTokens /\ MostTokens \in Nat
    BY <1>2, MostTokensFacts, Constants DEF TypeOK
  <2>5. CASE total'[c] = total[c]
    <3>1. total'[c].n <= total[c].n
      BY <2>4, <2>5
    <3>2. Load(c)' + UnguardedCalls <= Load(c) + UnguardedCalls'
      BY <2>1, <2>2, <2>3, NextLoad DEF Load
    <3> QED
      BY <1>5, <1>6, <3>1, <3>2, LoadType, NextTypes, LoadMoves
  <2>6. CASE c \in CountersOf[w[1]] /\ total'[c].n = total[c].n + w[2]
    <3>1. total'[c].n <= total[c].n + MostTokens
      BY <2>4, <2>6
    <3>2. Load(c)' + 1 + UnguardedCalls <= Load(c) + UnguardedCalls'
      BY <2>1, <2>2, <2>3, <2>6, NextLoad DEF Load
    <3> QED
      BY <1>5, <1>6, <3>1, <3>2, LoadType, NextTypes, LoadMoves
  <2> QED
    BY <1>3, <2>5, <2>6
<1> QED
  BY <1>5, <1>6, <1>7

\* Time only takes counters away.
LEMMA TickKeeps == ASSUME BudgetInv, Tick PROVE BudgetInv'
<1> USE DEF BudgetInv
<1>1. UNCHANGED <<wire, pc, left, bypasses, lost>>
  BY DEF Tick
<1>2. ASSUME NEW c \in Counters
      PROVE  total'[c] \in [n : Nat, ttl : -1..Window] /\ total'[c].n <= total[c].n
  <2>1. total[c] \in [n : Nat, ttl : -1..Window]
    BY DEF TypeOK
  <2>2. CASE Expiring(c)
    BY <2>1, <2>2, Constants DEF Tick, Gone
  <2>3. CASE ~Expiring(c)
    <3>1. total'[c] = [n |-> total[c].n,
                       ttl |-> IF total[c].ttl > 1 THEN total[c].ttl - 1 ELSE total[c].ttl]
      BY <2>1, <2>3 DEF Tick
    <3> QED
      BY <2>1, <3>1, Constants
  <2> QED
    BY <2>2, <2>3
<1>3. TypeOK'
  <2>1. total' = [c \in Counters |-> total'[c]]
    BY DEF Tick
  <2>2. warned' \in [Counters -> Nat]
    BY DEF Tick, TypeOK
  <2>3. missed' \in [Counters -> BOOLEAN]
    BY DEF Tick, TypeOK
  <2> QED
    BY <1>1, <1>2, <2>1, <2>2, <2>3 DEF TypeOK
<1>4. CallsOf'
  BY <1>1 DEF CallsOf
<1>5. ASSUME NEW c \in Counters PROVE LoadWithin(c)'
  <2>1. UnguardedCalls' = UnguardedCalls /\ UnguardedCalls \in Nat /\ Load(c) \in Nat
    BY <1>1, UnguardedType, LoadType DEF UnguardedCalls
  <2>2. Load(c)' = Load(c)
    BY <1>1, NextLoad DEF Load
  <2> QED
    BY <1>2, <1>3, <1>4, <2>1, <2>2, NextTypes, LoadMoves
<1> QED
  BY <1>3, <1>4, <1>5

LEMMA NextBudget == BudgetInv /\ [Next]_vars => BudgetInv'
<1> SUFFICES ASSUME BudgetInv, [Next]_vars PROVE BudgetInv'
  OBVIOUS
<1>1. CASE UNCHANGED vars
  <2>1. TypeOK' /\ CallsOf'
    BY <1>1 DEF vars, BudgetInv, TypeOK, CallsOf
  <2>2. ASSUME NEW c \in Counters PROVE LoadWithin(c)'
    <3>1. Load(c)' = Load(c)
      BY <1>1, NextLoad DEF vars, Load
    <3> QED
      BY <1>1, <3>1, LoadUntouched DEF vars, BudgetInv
  <2> QED
    BY <2>1, <2>2 DEF BudgetInv
<1> QED
  BY <1>1, IdleKeeps, AdmitKeeps, BypassKeeps, ChargeKeeps, LoseKeeps, LateKeeps, TickKeeps DEF Next

LEMMA SpecBudget == Spec => []BudgetInv
BY InitBudget, NextBudget, PTL DEF Spec

-----------------------------------------------------------------------------
(* What holds of every behaviour *)

\* The types of the budget.
THEOREM BudgetTyped == Spec => []TypeOK
BY SpecBudget, PTL DEF BudgetInv

\* However far a check is from its charges, the overshoot is bounded: for any
\* number of slots, users, limits and sizes of an answer.
THEOREM BudgetOvershootBounded == Spec => []OvershootBounded
<1>1. ASSUME BudgetInv, NEW c \in Counters
      PROVE  LET slots == Cardinality(SlotsOf(c)) IN
             \/ total[c].n <= WarnAt[c] - 1 + slots * 2 * Passes * MostTokens + Unguarded
             \/ total[c].n <= Limit[c] - 1 + (slots * 2 - 1) * Passes * MostTokens + Unguarded
  <2> DEFINE slots == Cardinality(SlotsOf(c))
             full == slots * 2 * Passes
             degraded == (slots * 2 - 1) * Passes
  <2>1. /\ slots \in Nat /\ Passes \in Nat /\ MostTokens \in Nat /\ bypasses \in Nat /\ lost \in Nat
        /\ total[c].n \in Nat /\ WarnAt[c] \in Nat /\ Limit[c] \in Nat
    BY <1>1, SlotsOfFacts, Constants, MostTokensFacts DEF BudgetInv, TypeOK
  <2>2. full \in Nat /\ degraded \in Int /\ UnguardedCalls \in Nat
    BY <1>1, <2>1, UnguardedType DEF BudgetInv
  <2>3. Unguarded = UnguardedCalls * MostTokens
    BY DEF Unguarded, UnguardedCalls
  <2>4. Fresh(c) = full + UnguardedCalls /\ Degraded(c) = degraded + UnguardedCalls
    BY DEF Fresh, Degraded
  <2>5. Load(c) * MostTokens \in Nat
    <3>1. Load(c) \in Nat
      BY <1>1, LoadType DEF BudgetInv
    <3> QED
      BY <2>1, <3>1
  <2>6. LoadWithin(c)
    BY <1>1 DEF BudgetInv
  <2> HIDE DEF slots, full, degraded
  <2>7. /\ (full + UnguardedCalls) * MostTokens = full * MostTokens + UnguardedCalls * MostTokens
        /\ (degraded + UnguardedCalls) * MostTokens
              = degraded * MostTokens + UnguardedCalls * MostTokens
        /\ full * MostTokens \in Int /\ degraded * MostTokens \in Int
        /\ UnguardedCalls * MostTokens \in Int
    BY <2>1, <2>2, Scaled
  <2>8. \/ total[c].n <= WarnAt[c] - 1 + full * MostTokens + Unguarded
        \/ total[c].n <= Limit[c] - 1 + degraded * MostTokens + Unguarded
    BY <2>1, <2>3, <2>4, <2>5, <2>6, <2>7 DEF LoadWithin
  <2> QED
    BY <2>8 DEF slots, full, degraded
<1>2. BudgetInv => OvershootBounded
  BY <1>1 DEF OvershootBounded
<1> QED
  BY <1>2, SpecBudget, PTL

\* A crossing is warned of exactly once in the life of a counter, whichever
\* worker's charge crosses it.
THEOREM BudgetWarnedOnce == Spec => []WarnedOnce
<1>1. Init => WarnedOnce
  <2> SUFFICES ASSUME Init, NEW c \in Counters, ~missed[c]
               PROVE  warned[c] = IF total[c].n >= WarnAt[c] THEN 1 ELSE 0
    BY DEF WarnedOnce
  <2>1. TypeOK /\ total[c].n = 0
    <3>1. TypeOK
      BY InitBudget DEF BudgetInv
    <3>2. ~(total[c].n > 0)
      BY DEF Init
    <3> QED
      BY <3>1, <3>2 DEF TypeOK
  <2> QED
    BY <2>1, Constants DEF Init
<1>2. ASSUME TypeOK, TypeOK', WarnedOnce, [Next]_vars PROVE WarnedOnce'
  <2> SUFFICES ASSUME NEW c \in Counters, ~missed'[c]
               PROVE  warned'[c] = IF total'[c].n >= WarnAt[c] THEN 1 ELSE 0
    BY DEF WarnedOnce
  <2>1. ASSUME missed'[c] = missed[c], warned'[c] = warned[c], total'[c] = total[c]
        PROVE  warned'[c] = IF total'[c].n >= WarnAt[c] THEN 1 ELSE 0
    BY <1>2, <2>1 DEF WarnedOnce
  <2>2. ASSUME NEW s \in Slots, AnswerCharged(s)
        PROVE  warned'[c] = IF total'[c].n >= WarnAt[c] THEN 1 ELSE 0
    <3>1. PICK t \in Tokens :
             /\ AddTokensScript(s, t)
             /\ warned' = [x \in Counters |->
                   IF x \in CountersOf[s] /\ Crosses(x, t) THEN warned[x] + 1 ELSE warned[x]]
      BY <2>2 DEF AnswerCharged
    <3>2. missed' = missed /\ warned[c] = IF total[c].n >= WarnAt[c] THEN 1 ELSE 0
      BY <1>2, <2>2 DEF AnswerCharged, WarnedOnce
    <3>3. CASE c \in CountersOf[s]
      <4>1. total'[c].n = total[c].n + t /\ t \in Nat \ {0} /\ total[c].n \in Nat /\ WarnAt[c] \in Nat
        BY <1>2, <3>1, <3>3, ScriptFacts, Constants DEF TypeOK
      <4>2. warned'[c] = IF Crosses(c, t) THEN warned[c] + 1 ELSE warned[c]
        BY <3>1, <3>3
      <4> QED
        BY <3>2, <4>1, <4>2 DEF Crosses
    <3>4. CASE c \notin CountersOf[s]
      BY <1>2, <2>1, <3>1, <3>2, <3>4, ScriptFacts
    <3> QED
      BY <3>3, <3>4
  <2>3. ASSUME LateCharge PROVE warned'[c] = IF total'[c].n >= WarnAt[c] THEN 1 ELSE 0
    <3>1. PICK w \in wire :
             /\ UNCHANGED warned
             /\ \/ /\ AddTokensScript(w[1], w[2])
                   /\ missed' = [x \in Counters |-> missed[x] \/ x \in CountersOf[w[1]]]
                \/ UNCHANGED <<total, missed>>
      BY <2>3 DEF LateCharge
    <3>2. w[1] \in Slots /\ w[2] \in Tokens
      BY <1>2 DEF TypeOK
    <3>3. CASE AddTokensScript(w[1], w[2]) /\ missed' = [x \in Counters |-> missed[x] \/ x \in CountersOf[w[1]]]
      <4>1. c \notin CountersOf[w[1]] /\ ~missed[c]
        BY <3>3
      <4>2. total'[c] = total[c]
        BY <1>2, <3>2, <3>3, <4>1, ScriptFacts
      <4> QED
        BY <1>2, <3>1, <4>1, <4>2 DEF WarnedOnce
    <3>4. CASE UNCHANGED <<total, missed>>
      BY <2>1, <3>1, <3>4
    <3> QED
      BY <3>1, <3>3, <3>4
  <2>4. ASSUME Tick PROVE warned'[c] = IF total'[c].n >= WarnAt[c] THEN 1 ELSE 0
    <3>1. CASE Expiring(c)
      <4>1. warned'[c] = 0 /\ total'[c] = Gone /\ WarnAt[c] \in Nat \ {0}
        BY <2>4, <3>1, Constants DEF Tick
      <4> QED
        BY <4>1 DEF Gone
    <3>2. CASE ~Expiring(c)
      <4>1. warned'[c] = warned[c] /\ missed'[c] = missed[c] /\ total'[c].n = total[c].n
        BY <1>2, <2>4, <3>2 DEF Tick, TypeOK
      <4> QED
        BY <1>2, <4>1 DEF WarnedOnce
    <3> QED
      BY <3>1, <3>2
  <2>5. ASSUME UNCHANGED <<total, warned, missed>>
        PROVE  warned'[c] = IF total'[c].n >= WarnAt[c] THEN 1 ELSE 0
    BY <2>1, <2>5
  <2> QED
    BY <1>2, <2>2, <2>3, <2>4, <2>5
    DEF Next, vars, Reserve, PreflightAdmits, PreflightDenies, PreflightBypassed,
        AnswerUncharged, JudgementEnds
<1>3. BudgetInv => TypeOK
  BY DEF BudgetInv
<1>4. TypeOK /\ TypeOK' /\ WarnedOnce /\ [Next]_vars => WarnedOnce'
  BY <1>2
<1> QED
  BY <1>1, <1>3, <1>4, SpecBudget, PTL DEF Spec
===============================================================================
