--------------------- MODULE ValidationScheduler_proofs ---------------------
(***************************************************************************)
(* Proofs about the validation ledger, for every set of runs, of weights   *)
(* and of limits.                                                          *)
(***************************************************************************)
EXTENDS ValidationScheduler, FiniteSetTheorems, WellFoundedInduction, TLAPS

\* queue_order values have an upper bound, so MAX(queue_order) is defined.
OrdersBounded == \E b \in Nat : \A r \in Run : queueOrder[r] <= b

LedgerInv == LedgerTypeOK /\ OrdersBounded /\ Fifo

-----------------------------------------------------------------------------

(* A non-empty set of naturals with an upper bound has a largest element.  *)
LEMMA MaxOfBounded ==
    ASSUME NEW S, S \subseteq Nat, S # {},
           NEW b \in Nat, \A x \in S : x <= b
    PROVE  /\ Max(S) \in S
           /\ \A x \in S : x <= Max(S)
<1> DEFINE T == {u \in Nat : \A x \in S : x <= u}
<1>1. b \in T
  OBVIOUS
<1>2. IsWellFoundedOn(OpToRel(<, Nat), Nat)
  BY NatLessThanWellFounded
<1>3. PICK m \in T : \A y \in T : ~ (<<y, m>> \in OpToRel(<, Nat))
  <2> HIDE DEF T
  <2>1. T \subseteq Nat
    BY DEF T
  <2> QED  BY <1>1, <1>2, <2>1, WFMin
<1>4. \A y \in T : ~ (y < m)
  BY <1>3 DEF OpToRel
<1>5. m \in S
  <2> SUFFICES ASSUME m \notin S PROVE FALSE
    OBVIOUS
  <2>1. PICK x \in S : TRUE
    OBVIOUS
  <2>2. \A y \in S : y <= m - 1
    OBVIOUS
  <2>3. m - 1 \in T
    BY <2>1, <2>2
  <2> QED  BY <1>4, <2>3
<1>6. \E x \in S : \A y \in S : x >= y
  BY <1>5
<1> QED  BY <1>6 DEF Max

(* nextQueueOrder is a position behind every row the ledger ever held.     *)
LEMMA NextOrderIsLast ==
    ASSUME LedgerTypeOK, OrdersBounded
    PROVE  /\ NextQueueOrder \in Nat
           /\ \A r \in Rows : queueOrder[r] < NextQueueOrder
<1>1. CASE Rows = {}
  BY <1>1 DEF NextQueueOrder
<1>2. CASE Rows # {}
  <2> DEFINE S == {queueOrder[r] : r \in Rows}
  <2>1. S \subseteq Nat /\ S # {}
    BY <1>2 DEF LedgerTypeOK, Rows
  <2>2. PICK b \in Nat : \A r \in Run : queueOrder[r] <= b
    BY DEF OrdersBounded
  <2>3. \A x \in S : x <= b
    BY <2>2 DEF Rows
  <2>4. Max(S) \in S /\ \A x \in S : x <= Max(S)
    <3> HIDE DEF S
    <3> QED  BY <2>1, <2>3, MaxOfBounded
  <2>5. Max(S) \in Nat
    BY <2>1, <2>4
  <2>6. \A r \in Rows : queueOrder[r] \in Nat /\ queueOrder[r] <= Max(S)
    BY <2>4 DEF LedgerTypeOK, Rows
  <2> QED  BY <1>2, <2>5, <2>6 DEF NextQueueOrder
<1> QED  BY <1>1, <1>2

-----------------------------------------------------------------------------

LEMMA LedgerInitInv == LedgerInit => LedgerInv
<1> SUFFICES ASSUME LedgerInit PROVE LedgerInv
  OBVIOUS
<1>1. LedgerTypeOK
  BY DEF LedgerInit, LedgerTypeOK, Status
<1>2. OrdersBounded
  BY DEF LedgerInit, OrdersBounded
<1>3. Fifo
  BY DEF LedgerInit, Fifo, Running
<1> QED  BY <1>1, <1>2, <1>3 DEF LedgerInv

(* Inserting a row behind every other keeps the ledger invariant, when a   *)
(* row is inserted as running only into an empty queue.                    *)
LEMMA InsertKeepsInv ==
    ASSUME LedgerInv, NEW r \in Run, NEW c \in Nat, NEW s \in Active,
           Insert(r, c, s), s = "running" => Queued = {}
    PROVE  LedgerInv'
<1> USE DEF LedgerInv
<1>1. NextQueueOrder \in Nat /\ \A q \in Rows : queueOrder[q] < NextQueueOrder
  BY NextOrderIsLast
<1>2. LedgerTypeOK'
  BY <1>1 DEF LedgerTypeOK, Insert, Status, Active
<1>3. OrdersBounded'
  <2>1. PICK b \in Nat : \A q \in Run : queueOrder[q] <= b
    BY DEF OrdersBounded
  <2>2. CASE NextQueueOrder <= b
    <3>1. \A q \in Run : queueOrder'[q] <= b
      BY <2>1, <2>2 DEF LedgerTypeOK, Insert
    <3> QED  BY <3>1 DEF OrdersBounded
  <2>3. CASE ~(NextQueueOrder <= b)
    <3>1. \A q \in Run : queueOrder'[q] <= NextQueueOrder
      BY <1>1, <2>1, <2>3 DEF LedgerTypeOK, Insert
    <3> QED  BY <1>1, <3>1 DEF OrdersBounded
  <2> QED  BY <2>2, <2>3
<1>4. Fifo'
  <2> SUFFICES ASSUME NEW p \in Run, NEW q \in Run,
                      status'[p] = "running", status'[q] = "queued"
               PROVE  queueOrder'[p] < queueOrder'[q]
    BY DEF Fifo, Running, Queued, Older
  <2>1. CASE q = r
    <3>1. s = "queued" /\ p # r /\ status[p] = "running"
      BY <2>1 DEF Insert, LedgerTypeOK
    <3>2. p \in Rows
      BY <3>1 DEF Rows
    <3> QED  BY <1>1, <2>1, <3>1, <3>2 DEF Insert, LedgerTypeOK
  <2>2. CASE q # r
    <3>1. status[q] = "queued"
      BY <2>2 DEF Insert, LedgerTypeOK
    <3>2. p # r
      BY <3>1 DEF Insert, LedgerTypeOK, Queued
    <3>3. status[p] = "running"
      BY <3>2 DEF Insert, LedgerTypeOK
    <3>4. queueOrder[p] < queueOrder[q]
      BY <3>1, <3>3 DEF Fifo, Running, Queued, Older
    <3> QED  BY <2>2, <3>2, <3>4 DEF Insert, LedgerTypeOK
  <2> QED  BY <2>1, <2>2
<1> QED  BY <1>2, <1>3, <1>4

(* A step that leaves positions alone and makes no row queued again keeps  *)
(* it, provided whatever it admits is older than whatever still waits.     *)
LEMMA MoveKeepsInv ==
    ASSUME LedgerInv, LedgerTypeOK', UNCHANGED queueOrder,
           \A q \in Run : status'[q] = "queued" => status[q] = "queued",
           \A p, q \in Run :
              status'[p] = "running" /\ status[p] # "running"
              /\ status'[q] = "queued" => Older(p, q)
    PROVE  LedgerInv'
<1>1. OrdersBounded'
  BY DEF LedgerInv, OrdersBounded
<1>2. Fifo'
  BY DEF LedgerInv, Fifo, Running, Queued, Older
<1> QED  BY <1>1, <1>2 DEF LedgerInv

LEMMA PumpKeepsInv ==
    ASSUME LedgerInv, NEW limit \in Limits, NEW A \in SUBSET Queued,
           Pump(limit, A)
    PROVE  LedgerInv'
<1>1. LedgerTypeOK'
  BY DEF LedgerInv, LedgerTypeOK, Pump, Status, Active, Terminal
<1>2. \A q \in Run : status'[q] = "queued" =>
          /\ status[q] = "queued"
          /\ q \notin Oversized(limit)
          /\ q \notin A
  BY DEF Pump, LedgerInv, LedgerTypeOK
<1>3. \A p \in Run : status'[p] = "running" /\ status[p] # "running" => p \in A
  BY DEF Pump, LedgerInv, LedgerTypeOK
<1>4. A \in HeadSets(Queued \ Oversized(limit))
  BY DEF Pump, SweepAdmits
<1>5. \A p, q \in Run :
          status'[p] = "running" /\ status[p] # "running"
          /\ status'[q] = "queued" => Older(p, q)
  BY <1>2, <1>3, <1>4 DEF HeadSets, Queued
<1> QED  BY <1>1, <1>2, <1>5, MoveKeepsInv DEF Pump

LEMMA LedgerStepInv ==
    ASSUME LedgerInv, [LedgerNext]_ledgerVars
    PROVE  LedgerInv'
<1>1. ASSUME NEW r \in Run, NEW c \in Costs, NEW limit \in Limits,
             SubmitAdmitted(r, c, limit)
      PROVE  LedgerInv'
  BY <1>1, InsertKeepsInv, CostAssumption DEF SubmitAdmitted, AdmitsAtOnce, Active
<1>2. ASSUME NEW r \in Run, NEW c \in Costs, NEW limit \in Limits,
             SubmitQueued(r, c, limit)
      PROVE  LedgerInv'
  BY <1>2, InsertKeepsInv, CostAssumption DEF SubmitQueued, Active
<1>3. ASSUME NEW r \in Run, MarkStarted(r)
      PROVE  LedgerInv'
  <2>1. LedgerTypeOK'
    BY <1>3 DEF LedgerInv, LedgerTypeOK, MarkStarted
  <2> QED  BY <1>3, <2>1, MoveKeepsInv DEF MarkStarted
<1>4. ASSUME NEW r \in Run, NEW v \in Verdicts, Release(r, v)
      PROVE  LedgerInv'
  <2>1. LedgerTypeOK'
    BY <1>4 DEF LedgerInv, LedgerTypeOK, Release, Status, Terminal
  <2>2. v # "queued" /\ v # "running"
    BY DEF Verdicts
  <2> QED  BY <1>4, <2>1, <2>2, MoveKeepsInv DEF Release, LedgerInv, LedgerTypeOK
<1>5. CASE UNCHANGED ledgerVars
  BY <1>5 DEF ledgerVars, LedgerInv, LedgerTypeOK, OrdersBounded, Fifo, Running, Queued, Older
<1> QED  BY <1>1, <1>2, <1>3, <1>4, <1>5, PumpKeepsInv DEF LedgerNext

-----------------------------------------------------------------------------

(* Every row keeps a status, a weight and a position of the right kind.    *)
THEOREM LedgerTypeCorrect == LedgerSpec => []LedgerTypeOK
<1>1. LedgerInv => LedgerTypeOK
  BY DEF LedgerInv
<1> QED  BY LedgerInitInv, LedgerStepInv, <1>1, PTL DEF LedgerSpec

(* Admission is strictly first in, first out, whatever the weights and     *)
(* however the limit moves between decisions.                              *)
THEOREM AdmissionIsFifo == LedgerSpec => []Fifo
<1>1. LedgerInv => Fifo
  BY DEF LedgerInv
<1> QED  BY LedgerInitInv, LedgerStepInv, <1>1, PTL DEF LedgerSpec

(* A verdict, once given, is the row's verdict for good.                   *)
THEOREM VerdictsAreFinal == LedgerSpec => VerdictIsFinal
<1> DEFINE Keeps == \A r \in Run :
               /\ status[r] \in Terminal => status'[r] = status[r]
               /\ status[r] = "running" => status'[r] # "queued"
               /\ started[r] => started'[r]
<1>1. LedgerInv /\ [LedgerNext]_ledgerVars => [Keeps]_ledgerVars
  <2> SUFFICES ASSUME LedgerInv, LedgerNext PROVE Keeps
    BY DEF Keeps
  <2> USE DEF LedgerInv, LedgerTypeOK, Terminal, Active, Verdicts
  <2>1. ASSUME NEW r \in Run, NEW c \in Costs, NEW limit \in Limits,
               SubmitAdmitted(r, c, limit) \/ SubmitQueued(r, c, limit)
        PROVE  Keeps
    BY <2>1 DEF SubmitAdmitted, SubmitQueued, Insert
  <2>2. ASSUME NEW r \in Run, MarkStarted(r)
        PROVE  Keeps
    BY <2>2 DEF MarkStarted
  <2>3. ASSUME NEW r \in Run, NEW v \in Verdicts, Release(r, v)
        PROVE  Keeps
    BY <2>3 DEF Release
  <2>4. ASSUME NEW limit \in Limits, NEW A \in SUBSET Queued, Pump(limit, A)
        PROVE  Keeps
    BY <2>4 DEF Pump, Oversized, Queued
  <2> QED  BY <2>1, <2>2, <2>3, <2>4 DEF LedgerNext
<1> QED  BY LedgerInitInv, LedgerStepInv, <1>1, PTL DEF LedgerSpec, VerdictIsFinal

-----------------------------------------------------------------------------
(* Sums of weights.  CostOf is a fold over a finite set; what the ledger    *)
(* needs of it is that a row can be taken out or put in, in any order.  The *)
(* lemmas go by the smallest set for which they fail.                       *)

Folding(it, w, S) ==
    it = [s \in SUBSET S |->
            IF s = {} THEN 0
            ELSE w[CHOOSE x \in s : TRUE] + it[s \ {CHOOSE x \in s : TRUE}]]

SumOf(w, S) == (CHOOSE it : Folding(it, w, S))[S]

LEMMA CostIsSum == ASSUME NEW S PROVE CostOf(S) = SumOf(cost, S)
BY Zenon DEF CostOf, MapThenSumSet, MapThenFoldSet, SumOf, Folding

(* A non-empty collection of finite sets has one with the fewest elements.  *)
LEMMA SmallestSet ==
    ASSUME NEW C, C # {}, \A S \in C : IsFiniteSet(S)
    PROVE  \E S \in C : \A T \in C : ~(T \subseteq S /\ T # S)
<1> DEFINE N == {Cardinality(S) : S \in C}
<1>1. N \subseteq Nat /\ N # {}
  BY FS_CardinalityType
<1>2. PICK n \in N : \A m \in N : ~ (<<m, n>> \in OpToRel(<, Nat))
  <2>1. PICK m \in N : TRUE
    BY <1>1
  <2> HIDE DEF N
  <2> QED  BY <1>1, <2>1, NatLessThanWellFounded, WFMin
<1>3. PICK S \in C : Cardinality(S) = n
  BY <1>2
<1>4. ASSUME NEW T \in C, T \subseteq S, T # S
      PROVE  FALSE
  <2>0. Cardinality(T) \in N /\ Cardinality(T) \in Nat /\ Cardinality(S) \in Nat
    BY <1>1
  <2>1. Cardinality(T) < n /\ Cardinality(T) \in N
    BY <1>3, <1>4, <2>0, FS_Subset
  <2>2. Cardinality(T) \in Nat /\ n \in Nat
    BY <1>1, <2>1
  <2> HIDE DEF N
  <2>3. <<Cardinality(T), n>> \in OpToRel(<, Nat)
    BY <2>1, <2>2 DEF OpToRel
  <2> QED  BY <1>2, <2>1, <2>3
<1> QED  BY <1>3, <1>4

LEMMA FoldingRestricts ==
    ASSUME NEW w, NEW S, NEW T \in SUBSET S, NEW f, Folding(f, w, S)
    PROVE  Folding([s \in SUBSET T |-> f[s]], w, T)
<1> DEFINE g == [s \in SUBSET T |-> f[s]]
<1>1. ASSUME NEW s \in SUBSET T
      PROVE  g[s] = IF s = {} THEN 0
                    ELSE w[CHOOSE x \in s : TRUE] + g[s \ {CHOOSE x \in s : TRUE}]
  <2>1. s \in SUBSET S /\ s \ {CHOOSE x \in s : TRUE} \in SUBSET T
    OBVIOUS
  <2>2. f[s] = IF s = {} THEN 0
               ELSE w[CHOOSE x \in s : TRUE] + f[s \ {CHOOSE x \in s : TRUE}]
    BY <2>1 DEF Folding
  <2> QED  BY <2>1, <2>2
<1> QED  BY <1>1 DEF Folding

(* A finite set has one fold.                                               *)
LEMMA FoldingUnique ==
    ASSUME NEW w, NEW S, IsFiniteSet(S), NEW f, NEW g,
           Folding(f, w, S), Folding(g, w, S)
    PROVE  f = g
<1> DEFINE C == {s \in SUBSET S : f[s] # g[s]}
<1>1. CASE C # {}
  <2>1. PICK s \in C : \A t \in C : ~(t \subseteq s /\ t # s)
    <3>1. \A t \in C : IsFiniteSet(t)
      BY FS_Subset
    <3> HIDE DEF C
    <3> QED  BY <1>1, <3>1, SmallestSet
  <2> DEFINE c == CHOOSE x \in s : TRUE
  <2>2. f[s] = (IF s = {} THEN 0 ELSE w[c] + f[s \ {c}])
        /\ g[s] = (IF s = {} THEN 0 ELSE w[c] + g[s \ {c}])
    BY DEF Folding
  <2>3. s # {} /\ c \in s
    BY <2>2
  <2>4. s \ {c} \in SUBSET S /\ s \ {c} \notin C
    BY <2>1, <2>3
  <2> QED  BY <2>2, <2>3, <2>4
<1>2. CASE C = {}
  <2>1. \A s \in SUBSET S : f[s] = g[s]
    BY <1>2
  <2>2. f = [s \in SUBSET S |-> f[s]] /\ g = [s \in SUBSET S |-> g[s]]
    BY DEF Folding
  <2> QED  BY <2>1, <2>2
<1> QED  BY <1>1, <1>2

LEMMA FoldingExists ==
    ASSUME NEW w, NEW S, IsFiniteSet(S)
    PROVE  \E it : Folding(it, w, S)
<1> DEFINE C == {s \in SUBSET S : ~\E it : Folding(it, w, s)}
<1> SUFFICES C = {}
  OBVIOUS
<1>1. SUFFICES ASSUME C # {} PROVE FALSE
  OBVIOUS
<1>2. PICK U \in C : \A t \in C : ~(t \subseteq U /\ t # U)
  <2>1. \A t \in C : IsFiniteSet(t)
    BY FS_Subset
  <2> HIDE DEF C
  <2> QED  BY <1>1, <2>1, SmallestSet
<1> DEFINE F(y) == CHOOSE it : Folding(it, w, U \ {y})
           Out(s) == CHOOSE y : y \in U \ s
           c == CHOOSE x \in U : TRUE
           f == [s \in SUBSET U |->
                   IF s = {} THEN 0
                   ELSE IF s = U THEN w[c] + F(c)[U \ {c}] ELSE F(Out(s))[s]]
<1>3. \A y \in U : Folding(F(y), w, U \ {y})
  <2> SUFFICES ASSUME NEW y \in U PROVE \E it : Folding(it, w, U \ {y})
    OBVIOUS
  <2>1. U \ {y} \in SUBSET S /\ U \ {y} \subseteq U /\ U \ {y} # U
    OBVIOUS
  <2> QED  BY <1>2, <2>1
<1>4. ASSUME NEW s \in SUBSET U, NEW y \in U \ s, NEW z \in U \ s
      PROVE  F(y)[s] = F(z)[s]
  <2>1. s \in SUBSET (U \ {y}) /\ s \in SUBSET (U \ {z}) /\ IsFiniteSet(s)
    BY FS_Subset
  <2>2. Folding(F(y), w, U \ {y}) /\ Folding(F(z), w, U \ {z})
    BY <1>3
  <2> HIDE DEF F
  <2>3. /\ Folding([t \in SUBSET s |-> F(y)[t]], w, s)
        /\ Folding([t \in SUBSET s |-> F(z)[t]], w, s)
    BY <2>1, <2>2, FoldingRestricts
  <2>4. [t \in SUBSET s |-> F(y)[t]] = [t \in SUBSET s |-> F(z)[t]]
    BY <2>1, <2>3, FoldingUnique
  <2>5. [t \in SUBSET s |-> F(y)[t]][s] = [t \in SUBSET s |-> F(z)[t]][s]
    BY <2>4
  <2> QED  BY <2>5
<1>5. ASSUME NEW s \in SUBSET U
      PROVE  f[s] = IF s = {} THEN 0
                    ELSE w[CHOOSE x \in s : TRUE] + f[s \ {CHOOSE x \in s : TRUE}]
  <2> DEFINE d == CHOOSE x \in s : TRUE
  <2>1. CASE s = {}
    BY <2>1
  <2>2. CASE s # {} /\ s = U
    <3>1. c = d /\ c \in U /\ U \ {c} \in SUBSET U /\ U \ {c} # U
      BY <2>2
    <3>2. f[s] = w[c] + F(c)[U \ {c}]
      BY <2>2
    <3>3. f[U \ {c}] = F(c)[U \ {c}]
      <4>1. CASE U \ {c} = {}
        <5>1. Folding(F(c), w, U \ {c})
          BY <1>3, <3>1
        <5>2. F(c)[{}] = 0
          <6> HIDE DEF F, c
          <6> QED  BY <5>1 DEF Folding
        <5>3. f[{}] = 0
          OBVIOUS
        <5> HIDE DEF f, F, c
        <5> QED  BY <4>1, <5>2, <5>3
      <4>2. CASE U \ {c} # {}
        <5>1. Out(U \ {c}) = c
          <6>1. Out(U \ {c}) \in U \ (U \ {c})
            BY <3>1
          <6> QED  BY <6>1
        <5> HIDE DEF F, Out, c
        <5> QED  BY <3>1, <4>2, <5>1
      <4> QED  BY <4>1, <4>2
    <3> HIDE DEF f, F, c
    <3> QED  BY <2>2, <3>1, <3>2, <3>3
  <2>3. CASE s # {} /\ s # U
    <3>1. Out(s) \in U \ s
      BY <2>3
    <3>2. d \in s /\ s \ {d} \in SUBSET U /\ s \ {d} # U
      BY <2>3
    <3>3. f[s] = F(Out(s))[s]
      BY <2>3
    <3>4. F(Out(s))[s] = w[d] + F(Out(s))[s \ {d}]
      <4>1. Folding(F(Out(s)), w, U \ {Out(s)}) /\ s \in SUBSET (U \ {Out(s)})
        BY <1>3, <3>1
      <4> HIDE DEF F, Out
      <4> QED  BY <2>3, <4>1 DEF Folding
    <3>5. F(Out(s))[s \ {d}] = f[s \ {d}]
      <4>1. CASE s \ {d} = {}
        <5>1. Folding(F(Out(s)), w, U \ {Out(s)})
          BY <1>3, <3>1
        <5>2. F(Out(s))[{}] = 0
          <6> HIDE DEF F, Out
          <6> QED  BY <5>1 DEF Folding
        <5>3. f[{}] = 0
          OBVIOUS
        <5> HIDE DEF f, F, Out, d
        <5> QED  BY <4>1, <5>2, <5>3
      <4>2. CASE s \ {d} # {}
        <5> DEFINE e == s \ {d}
        <5>1. e \in SUBSET U /\ e # U /\ e # {}
          BY <3>2, <4>2
        <5> HIDE DEF F, d, e
        <5>2. Out(e) \in U \ e
          BY <5>1
        <5>3. f[e] = F(Out(e))[e]
          BY <5>1
        <5>4. Out(s) \in U \ e
          BY <3>1 DEF e
        <5> HIDE DEF Out, f
        <5>5. F(Out(s))[e] = F(Out(e))[e]
          BY <1>4, <5>1, <5>2, <5>4
        <5> QED  BY <5>3, <5>5 DEF e
      <4> QED  BY <4>1, <4>2
    <3> HIDE DEF f, F, Out, d
    <3> QED  BY <2>3, <3>3, <3>4, <3>5 DEF d
  <2> QED  BY <2>1, <2>2, <2>3
<1>6. Folding(f, w, U)
  <2>1. f = [s \in SUBSET U |-> f[s]]
    OBVIOUS
  <2> HIDE DEF f
  <2> QED  BY <1>5, <2>1 DEF Folding
<1> HIDE DEF f
<1> QED  BY <1>2, <1>6

LEMMA SumUnfolds ==
    ASSUME NEW w, NEW S, IsFiniteSet(S)
    PROVE  SumOf(w, S) = IF S = {} THEN 0
                         ELSE w[CHOOSE x \in S : TRUE] + SumOf(w, S \ {CHOOSE x \in S : TRUE})
<1> DEFINE It(T) == CHOOSE it : Folding(it, w, T)
           c == CHOOSE x \in S : TRUE
           R == S \ {c}
<1>1. IsFiniteSet(R)
  BY FS_Subset
<1>2. Folding(It(S), w, S) /\ Folding(It(R), w, R)
  BY <1>1, FoldingExists
<1>3. SumOf(w, S) = It(S)[S] /\ SumOf(w, R) = It(R)[R]
  BY DEF SumOf
<1> HIDE DEF It
<1>4. It(R) = [s \in SUBSET R |-> It(S)[s]]
  <2>1. Folding([s \in SUBSET R |-> It(S)[s]], w, R)
    BY <1>2, FoldingRestricts
  <2> HIDE DEF R
  <2> QED  BY <1>1, <1>2, <2>1, FoldingUnique
<1>5. It(R)[R] = It(S)[R]
  BY <1>4
<1>6. It(S)[S] = IF S = {} THEN 0 ELSE w[c] + It(S)[R]
  BY <1>2 DEF Folding
<1> QED  BY <1>3, <1>5, <1>6

(* Any element can be taken out first.                                      *)
LEMMA SumRemoves ==
    ASSUME NEW S, IsFiniteSet(S), NEW w, \A x \in S : w[x] \in Nat
    PROVE  /\ SumOf(w, S) \in Nat
           /\ \A x \in S : SumOf(w, S) = w[x] + SumOf(w, S \ {x})
<1> DEFINE Good(s) == /\ SumOf(w, s) \in Nat
                      /\ \A x \in s : SumOf(w, s) = w[x] + SumOf(w, s \ {x})
           C == {s \in SUBSET S : ~Good(s)}
<1> SUFFICES ASSUME C # {} PROVE FALSE
  <2>1. S \in SUBSET S /\ S \notin C => Good(S)
    OBVIOUS
  <2> QED  BY <2>1
<1>1. PICK U \in C : \A t \in C : ~(t \subseteq U /\ t # U)
  <2>1. \A t \in C : IsFiniteSet(t)
    BY FS_Subset
  <2> HIDE DEF C
  <2> QED  BY <2>1, SmallestSet
<1>2. U \in SUBSET S /\ ~Good(U) /\ \A t \in SUBSET U : t # U => Good(t)
  BY <1>1, FS_Subset
<1>3. IsFiniteSet(U)
  BY <1>2, FS_Subset
<1> HIDE DEF C
<1> DEFINE c == CHOOSE x \in U : TRUE
<1>4. SumOf(w, U) = IF U = {} THEN 0 ELSE w[c] + SumOf(w, U \ {c})
  BY <1>3, SumUnfolds
<1>5. CASE U = {}
  BY <1>2, <1>4, <1>5
<1>6. CASE U # {}
  <2>1. c \in U /\ U \ {c} \in SUBSET U /\ U \ {c} # U
    BY <1>6
  <2>2. Good(U \ {c}) /\ w[c] \in Nat
    BY <1>2, <2>1
  <2>3. SumOf(w, U) = w[c] + SumOf(w, U \ {c}) /\ SumOf(w, U) \in Nat
    BY <1>4, <1>6, <2>2
  <2> HIDE DEF c
  <2>4. ASSUME NEW x \in U
        PROVE  SumOf(w, U) = w[x] + SumOf(w, U \ {x})
    <3>1. CASE x = c
      BY <2>3, <3>1
    <3>2. CASE x # c
      <4> DEFINE V == (U \ {c}) \ {x}
      <4> HIDE DEF Good
      <4>1. Good(U \ {c}) /\ Good(U \ {x})
        BY <1>2, <2>2, <2>4
      <4>2. Good(V)
        BY <1>2, <2>4
      <4>3. V = (U \ {x}) \ {c}
        OBVIOUS
      <4>4. SumOf(w, U \ {c}) = w[x] + SumOf(w, V)
        BY <2>4, <3>2, <4>1 DEF Good
      <4>5. SumOf(w, U \ {x}) = w[c] + SumOf(w, V)
        BY <2>1, <3>2, <4>1, <4>3 DEF Good
      <4>6. w[x] \in Nat /\ w[c] \in Nat /\ SumOf(w, V) \in Nat
        BY <1>2, <2>1, <2>4, <4>2 DEF Good
      <4> HIDE DEF V, Good
      <4> QED  BY <2>3, <4>4, <4>5, <4>6
    <3> QED  BY <3>1, <3>2
  <2> QED  BY <1>2, <2>3, <2>4
<1> QED  BY <1>5, <1>6

LEMMA SumAgrees ==
    ASSUME NEW S, IsFiniteSet(S), NEW w, NEW v,
           \A x \in S : w[x] \in Nat /\ v[x] = w[x]
    PROVE  SumOf(v, S) = SumOf(w, S)
<1> DEFINE C == {s \in SUBSET S : SumOf(v, s) # SumOf(w, s)}
<1> SUFFICES ASSUME C # {} PROVE FALSE
  OBVIOUS
<1>1. PICK U \in C : \A t \in C : ~(t \subseteq U /\ t # U)
  <2>1. \A t \in C : IsFiniteSet(t)
    BY FS_Subset
  <2> HIDE DEF C
  <2> QED  BY <2>1, SmallestSet
<1>2. IsFiniteSet(U) /\ U \subseteq S /\ SumOf(v, U) # SumOf(w, U)
  BY <1>1, FS_Subset
<1>3. PICK x \in U : TRUE
  <2>1. U = {} => SumOf(v, U) = 0 /\ SumOf(w, U) = 0
    BY <1>2, SumUnfolds
  <2> QED  BY <1>2, <2>1
<1>4. SumOf(v, U \ {x}) = SumOf(w, U \ {x})
  BY <1>1, <1>3
<1>5. /\ SumOf(w, U) = w[x] + SumOf(w, U \ {x})
      /\ SumOf(v, U) = v[x] + SumOf(v, U \ {x})
  BY <1>2, <1>3, SumRemoves
<1> QED  BY <1>2, <1>3, <1>4, <1>5

LEMMA SumAdds ==
    ASSUME NEW A, NEW B, IsFiniteSet(A), IsFiniteSet(B), A \cap B = {},
           NEW w, \A x \in A \cup B : w[x] \in Nat
    PROVE  SumOf(w, A \cup B) = SumOf(w, A) + SumOf(w, B)
<1> DEFINE C == {s \in SUBSET B : SumOf(w, A \cup s) # SumOf(w, A) + SumOf(w, s)}
<1> SUFFICES ASSUME C # {} PROVE FALSE
  OBVIOUS
<1>1. PICK U \in C : \A t \in C : ~(t \subseteq U /\ t # U)
  <2>1. \A t \in C : IsFiniteSet(t)
    BY FS_Subset
  <2> HIDE DEF C
  <2> QED  BY <2>1, SmallestSet
<1>2. IsFiniteSet(U) /\ U \subseteq B /\ SumOf(w, A \cup U) # SumOf(w, A) + SumOf(w, U)
  BY <1>1, FS_Subset
<1>3. IsFiniteSet(A \cup U) /\ SumOf(w, A) \in Nat /\ SumOf(w, A \cup U) \in Nat
  BY <1>2, FS_Union, SumRemoves
<1>4. PICK x \in U : TRUE
  <2>1. ASSUME U = {} PROVE FALSE
    <3>1. SumOf(w, U) = 0 /\ A \cup U = A
      BY <1>2, <2>1, SumUnfolds
    <3>2. SumOf(w, A \cup U) = SumOf(w, A)
      BY <3>1
    <3> QED  BY <1>2, <1>3, <3>1, <3>2
  <2> QED  BY <2>1
<1>5. SumOf(w, A \cup (U \ {x})) = SumOf(w, A) + SumOf(w, U \ {x})
  BY <1>1, <1>4
<1>6. SumOf(w, U) = w[x] + SumOf(w, U \ {x}) /\ w[x] \in Nat
  BY <1>2, <1>4, SumRemoves
<1>7. SumOf(w, A \cup U) = w[x] + SumOf(w, A \cup (U \ {x}))
  <2>1. (A \cup U) \ {x} = A \cup (U \ {x}) /\ x \in A \cup U
    BY <1>2, <1>4
  <2>2. SumOf(w, A \cup U) = w[x] + SumOf(w, (A \cup U) \ {x})
    BY <1>2, <1>3, <2>1, SumRemoves
  <2> QED  BY <2>1, <2>2
<1>8. SumOf(w, U \ {x}) \in Nat
  <2>1. IsFiniteSet(U \ {x})
    BY <1>2, FS_RemoveElement
  <2> QED  BY <1>2, <2>1, SumRemoves
<1> QED  BY <1>2, <1>3, <1>5, <1>6, <1>7, <1>8

-----------------------------------------------------------------------------
(* The weight the ledger has given out.                                     *)

LEMMA CostsAdd ==
    ASSUME LedgerTypeOK, NEW A \in SUBSET Run, NEW B \in SUBSET Run, A \cap B = {}
    PROVE  /\ CostOf(A) \in Nat /\ CostOf(B) \in Nat
           /\ CostOf(A \cup B) = CostOf(A) + CostOf(B)
<1>1. IsFiniteSet(A) /\ IsFiniteSet(B) /\ \A x \in A \cup B : cost[x] \in Nat
  BY RunAssumption, FS_Subset DEF LedgerTypeOK
<1>2. SumOf(cost, A) \in Nat /\ SumOf(cost, B) \in Nat
  BY <1>1, SumRemoves
<1>3. SumOf(cost, A \cup B) = SumOf(cost, A) + SumOf(cost, B)
  BY <1>1, SumAdds
<1> QED  BY <1>2, <1>3, CostIsSum

LEMMA CostOfOne ==
    ASSUME LedgerTypeOK, NEW r \in Run
    PROVE  CostOf({r}) = cost[r] /\ CostOf({}) = 0
<1>1. IsFiniteSet({r}) /\ IsFiniteSet({}) /\ cost[r] \in Nat
  BY FS_Singleton, FS_EmptySet DEF LedgerTypeOK
<1>2. SumOf(cost, {}) = 0
  BY <1>1, SumUnfolds
<1>3. SumOf(cost, {r}) = cost[r] + SumOf(cost, {r} \ {r})
  BY <1>1, SumRemoves
<1>4. {r} \ {r} = {}
  OBVIOUS
<1> QED  BY <1>1, <1>2, <1>3, <1>4, CostIsSum

LEMMA InUseIsSum == InUse = SumOf(cost, Running) /\ InUse' = SumOf(cost', Running')
BY Zenon DEF InUse, CostOf, MapThenSumSet, MapThenFoldSet, SumOf, Folding

(* Rows that stop running, or keep their weight, take nothing more.        *)
LEMMA FewerRunningFit ==
    ASSUME LedgerTypeOK, LedgerTypeOK', BudgetBounded, Running' \subseteq Running,
           \A r \in Running : cost'[r] = cost[r]
    PROVE  BudgetBounded'
<1>1. PICK limit \in Limits : InUse <= limit
  BY DEF BudgetBounded
<1>2. Running \in SUBSET Run /\ Running' \in SUBSET Run
  BY DEF Running
<1>3. CostOf(Running)  = CostOf(Running') + CostOf(Running \ Running')
      /\ CostOf(Running') \in Nat /\ CostOf(Running \ Running') \in Nat
  <2>1. Running' \cup (Running \ Running') = Running
    OBVIOUS
  <2> QED  BY <1>2, <2>1, CostsAdd
<1>4. SumOf(cost', Running') = SumOf(cost, Running')
  <2>1. IsFiniteSet(Running') /\ \A x \in Running' : cost[x] \in Nat /\ cost'[x] = cost[x]
    BY <1>2, RunAssumption, FS_Subset DEF LedgerTypeOK
  <2> QED  BY <2>1, SumAgrees
<1>5. InUse' = SumOf(cost', Running') /\ CostOf(Running') = SumOf(cost, Running')
  BY InUseIsSum, CostIsSum
<1> QED  BY <1>1, <1>3, <1>4, <1>5, LimitAssumption DEF BudgetBounded, InUse

(* A row that enters takes its own weight, if it runs at once.             *)
LEMMA InsertFits ==
    ASSUME LedgerTypeOK, LedgerTypeOK', BudgetBounded, NEW r \in Run, NEW c \in Nat,
           NEW s \in Active, Insert(r, c, s),
           s = "running" => \E limit \in Limits : Fits(c, limit)
    PROVE  BudgetBounded'
<1>1. CASE s = "queued"
  <2>1. Running' \subseteq Running /\ \A q \in Running : cost'[q] = cost[q]
    BY <1>1 DEF Insert, Running, LedgerTypeOK
  <2> QED  BY <2>1, FewerRunningFit
<1>2. CASE s = "running"
  <2>1. PICK limit \in Limits : InUse + c <= limit
    BY <1>2 DEF Fits
  <2>2. /\ Running' = Running \cup {r} /\ r \notin Running /\ Running \in SUBSET Run
        /\ cost'[r] = c /\ \A q \in Running : cost'[q] = cost[q]
    BY <1>2 DEF Insert, Running, LedgerTypeOK
  <2>3. /\ IsFiniteSet(Running) /\ IsFiniteSet(Running')
        /\ \A x \in Running' : cost'[x] \in Nat
        /\ \A x \in Running : cost[x] \in Nat
    BY <2>2, RunAssumption, FS_Subset DEF LedgerTypeOK
  <2>4. SumOf(cost', Running') = c + SumOf(cost', Running' \ {r})
    BY <2>2, <2>3, SumRemoves
  <2>5. Running' \ {r} = Running /\ SumOf(cost', Running) = SumOf(cost, Running)
    BY <2>2, <2>3, SumAgrees
  <2>6. SumOf(cost, Running) \in Nat
    BY <2>3, SumRemoves
  <2>7. InUse' = InUse + c
    <3>1. SumOf(cost', Running') = c + SumOf(cost, Running)
      BY <2>4, <2>5
    <3>2. c + SumOf(cost, Running) = SumOf(cost, Running) + c
      BY <2>6
    <3> QED  BY <3>1, <3>2, InUseIsSum
  <2> QED  BY <2>1, <2>7 DEF BudgetBounded
<1> QED  BY <1>1, <1>2 DEF Active

(* What the pump admits fits as a whole.                                   *)
LEMMA PumpFits ==
    ASSUME LedgerTypeOK, LedgerTypeOK', BudgetBounded, NEW limit \in Limits,
           NEW A \in SUBSET Queued, Pump(limit, A)
    PROVE  BudgetBounded'
<1>1. /\ Running \in SUBSET Run /\ A \in SUBSET Run /\ Running \cap A = {}
      /\ Running' = Running \cup A /\ cost' = cost
      /\ A # {} => InUse + CostOf(A) <= limit
  BY DEF Pump, SweepAdmits, HeadSets, Oversized, Running, Queued
<1>2. CASE A = {}
  BY <1>1, <1>2, FewerRunningFit
<1>3. CASE A # {}
  <2>1. CostOf(Running \cup A) = InUse + CostOf(A)
    BY <1>1, CostsAdd DEF InUse
  <2>2. InUse' = CostOf(Running \cup A)
    BY <1>1, InUseIsSum, CostIsSum
  <2> QED  BY <1>1, <1>3, <2>1, <2>2 DEF BudgetBounded
<1> QED  BY <1>2, <1>3

LEMMA BudgetInit == LedgerInit => BudgetBounded
<1> SUFFICES ASSUME LedgerInit PROVE BudgetBounded
  OBVIOUS
<1>1. Running = {} /\ IsFiniteSet({})
  BY FS_EmptySet DEF LedgerInit, Running
<1>2. InUse = 0
  BY <1>1, SumUnfolds, InUseIsSum
<1>3. PICK limit \in Limits : limit \in Nat
  BY LimitAssumption
<1>4. InUse <= limit
  BY <1>2, <1>3
<1> QED  BY <1>4 DEF BudgetBounded

(* The weight given out never exceeds the largest limit ever configured:   *)
(* each admission counts the row's own weight, and nothing else adds any.   *)
THEOREM BudgetIsBounded == LedgerSpec => []BudgetBounded
<1>1. LedgerTypeOK /\ LedgerTypeOK' /\ BudgetBounded /\ [LedgerNext]_ledgerVars => BudgetBounded'
  <2> SUFFICES ASSUME LedgerTypeOK, LedgerTypeOK', BudgetBounded, [LedgerNext]_ledgerVars
               PROVE  BudgetBounded'
    OBVIOUS
  <2>1. ASSUME NEW r \in Run, NEW c \in Costs, NEW limit \in Limits,
               SubmitAdmitted(r, c, limit) \/ SubmitQueued(r, c, limit)
        PROVE  BudgetBounded'
    <3>1. PICK s \in Active : Insert(r, c, s) /\ (s = "running" => Fits(c, limit))
      BY <2>1 DEF SubmitAdmitted, SubmitQueued, AdmitsAtOnce, Active
    <3> QED  BY <3>1, InsertFits, CostAssumption
  <2>2. ASSUME NEW r \in Run, MarkStarted(r) \/ \E v \in Verdicts : Release(r, v)
        PROVE  BudgetBounded'
    <3>1. Running' \subseteq Running /\ cost' = cost
      BY <2>2 DEF MarkStarted, Release, Verdicts, Running, LedgerTypeOK
    <3> QED  BY <3>1, FewerRunningFit
  <2>3. ASSUME NEW limit \in Limits, NEW A \in SUBSET Queued, Pump(limit, A)
        PROVE  BudgetBounded'
    BY <2>3, PumpFits
  <2>4. CASE UNCHANGED ledgerVars
    <3>1. Running' = Running /\ cost' = cost
      BY <2>4 DEF ledgerVars, Running
    <3> QED  BY <3>1, FewerRunningFit
  <2> QED  BY <2>1, <2>2, <2>3, <2>4 DEF LedgerNext
<1> QED  BY <1>1, BudgetInit, LedgerTypeCorrect, PTL DEF LedgerSpec
=============================================================================
