------------------------ MODULE ControlEvents_proofs ------------------------
(***************************************************************************)
(* Lemmas about the aggregates and the loading of them, for every log.     *)
(*                                                                         *)
(* History is a recursive function, so that it satisfies its equation has  *)
(* to be proved, and so has everything that is said of all the prefixes of *)
(* a log.  Both are shown by way of a least counterexample.                *)
(***************************************************************************)
EXTENDS ControlEvents, WellFoundedInduction, FiniteSetTheorems,
        SequenceTheorems, TLAPS

\* A non-empty set of naturals has a least member.
LEMMA LeastNatural ==
    ASSUME NEW T, T \subseteq Nat, T # {}
    PROVE  \E n \in T : \A m \in T : n <= m
<1>1. PICK n \in T : \A m \in T : ~(<<m, n>> \in OpToRel(<, Nat))
  BY NatLessThanWellFounded, WFMin, Zenon
<1>2. \A m \in T : ~(m < n)
  BY <1>1 DEF OpToRel
<1> QED
  BY <1>2

\* How many numbers there are up to n.
LEMMA UpTo ==
    ASSUME NEW n \in Nat
    PROVE  IsFiniteSet(1..n) /\ Cardinality(1..n) = n
<1>1. /\ IsFiniteSet(1..n)
      /\ Cardinality(1..n) = IF 1 > n THEN 0 ELSE n - 1 + 1
  BY FS_Interval, 1 \in Int, n \in Int
<1> QED
  BY <1>1

-----------------------------------------------------------------------------
(* History.                                                                *)

\* The state after n envelopes when f has the states before.
StateAt(f, log, type, id, n) ==
    IF n = 0 THEN Initial(type)
    ELSE IF Within(log[n], type, id)
         THEN Evolve(type, f[n - 1], log[n].event)
         ELSE f[n - 1]

\* There are states for the first m envelopes.
Loadable(log, type, id, m) ==
    \E f : f = [n \in 0..m |-> StateAt(f, log, type, id, n)]

\* Every log can be loaded.
LEMMA HistoryExists ==
    ASSUME NEW log, NEW type, NEW id, NEW len \in Nat
    PROVE  Loadable(log, type, id, len)
<1> DEFINE Bad == {m \in Nat : ~Loadable(log, type, id, m)}
<1>1. Loadable(log, type, id, 0)
  <2> DEFINE f == [n \in 0..0 |-> Initial(type)]
  <2>1. f = [n \in 0..0 |-> StateAt(f, log, type, id, n)]
    BY DEF StateAt
  <2> HIDE DEF f
  <2> QED
    BY <2>1 DEF Loadable
<1>2. ASSUME NEW m \in Nat, Loadable(log, type, id, m)
      PROVE  Loadable(log, type, id, m + 1)
  <2>1. PICK f : f = [n \in 0..m |-> StateAt(f, log, type, id, n)]
    BY <1>2 DEF Loadable
  <2> DEFINE g == [n \in 0..m + 1 |-> StateAt(f, log, type, id, n)]
  <2>2. \A n \in 0..m : g[n] = f[n]
    BY <2>1
  <2>3. \A n \in 0..m + 1 :
           StateAt(f, log, type, id, n) = StateAt(g, log, type, id, n)
    <3>1. \A n \in 0..m + 1 : n # 0 => g[n - 1] = f[n - 1]
      BY <2>2
    <3> HIDE DEF g
    <3> QED
      BY <3>1 DEF StateAt
  <2>4. g = [n \in 0..m + 1 |-> StateAt(g, log, type, id, n)]
    BY <2>3
  <2> HIDE DEF g
  <2> QED
    BY <2>4 DEF Loadable
<1>3. Bad = {}
  <2> SUFFICES ASSUME Bad # {} PROVE FALSE
    OBVIOUS
  <2>1. PICK m \in Bad : \A k \in Bad : m <= k
    <3> HIDE DEF Bad
    <3>1. Bad \subseteq Nat
      BY DEF Bad
    <3> QED
      BY <3>1, LeastNatural
  <2>2. m # 0 /\ m - 1 \in Nat /\ Loadable(log, type, id, m - 1)
    BY <1>1, <2>1
  <2> QED
    BY <1>2, <2>1, <2>2
<1> QED
  BY <1>3

\* History satisfies the equation it is defined by.
LEMMA HistoryStates ==
    ASSUME NEW log, NEW type, NEW id, Len(log) \in Nat
    PROVE  LET h == History(log, type, id)
           IN  /\ h[0] = Initial(type)
               /\ \A n \in 1..Len(log) :
                     h[n] = IF Within(log[n], type, id)
                            THEN Evolve(type, h[n - 1], log[n].event)
                            ELSE h[n - 1]
<1> DEFINE len == Len(log)
           h == History(log, type, id)
<1>1. Loadable(log, type, id, len)
  BY HistoryExists
<1>2. h = [n \in 0..len |-> StateAt(h, log, type, id, n)]
  BY <1>1 DEF History, Loadable, StateAt
<1> HIDE DEF len, h
<1>3. \A n \in 0..len : h[n] = StateAt(h, log, type, id, n)
  BY <1>2
<1>4. len \in Nat
  BY DEF len
<1>5. h[0] = Initial(type)
  BY <1>3, <1>4 DEF StateAt
<1>6. \A n \in 1..len : h[n] = IF Within(log[n], type, id)
                               THEN Evolve(type, h[n - 1], log[n].event)
                               ELSE h[n - 1]
  BY <1>3, <1>4 DEF StateAt
<1> QED
  BY <1>5, <1>6 DEF h, len

\* What holds of a state and is kept by every event after it holds from then
\* on: the states are described by the set they are in.
LEMMA HistoryStays ==
    ASSUME NEW log, NEW type, NEW id, NEW States, Len(log) \in Nat,
           NEW a \in 0..Len(log), NEW b \in a..Len(log),
           History(log, type, id)[a] \in States,
           \A n \in a + 1..b : History(log, type, id)[n - 1] \in States =>
                                  History(log, type, id)[n] \in States
    PROVE  \A n \in a..b : History(log, type, id)[n] \in States
<1> DEFINE h == History(log, type, id)
           Bad == {n \in a..b : h[n] \notin States}
<1> HIDE DEF h
<1> SUFFICES ASSUME Bad # {} PROVE FALSE
  BY DEF h
<1>1. PICK n \in Bad : \A m \in Bad : n <= m
  <2>1. Bad \subseteq Nat
    OBVIOUS
  <2> HIDE DEF Bad
  <2> QED
    BY <2>1, LeastNatural
<1>2. n # a
  BY <1>1 DEF h
<1>3. n \in a + 1..b /\ n - 1 \in a..b
  BY <1>1, <1>2
<1>4. h[n - 1] \in States
  BY <1>1, <1>3
<1> QED
  BY <1>1, <1>3, <1>4 DEF h

\* Logs that begin alike have the same states there.
LEMMA HistoriesAgree ==
    ASSUME NEW l, NEW m, NEW type, NEW id, NEW len \in Nat,
           Len(l) \in Nat, Len(m) \in Nat, len <= Len(l), len <= Len(m),
           \A i \in 1..len : l[i] = m[i]
    PROVE  \A n \in 0..len :
              History(l, type, id)[n] = History(m, type, id)[n]
<1> DEFINE h == History(l, type, id)
           g == History(m, type, id)
           Bad == {n \in 0..len : h[n] # g[n]}
<1>1. /\ h[0] = Initial(type)
      /\ \A n \in 1..len : h[n] = IF Within(l[n], type, id)
                                   THEN Evolve(type, h[n - 1], l[n].event)
                                   ELSE h[n - 1]
  BY HistoryStates
<1>2. /\ g[0] = Initial(type)
      /\ \A n \in 1..len : g[n] = IF Within(m[n], type, id)
                                   THEN Evolve(type, g[n - 1], m[n].event)
                                   ELSE g[n - 1]
  BY HistoryStates
<1> HIDE DEF h, g
<1> SUFFICES ASSUME Bad # {} PROVE FALSE
  BY DEF h, g
<1>3. PICK n \in Bad : \A k \in Bad : n <= k
  <2>1. Bad \subseteq Nat
    OBVIOUS
  <2> HIDE DEF Bad
  <2> QED
    BY <2>1, LeastNatural
<1>4. n # 0
  BY <1>1, <1>2, <1>3
<1>5. n \in 1..len /\ n - 1 \in 0..len
  BY <1>3, <1>4
<1>6. h[n - 1] = g[n - 1]
  BY <1>3, <1>5
<1> QED
  BY <1>1, <1>2, <1>3, <1>5, <1>6

-----------------------------------------------------------------------------
(* Loading.                                                                *)

\* A prefix of a log.
LEMMA PrefixProperties ==
    ASSUME NEW S, NEW log \in Seq(S), NEW n \in 0..Len(log)
    PROVE  /\ SubSeq(log, 1, n) \in Seq(S)
           /\ Len(SubSeq(log, 1, n)) = n
           /\ \A i \in 1..n : SubSeq(log, 1, n)[i] = log[i]
<1>1. n \in Int /\ 1 \in Int /\ \A i \in 1..n : log[i] \in S
  BY ElementOfSeq
<1>2. /\ SubSeq(log, 1, n) \in Seq(S)
      /\ Len(SubSeq(log, 1, n)) = IF 1 <= n THEN n - 1 + 1 ELSE 0
      /\ \A i \in 1..n - 1 + 1 : SubSeq(log, 1, n)[i] = log[1 + i - 1]
  BY <1>1, SubSeqProperties
<1> QED
  BY <1>2

\* To load a prefix is to stop in the middle of the log.
LEMMA LoadPrefix ==
    ASSUME NEW S, NEW log \in Seq(S), NEW n \in 0..Len(log),
           NEW type, NEW id
    PROVE  Load(SubSeq(log, 1, n), type, id) = History(log, type, id)[n]
<1> DEFINE l == SubSeq(log, 1, n)
<1>1. /\ n \in Nat /\ Len(log) \in Nat /\ n <= Len(log)
      /\ Len(l) = n /\ \A i \in 1..n : l[i] = log[i]
  BY PrefixProperties, LenProperties
<1> HIDE DEF l
<1>2. \A k \in 0..n :
         History(l, type, id)[k] = History(log, type, id)[k]
  BY <1>1, HistoriesAgree
<1> QED
  BY <1>1, <1>2 DEF Load, l

\* A log is the longest of its prefixes.
LEMMA LoadAll ==
    ASSUME NEW S, NEW log \in Seq(S), NEW type, NEW id
    PROVE  Load(SubSeq(log, 1, Len(log)), type, id) = Load(log, type, id)
BY SubSeqFull

\* The empty prefix loads as the initial state.
LEMMA LoadEmpty ==
    ASSUME NEW S, NEW log \in Seq(S), NEW type, NEW id
    PROVE  Load(SubSeq(log, 1, 0), type, id) = Initial(type)
<1>1. Len(log) \in Nat /\ 0 \in 0..Len(log)
  BY LenProperties
<1> QED
  BY <1>1, LoadPrefix, HistoryStates

\* One more envelope is one more step, of the aggregate it is about.
LEMMA LoadStep ==
    ASSUME NEW S, NEW log \in Seq(S), NEW n \in 1..Len(log),
           NEW type, NEW id
    PROVE  Load(SubSeq(log, 1, n), type, id) =
              IF Within(log[n], type, id)
              THEN Evolve(type, Load(SubSeq(log, 1, n - 1), type, id),
                          log[n].event)
              ELSE Load(SubSeq(log, 1, n - 1), type, id)
<1>1. Len(log) \in Nat /\ n \in 0..Len(log) /\ n - 1 \in 0..Len(log)
  BY LenProperties
<1>2. /\ Load(SubSeq(log, 1, n), type, id) = History(log, type, id)[n]
      /\ Load(SubSeq(log, 1, n - 1), type, id)
             = History(log, type, id)[n - 1]
  BY <1>1, LoadPrefix
<1> QED
  BY <1>1, <1>2, HistoryStates

\* What is appended leaves every prefix as it was.
LEMMA PrefixOfAppend ==
    ASSUME NEW S, NEW log \in Seq(S), NEW e \in S, NEW n \in 0..Len(log)
    PROVE  SubSeq(Append(log, e), 1, n) = SubSeq(log, 1, n)
<1> DEFINE l == Append(log, e)
<1>1. /\ l \in Seq(S) /\ Len(l) = Len(log) + 1 /\ Len(log) \in Nat
      /\ \A i \in 1..Len(log) : l[i] = log[i]
  BY AppendProperties, LenProperties
<1> HIDE DEF l
<1>2. n \in 0..Len(l)
  BY <1>1
<1>3. /\ SubSeq(l, 1, n) \in Seq(S) /\ Len(SubSeq(l, 1, n)) = n
      /\ \A i \in 1..n : SubSeq(l, 1, n)[i] = l[i]
  BY <1>1, <1>2, PrefixProperties
<1>4. /\ SubSeq(log, 1, n) \in Seq(S) /\ Len(SubSeq(log, 1, n)) = n
      /\ \A i \in 1..n : SubSeq(log, 1, n)[i] = log[i]
  BY PrefixProperties
<1>5. \A i \in 1..n : SubSeq(l, 1, n)[i] = SubSeq(log, 1, n)[i]
  BY <1>1, <1>3, <1>4
<1>6. SubSeq(l, 1, n) = SubSeq(log, 1, n)
  BY <1>3, <1>4, <1>5, SeqEqual
<1> QED
  BY <1>6 DEF l

\* An append changes the aggregate it is about and no other.
LEMMA LoadAppend ==
    ASSUME NEW S, NEW log \in Seq(S), NEW e \in S, NEW type, NEW id
    PROVE  Load(Append(log, e), type, id) =
              IF Within(e, type, id)
              THEN Evolve(type, Load(log, type, id), e.event)
              ELSE Load(log, type, id)
<1> DEFINE l == Append(log, e)
           n == Len(log) + 1
<1>1. /\ l \in Seq(S) /\ Len(l) = n /\ l[n] = e
      /\ Len(log) \in Nat /\ n - 1 = Len(log) /\ n \in 1..n
  BY AppendProperties, LenProperties
<1>2. SubSeq(l, 1, n - 1) = log
  BY <1>1, PrefixOfAppend, SubSeqFull
<1>3. Load(SubSeq(l, 1, n), type, id) = Load(l, type, id)
  BY <1>1, LoadAll
<1> HIDE DEF l, n
<1>4. Load(SubSeq(l, 1, n), type, id) =
         IF Within(l[n], type, id)
         THEN Evolve(type, Load(SubSeq(l, 1, n - 1), type, id), l[n].event)
         ELSE Load(SubSeq(l, 1, n - 1), type, id)
  BY <1>1, LoadStep
<1> QED
  BY <1>1, <1>2, <1>3, <1>4 DEF l

\* A version counts envelopes of the log.
LEMMA VersionType ==
    ASSUME NEW S, NEW log \in Seq(S), NEW type, NEW id
    PROVE  Version(log, type, id) \in 0..Len(log)
<1> DEFINE T == {i \in 1..Len(log) : Within(log[i], type, id)}
<1>1. Len(log) \in Nat /\ T \in SUBSET (1..Len(log))
  BY LenProperties
<1>2. /\ IsFiniteSet(1..Len(log)) /\ Cardinality(1..Len(log)) = Len(log)
  BY <1>1, UpTo
<1> HIDE DEF T
<1>3. IsFiniteSet(T) /\ Cardinality(T) <= Len(log)
  BY <1>1, <1>2, FS_Subset
<1>4. Cardinality(T) \in Nat
  BY <1>3, FS_CardinalityType
<1> QED
  BY <1>1, <1>3, <1>4 DEF Version, T

\* An append raises the version of the aggregate it is about and no other.
LEMMA VersionAppend ==
    ASSUME NEW S, NEW log \in Seq(S), NEW e \in S, NEW type, NEW id
    PROVE  Version(Append(log, e), type, id) =
              IF Within(e, type, id) THEN Version(log, type, id) + 1
              ELSE Version(log, type, id)
<1> DEFINE l == Append(log, e)
           n == Len(log) + 1
           T == {i \in 1..Len(log) : Within(log[i], type, id)}
           U == {i \in 1..Len(l) : Within(l[i], type, id)}
<1>1. /\ Len(l) = n /\ l[n] = e /\ Len(log) \in Nat
      /\ \A i \in 1..Len(log) : l[i] = log[i]
  BY AppendProperties, LenProperties
<1>2. n \notin T /\ T \in SUBSET (1..Len(log))
  BY <1>1
<1>3. IsFiniteSet(T)
  <2> HIDE DEF T, n
  <2>1. IsFiniteSet(1..Len(log))
    BY <1>1, UpTo
  <2> QED
    BY <1>2, <2>1, FS_Subset
<1>4. U = IF Within(e, type, id) THEN T \union {n} ELSE T
  <2> HIDE DEF l
  <2> QED
    BY <1>1 DEF n
<1> HIDE DEF T, U, n, l
<1>5. Cardinality(T \union {n}) = Cardinality(T) + 1
  BY <1>2, <1>3, FS_AddElement
<1> QED
  BY <1>4, <1>5 DEF Version, T, U, l

\* A decision with an event makes one envelope.
LEMMA OneEnvelope ==
    ASSUME NEW type, NEW id, NEW e, NEW d, d.out = <<e>>
    PROVE  Envelopes(type, id, d)
              = <<[type |-> type, id |-> id, event |-> e]>>
<1>1. Len(d.out) = 1 /\ d.out[1] = e
  OBVIOUS
<1>2. Envelopes(type, id, d)
         = [i \in 1..1 |-> [type |-> type, id |-> id, event |-> e]]
  BY <1>1 DEF Envelopes
<1> QED
  BY <1>2

\* And what decides nothing adds none.
LEMMA NoEnvelope ==
    ASSUME NEW type, NEW id, NEW d, d.out = << >>
    PROVE  Envelopes(type, id, d) = << >>
<1>1. Len(d.out) = 0
  OBVIOUS
<1>2. Envelopes(type, id, d)
         = [i \in 1..0 |-> [type |-> type, id |-> id, event |-> d.out[i]]]
  BY <1>1 DEF Envelopes
<1> QED
  BY <1>2

=============================================================================
