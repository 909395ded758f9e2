--------------------------- MODULE TimeSourcesProofs ---------------------------
(***************************************************************************)
(* For any candidates, operators and answers, any number of runs that fail *)
(* at any step, and chronyd restarting whenever it likes: the two passes   *)
(* choose the best servers, and the sources that were installed before are *)
(* never lost.                                                             *)
(***************************************************************************)
EXTENDS TimeSources, FiniteSetTheorems, WellFoundedInduction, TLAPS

\* A server that answered with stratum 1 has a delay, one that answered at all
\* a stratum.
Sane(m) ==
  /\ 1 \in m.strata => m.nearest \in Delay
  /\ m.good > 0 => m.strata # {}
MeasuredInv == \A s \in Server : Sane(measured[s])

All     == Range(chosen)
Come    == Healthy \ left
First(s) == \A t \in Healthy \ {s} : Before(s, t)

\* In both passes what is left comes after what the pass has come to.  What is
\* chosen is healthy, the nearest first, and nobody is chosen twice.
PassInv ==
  /\ left \subseteq Healthy
  /\ \A s \in Come, t \in left : Before(s, t)
  /\ All \subseteq Healthy
  /\ IsFiniteSet(All) /\ Cardinality(All) = Len(chosen)
  /\ chosen # <<>> => First(chosen[1])

\* The first pass has the first server of each operator it has come to.
DiverseInv ==
  /\ All \subseteq Come
  /\ \A t, u \in All : Operator[t] = Operator[u] => t = u
  /\ \A s \in Come : \E t \in All : Operator[t] = Operator[s] /\ (t = s \/ Before(t, s))
  /\ IsFiniteSet(OperatorsOf(All)) /\ Cardinality(OperatorsOf(All)) = Len(chosen)

\* After it every operator has a server, or all places are taken, and whoever is
\* left out is behind those of his operator; the second pass takes all it comes to.
FillInv ==
  /\ \A s \in Healthy \ All, t \in All : Operator[s] = Operator[t] => Before(t, s)
  /\ IsFiniteSet(OperatorsOf(All)) /\ Cardinality(OperatorsOf(All)) <= Count
  /\ \/ OperatorsOf(All) = OperatorsOf(Healthy)
     \/ Len(chosen) = Count /\ Cardinality(OperatorsOf(All)) = Count
  /\ Come \subseteq All
  /\ chosen = <<>> => Healthy = {}

ChoiceInv ==
  /\ MeasuredInv
  /\ stage # "idle" => outcome = "none"
  /\ stage = "measure" => chosen = <<>>
  /\ stage \in {"diverse", "fill"} => PassInv
  /\ stage = "diverse" => DiverseInv
  /\ stage = "fill" => FillInv
  /\ ChoiceIsBest

-----------------------------------------------------------------------------
(* Types *)

LEMMA ReplyType ==
  ASSUME TimeAssumption, NEW m \in Measured, m.sent < Samples, NEW n \in Reply(m)
  PROVE  n \in Measured
<1> DEFINE sent == [m EXCEPT !.sent = @ + 1]
<1> DEFINE good == [sent EXCEPT !.good = Enough(@ + 1)]
<1>1. sent \in Measured /\ sent.sent = m.sent + 1 /\ sent.sent \in 0 .. Samples
  BY DEF TimeAssumption, Measured
<1>2. good \in Measured
  <2>1. sent.good \in 0 .. MinGoodSamples
    BY <1>1 DEF Measured
  <2>2. Enough(sent.good + 1) \in 0 .. MinGoodSamples
    BY <2>1 DEF Enough, MinGoodSamples
  <2> HIDE DEF sent
  <2> QED
    BY <1>1, <2>2 DEF Measured
<1> HIDE DEF sent, good
<1>3. ASSUME NEW d \in Delay
      PROVE  [good EXCEPT !.strata = @ \cup {1}, !.nearest = Lesser(d, @)] \in Measured
  BY <1>2 DEF Measured, Lesser
<1>4. [good EXCEPT !.strata = @ \cup {2}] \in Measured
  BY <1>2 DEF Measured
<1>5. ASSUME NEW last \in {sent.sent, Samples}
      PROVE  [sent EXCEPT !.kissed = TRUE, !.sent = last] \in Measured
  <2>1. last \in 0 .. Samples
    BY <1>1 DEF TimeAssumption
  <2> QED
    BY <1>1, <2>1 DEF Measured
<1> QED
  BY <1>1, <1>3, <1>4, <1>5 DEF Reply, sent, good

LEMMA ReplySane ==
  ASSUME TimeAssumption, NEW m \in Measured, Sane(m), NEW n \in Reply(m)
  PROVE  Sane(n)
<1> DEFINE sent == [m EXCEPT !.sent = @ + 1]
<1> DEFINE good == [sent EXCEPT !.good = Enough(@ + 1)]
<1>1. /\ sent.strata = m.strata /\ sent.nearest = m.nearest /\ sent.good = m.good
      /\ good.strata = m.strata /\ good.nearest = m.nearest
      /\ DOMAIN sent = DOMAIN m /\ DOMAIN good = DOMAIN m
      /\ {"sent", "good", "strata", "nearest", "kissed"} = DOMAIN m
  BY DEF Measured
<1>2. ASSUME NEW d \in Delay, n = [good EXCEPT !.strata = @ \cup {1}, !.nearest = Lesser(d, @)]
      PROVE  Sane(n)
  <2>1. n.strata = m.strata \cup {1} /\ n.nearest = Lesser(d, m.nearest)
    BY <1>1, <1>2
  <2>2. m.nearest \in {None} \cup Delay
    BY DEF Measured
  <2> QED
    BY <2>1, <2>2 DEF Lesser, Sane
<1>3. CASE n = [good EXCEPT !.strata = @ \cup {2}]
  <2>1. n.strata = m.strata \cup {2} /\ n.nearest = m.nearest
    BY <1>1, <1>3
  <2> QED
    BY <2>1 DEF Sane
<1>4. CASE n = sent
  BY <1>1, <1>4 DEF Sane
<1>5. ASSUME NEW last, n = [sent EXCEPT !.kissed = TRUE, !.sent = last] PROVE Sane(n)
  <2>1. n.strata = m.strata /\ n.nearest = m.nearest /\ n.good = m.good
    BY <1>1, <1>5
  <2> QED
    BY <2>1 DEF Sane
<1> QED
  BY <1>2, <1>3, <1>4, <1>5 DEF Reply

-----------------------------------------------------------------------------
(* The order of the servers *)

LEMMA HealthyHasKey ==
  ASSUME TimeAssumption, TypeOK, MeasuredInv, NEW s \in Healthy
  PROVE  /\ s \in Server /\ measured[s].nearest \in Delay
         /\ Key(s) \in Nat
         /\ Position(s) \in Nat /\ Position(s) \in DOMAIN Candidate /\ Candidate[Position(s)] = s
<1>1. s \in Server /\ measured[s].strata = {1}
  BY DEF Healthy, Eligible
<1>2. measured[s].nearest \in Delay
  BY <1>1 DEF MeasuredInv, Sane
<1>3. PICK n \in DOMAIN Candidate : Candidate[n] = s
  BY <1>1 DEF Server, Range
<1>4. Position(s) \in DOMAIN Candidate /\ Candidate[Position(s)] = s
  BY <1>3 DEF Position
<1>5. DOMAIN Candidate = 1 .. Len(Candidate)
  BY DEF TimeAssumption
<1> QED
  BY <1>1, <1>2, <1>4, <1>5 DEF Key, Delay, TimeAssumption

LEMMA BeforeIsOrder ==
  ASSUME TimeAssumption, TypeOK, MeasuredInv,
         NEW s \in Healthy, NEW t \in Healthy, NEW u \in Healthy
  PROVE  /\ s # t => Before(s, t) \/ Before(t, s)
         /\ ~(Before(s, t) /\ Before(t, s))
         /\ Before(s, t) /\ Before(t, u) => Before(s, u)
<1>1. \A v \in {s, t, u} : Key(v) \in Nat /\ Position(v) \in Nat /\ Candidate[Position(v)] = v
  BY HealthyHasKey
<1> QED
  BY <1>1 DEF Before

\* What a pass comes to next is before all that is left after it.
LEMMA Least ==
  ASSUME NEW S \in SUBSET Nat, S # {}
  PROVE  \E m \in S : \A n \in S : m <= n
<1> DEFINE Below == OpToRel(<, Nat)
<1>1. PICK m \in S : \A n \in S : ~ (<<n, m>> \in Below)
  BY NatLessThanWellFounded, WFMin
<1>2. ASSUME NEW n \in S PROVE m <= n
  <2>1. m \in Nat /\ n \in Nat /\ ~ (<<n, m>> \in Below)
    BY <1>1
  <2> QED
    BY <2>1 DEF OpToRel
<1> QED
  BY <1>2

LEMMA NearestIsLeast ==
  ASSUME TimeAssumption, TypeOK, MeasuredInv, NEW S \in SUBSET Healthy, S # {}
  PROVE  Nearest(S) \in S /\ \A t \in S \ {Nearest(S)} : Before(Nearest(S), t)
<1> DEFINE Keys == {Key(s) : s \in S}
<1>1. \A s \in S : s \in Healthy /\ Key(s) \in Nat /\ Position(s) \in Nat /\ Candidate[Position(s)] = s
  BY HealthyHasKey
<1>2. PICK k \in Keys : \A j \in Keys : k <= j
  <2> Keys \in SUBSET Nat /\ Keys # {}
    BY <1>1
  <2> HIDE DEF Keys
  <2> QED
    BY Least
<1> DEFINE Places == {Position(s) : s \in {t \in S : Key(t) = k}}
<1>3. PICK p \in Places : \A q \in Places : p <= q
  <2> Places \in SUBSET Nat /\ Places # {}
    BY <1>1, <1>2
  <2> HIDE DEF Places
  <2> QED
    BY Least
<1>4. PICK s \in S : Key(s) = k /\ Position(s) = p
  BY <1>3
<1>5. ASSUME NEW t \in S \ {s} PROVE Before(s, t)
  <2>1. Key(t) \in Nat /\ Position(t) \in Nat /\ Position(s) \in Nat /\ Key(s) \in Nat
    BY <1>1
  <2>2. Key(s) <= Key(t)
    BY <1>2, <1>4
  <2>3. Key(t) = Key(s) => Position(s) <= Position(t)
    BY <1>3, <1>4
  <2>4. Position(s) # Position(t)
    BY <1>1
  <2> QED
    BY <2>1, <2>2, <2>3, <2>4 DEF Before
<1> QED
  BY <1>4, <1>5 DEF Nearest

-----------------------------------------------------------------------------
(* Finite sets *)

LEMMA RangeAppend ==
  ASSUME NEW S, NEW q \in Seq(S), NEW s \in S
  PROVE  /\ Append(q, s) \in Seq(S) /\ Len(Append(q, s)) = Len(q) + 1
         /\ Range(Append(q, s)) = Range(q) \cup {s}
         /\ Append(q, s) # <<>>
         /\ Append(q, s)[1] = IF q = <<>> THEN s ELSE q[1]
<1>1. /\ Append(q, s) \in Seq(S) /\ Len(Append(q, s)) = Len(q) + 1 /\ Len(q) \in Nat
      /\ DOMAIN q = 1 .. Len(q) /\ DOMAIN Append(q, s) = 1 .. Len(q) + 1
      /\ Append(q, s)[Len(q) + 1] = s
      /\ \A n \in 1 .. Len(q) : Append(q, s)[n] = q[n]
  OBVIOUS
<1>2. Range(Append(q, s)) \subseteq Range(q) \cup {s}
  <2> SUFFICES ASSUME NEW n \in 1 .. Len(q) + 1 PROVE Append(q, s)[n] \in Range(q) \cup {s}
    BY <1>1 DEF Range
  <2>1. n \in 1 .. Len(q) \/ n = Len(q) + 1
    BY <1>1
  <2> QED
    BY <1>1, <2>1 DEF Range
<1>3. Range(q) \cup {s} \subseteq Range(Append(q, s))
  <2>1. Len(q) + 1 \in 1 .. Len(q) + 1 /\ 1 .. Len(q) \subseteq 1 .. Len(q) + 1
    BY <1>1
  <2> QED
    BY <1>1, <2>1 DEF Range
<1>4. q = <<>> <=> Len(q) = 0
  OBVIOUS
<1>5. q # <<>> => 1 \in 1 .. Len(q)
  BY <1>1, <1>4
<1> QED
  BY <1>1, <1>2, <1>3, <1>4, <1>5

LEMMA NewElement ==
  ASSUME NEW S, IsFiniteSet(S), NEW x, x \notin S
  PROVE  IsFiniteSet(S \cup {x}) /\ Cardinality(S \cup {x}) = Cardinality(S) + 1
  BY FS_AddElement

LEMMA HealthyFinite == TimeAssumption => IsFiniteSet(Server) /\ IsFiniteSet(Healthy)
<1> SUFFICES ASSUME TimeAssumption PROVE IsFiniteSet(Server) /\ IsFiniteSet(Healthy)
  OBVIOUS
<1>1. Len(Candidate) \in Nat /\ DOMAIN Candidate = 1 .. Len(Candidate)
  BY DEF TimeAssumption
<1>2. Candidate \in Surjection(1 .. Len(Candidate), Server)
  BY <1>1 DEF TimeAssumption, Surjection, Server, Range
<1>3. IsFiniteSet(1 .. Len(Candidate))
  BY <1>1, FS_Interval
<1>4. IsFiniteSet(Server)
  BY <1>2, <1>3, FS_Surjection
<1>5. Healthy \in SUBSET Server
  BY DEF Healthy
<1> QED
  BY <1>4, <1>5, FS_Subset

LEMMA OperatorsFinite ==
  ASSUME TimeAssumption, NEW S \in SUBSET Server
  PROVE  IsFiniteSet(OperatorsOf(S))
<1>1. OperatorsOf(S) \in SUBSET Range(Operator)
  BY DEF OperatorsOf, TimeAssumption, Range
<1>2. Operator \in Surjection(Server, Range(Operator))
  BY DEF TimeAssumption, Surjection, Range
<1>3. IsFiniteSet(Range(Operator))
  BY <1>2, HealthyFinite, FS_Surjection
<1> QED
  BY <1>1, <1>3, FS_Subset

-----------------------------------------------------------------------------
(* The passes *)

\* The order is that of the measurements, which stay.
LEMMA OrderStays ==
  ASSUME measured' = measured
  PROVE  /\ Healthy' = Healthy
         /\ \A s, t : Before(s, t)' <=> Before(s, t)
         /\ MeasuredInv => MeasuredInv'
  BY DEF Healthy, Eligible, Before, Key, Position, MeasuredInv, Sane

\* A pass comes to the next server, and takes it only if it is not chosen yet.
LEMMA PassStep ==
  ASSUME TimeAssumption, TypeOK, MeasuredInv, PassInv, ~Over, measured' = measured,
         NEW s, s = Nearest(left), left' = left \ {s},
         \/ chosen' = chosen
         \/ /\ chosen' = Append(chosen, s)
            /\ s \notin All
            /\ chosen = <<>> => Come = {}
  PROVE  /\ PassInv'
         /\ chosen' \in Seq(Server) /\ Len(chosen') <= Count
         /\ s \in Healthy /\ Come' = Come \cup {s}
         /\ \A t \in left' : Before(s, t)
         /\ chosen' = chosen => All' = All
         /\ chosen' = Append(chosen, s) =>
              All' = All \cup {s} /\ Len(chosen') = Len(chosen) + 1 /\ chosen' # <<>>
<1>1. /\ Healthy' = Healthy /\ \A t, u : Before(t, u)' <=> Before(t, u)
  BY OrderStays
<1>2. s \in left /\ s \in Healthy /\ s \in Server /\ \A t \in left \ {s} : Before(s, t)
  BY NearestIsLeast DEF Over, PassInv, Healthy
<1>3. Come' = Come \cup {s}
  BY <1>1, <1>2 DEF Come
<1>4. \A t \in Come', u \in left' : Before(t, u)
  BY <1>2, <1>3 DEF PassInv
<1>5. left' \subseteq Healthy
  BY DEF PassInv
<1>6. CASE chosen' = chosen
  <2>1. All' = All
    BY <1>6 DEF All
  <2>2. chosen # <<>> => First(chosen[1])'
    BY <1>1, <1>6 DEF PassInv, First
  <2> QED
    BY <1>1, <1>2, <1>3, <1>4, <1>5, <1>6, <2>1, <2>2, RangeAppend DEF PassInv, TypeOK
<1>7. CASE chosen' = Append(chosen, s) /\ s \notin All /\ (chosen = <<>> => Come = {})
  <2>1. /\ chosen' \in Seq(Server) /\ Len(chosen') = Len(chosen) + 1 /\ chosen' # <<>>
        /\ All' = All \cup {s}
        /\ chosen'[1] = IF chosen = <<>> THEN s ELSE chosen[1]
    BY <1>2, <1>7, RangeAppend DEF TypeOK, All
  <2>2. Len(chosen') <= Count
    BY <2>1 DEF Over, TypeOK, TimeAssumption
  <2>3. IsFiniteSet(All') /\ Cardinality(All') = Len(chosen')
    <3>1. IsFiniteSet(All \cup {s}) /\ Cardinality(All \cup {s}) = Cardinality(All) + 1
      BY <1>7, NewElement DEF PassInv
    <3> QED
      BY <2>1, <3>1 DEF PassInv
  <2>4. First(chosen[1])'
    <3>1. CASE chosen = <<>>
      <4>1. Healthy = left
        BY <1>7, <3>1 DEF Come, PassInv
      <4> QED
        BY <1>1, <1>2, <2>1, <3>1, <4>1 DEF First
    <3>2. CASE chosen # <<>>
      BY <1>1, <2>1, <3>2 DEF First, PassInv
    <3> QED
      BY <3>1, <3>2
  <2>5. All' \subseteq Healthy
    BY <1>2, <2>1 DEF PassInv
  <2>6. chosen' # chosen
    BY <2>1 DEF TypeOK
  <2> QED
    BY <1>1, <1>2, <1>3, <1>4, <1>5, <1>7, <2>1, <2>2, <2>3, <2>4, <2>5, <2>6 DEF PassInv
<1> QED
  BY <1>6, <1>7

LEMMA NothingChosen == chosen = <<>> => All = {}
  BY DEF All, Range

\* The first pass.
LEMMA DiverseStep ==
  ASSUME TimeAssumption, TypeOK, MeasuredInv, PassInv, DiverseInv, ~Over, Take(IsNewOperator(Coming))
  PROVE  PassInv' /\ DiverseInv' /\ chosen' \in Seq(Server) /\ Len(chosen') <= Count
<1> DEFINE s == Nearest(left)
<1>1. measured' = measured /\ left' = left \ {s}
  BY DEF Take, Coming
<1>2. chosen' = IF Operator[s] \notin OperatorsOf(All) THEN Append(chosen, s) ELSE chosen
  BY DEF Take, Coming, IsNewOperator, All
<1> HIDE DEF s
<1>3. Operator[s] \notin OperatorsOf(All) => s \notin All
  BY DEF OperatorsOf
<1>4. chosen = <<>> => Come = {}
  BY NothingChosen DEF DiverseInv
<1>5. /\ PassInv'
      /\ chosen' \in Seq(Server) /\ Len(chosen') <= Count
      /\ s \in Healthy /\ Come' = Come \cup {s}
      /\ chosen' = chosen => All' = All
      /\ chosen' = Append(chosen, s) => All' = All \cup {s} /\ Len(chosen') = Len(chosen) + 1
  BY <1>1, <1>2, <1>3, <1>4, PassStep DEF s
<1>6. \A t \in Come : Before(t, s)
  <2>1. s \in left
    BY NearestIsLeast DEF Over, PassInv, s
  <2> QED
    BY <2>1 DEF PassInv
<1>7. \A t, u : Before(t, u)' <=> Before(t, u)
  BY <1>1, OrderStays
<1>8. CASE Operator[s] \notin OperatorsOf(All)
  <2>1. All' = All \cup {s} /\ Len(chosen') = Len(chosen) + 1
    BY <1>2, <1>5, <1>8
  <2>2. OperatorsOf(All') = OperatorsOf(All) \cup {Operator[s]}
    BY <2>1 DEF OperatorsOf
  <2>3. IsFiniteSet(OperatorsOf(All')) /\ Cardinality(OperatorsOf(All')) = Len(chosen')
    <3>1. LET O == OperatorsOf(All)
          IN  /\ IsFiniteSet(O \cup {Operator[s]})
              /\ Cardinality(O \cup {Operator[s]}) = Cardinality(O) + 1
      BY <1>8, NewElement DEF DiverseInv
    <3> QED
      BY <2>1, <2>2, <3>1 DEF DiverseInv
  <2>4. \A t, u \in All' : Operator[t] = Operator[u] => t = u
    BY <1>8, <2>1 DEF DiverseInv, OperatorsOf
  <2>5. \A c \in Come' : \E t \in All' : Operator[t] = Operator[c] /\ (t = c \/ Before(t, c))
    BY <1>5, <2>1 DEF DiverseInv
  <2>6. All' \subseteq Come'
    BY <1>5, <2>1 DEF DiverseInv
  <2>7. OperatorsOf(All)' = OperatorsOf(All')
    BY DEF OperatorsOf
  <2> QED
    BY <1>5, <1>7, <2>3, <2>4, <2>5, <2>6, <2>7 DEF DiverseInv
<1>9. CASE Operator[s] \in OperatorsOf(All)
  <2>1. chosen' = chosen /\ All' = All
    BY <1>2, <1>5, <1>9
  <2>2. PICK t \in All : Operator[t] = Operator[s]
    BY <1>9 DEF OperatorsOf
  <2>3. Before(t, s)
    BY <1>6, <2>2 DEF DiverseInv
  <2>4. OperatorsOf(All)' = OperatorsOf(All)
    BY <2>1 DEF OperatorsOf
  <2>5. \A c \in Come' : \E u \in All : Operator[u] = Operator[c] /\ (u = c \/ Before(u, c))
    BY <1>5, <2>2, <2>3 DEF DiverseInv
  <2> QED
    BY <1>5, <1>7, <2>1, <2>4, <2>5 DEF DiverseInv
<1> QED
  BY <1>5, <1>8, <1>9

\* Between the passes.
LEMMA DiverseEnds ==
  ASSUME TimeAssumption, TypeOK, MeasuredInv, PassInv, DiverseInv, Over,
         measured' = measured, chosen' = chosen, left' = Healthy
  PROVE  PassInv' /\ FillInv'
<1>1. /\ Healthy' = Healthy /\ All' = All /\ OperatorsOf(All)' = OperatorsOf(All)
      /\ OperatorsOf(Healthy)' = OperatorsOf(Healthy)
      /\ \A t, u : Before(t, u)' <=> Before(t, u)
  BY OrderStays DEF All, OperatorsOf
<1>2. Come' = {}
  BY <1>1 DEF Come
<1>3. PassInv'
  BY <1>1, <1>2 DEF PassInv, First
<1>4. ASSUME NEW s \in Healthy \ All, NEW t \in All, Operator[s] = Operator[t]
      PROVE  Before(t, s)
  <2>1. CASE s \in left
    BY <1>4, <2>1 DEF DiverseInv, PassInv
  <2>2. CASE s \in Come
    BY <1>4, <2>2 DEF DiverseInv
  <2> QED
    BY <2>1, <2>2 DEF Come
<1>5. Len(chosen) \in Nat /\ Count \in Nat /\ Count > 0 /\ Len(chosen) <= Count
  BY DEF TypeOK, TimeAssumption
<1>6. left = {} => OperatorsOf(All) = OperatorsOf(Healthy)
  BY DEF Come, DiverseInv, OperatorsOf, PassInv
<1>7. Len(chosen) >= Count => Len(chosen) = Count /\ Cardinality(OperatorsOf(All)) = Count
  BY <1>5 DEF DiverseInv
<1>8. chosen = <<>> => Healthy = {}
  <2> SUFFICES ASSUME chosen = <<>> PROVE Healthy = {}
    OBVIOUS
  <2>1. Len(chosen) = 0
    OBVIOUS
  <2>2. left = {}
    BY <1>5, <2>1 DEF Over
  <2> QED
    BY <2>2, NothingChosen DEF Come, DiverseInv
<1>9. IsFiniteSet(OperatorsOf(All)) /\ Cardinality(OperatorsOf(All)) <= Count
  BY <1>5 DEF DiverseInv
<1> QED
  BY <1>1, <1>2, <1>3, <1>4, <1>6, <1>7, <1>8, <1>9 DEF FillInv, Over

\* The second pass.
LEMMA FillStep ==
  ASSUME TimeAssumption, TypeOK, MeasuredInv, PassInv, FillInv, ~Over, Take(IsNewServer(Coming))
  PROVE  PassInv' /\ FillInv' /\ chosen' \in Seq(Server) /\ Len(chosen') <= Count
<1> DEFINE s == Nearest(left)
<1>1. measured' = measured /\ left' = left \ {s}
  BY DEF Take, Coming
<1>2. chosen' = IF s \notin All THEN Append(chosen, s) ELSE chosen
  BY DEF Take, Coming, IsNewServer, All
<1> HIDE DEF s
<1>3. chosen # <<>>
  BY DEF FillInv, PassInv, Over
<1>4. /\ PassInv'
      /\ chosen' \in Seq(Server) /\ Len(chosen') <= Count
      /\ s \in Healthy /\ Come' = Come \cup {s}
      /\ \A t \in left' : Before(s, t)
      /\ chosen' = chosen => All' = All
      /\ chosen' = Append(chosen, s) => All' = All \cup {s} /\ chosen' # <<>>
  BY <1>1, <1>2, <1>3, PassStep DEF s
<1>5. /\ Healthy' = Healthy /\ OperatorsOf(Healthy)' = OperatorsOf(Healthy)
      /\ \A t, u : Before(t, u)' <=> Before(t, u)
  BY <1>1, OrderStays DEF OperatorsOf
<1>6. CASE s \notin All
  <2>1. All' = All \cup {s} /\ chosen' # <<>>
    BY <1>2, <1>4, <1>6
  <2>2. OperatorsOf(All) = OperatorsOf(Healthy)
    BY DEF FillInv, Over, TypeOK, TimeAssumption
  <2>3. OperatorsOf(All)' = OperatorsOf(All)
    BY <1>4, <2>1, <2>2 DEF OperatorsOf
  <2>4. ASSUME NEW u \in Healthy \ All', NEW t \in All', Operator[u] = Operator[t]
        PROVE  Before(t, u)
    <3>1. CASE t \in All
      BY <2>1, <2>4, <3>1 DEF FillInv
    <3>2. CASE t = s
      BY <1>1, <1>4, <2>1, <3>2 DEF Come, FillInv
    <3> QED
      BY <2>1, <3>1, <3>2
  <2>5. Come' \subseteq All'
    BY <1>4, <2>1 DEF FillInv
  <2> QED
    BY <1>4, <1>5, <2>1, <2>2, <2>3, <2>4, <2>5 DEF FillInv
<1>7. CASE s \in All
  <2>1. chosen' = chosen /\ All' = All /\ OperatorsOf(All)' = OperatorsOf(All)
    BY <1>2, <1>4, <1>7 DEF OperatorsOf
  <2> QED
    BY <1>4, <1>5, <1>7, <2>1 DEF FillInv
<1> QED
  BY <1>4, <1>6, <1>7

-----------------------------------------------------------------------------
(* The choice *)

LEMMA FitIsHealthy ==
  ASSUME TypeOK, MeasuredInv
  PROVE  {s \in Server : Fit(s)} = Healthy
<1> SUFFICES ASSUME NEW s \in Server PROVE Fit(s) <=> Eligible(s)
  BY DEF Healthy
<1>1. /\ measured[s].good \in 0 .. 2 /\ measured[s].strata \subseteq {1, 2}
      /\ measured[s].good > 0 => measured[s].strata # {}
  BY DEF TypeOK, Measured, MeasuredInv, Sane, MinGoodSamples
<1>2. measured[s].good >= 2 => (2 \notin measured[s].strata <=> measured[s].strata = {1})
  BY <1>1
<1> QED
  BY <1>1, <1>2 DEF Fit, Eligible, MinGoodSamples

LEMMA BeforeIsNotFarther ==
  ASSUME TimeAssumption, TypeOK, MeasuredInv, NEW s \in Healthy, NEW t \in Healthy, Before(t, s)
  PROVE  ~Nearer(s, t)
<1>1. \A u \in {s, t} : /\ measured[u].nearest \in 0 .. MaxDelay
                        /\ Position(u) \in Nat
  BY HealthyHasKey DEF Delay
<1> QED
  BY <1>1 DEF Before, Nearer, Key, TimeAssumption

LEMMA PassesChooseBest ==
  ASSUME TimeAssumption, TypeOK, MeasuredInv, PassInv, FillInv, Over
  PROVE  BestChoice
<1>1. /\ IsFiniteSet(Healthy) /\ IsFiniteSet(OperatorsOf(Healthy))
      /\ Cardinality(Healthy) \in Nat /\ Cardinality(OperatorsOf(Healthy)) \in Nat
      /\ Cardinality(All) \in Nat /\ Cardinality(OperatorsOf(All)) \in Nat
      /\ Cardinality(All) <= Cardinality(Healthy)
      /\ Cardinality(OperatorsOf(All)) <= Cardinality(OperatorsOf(Healthy))
  <2>1. IsFiniteSet(Healthy) /\ IsFiniteSet(OperatorsOf(Healthy))
    <3>1. Healthy \in SUBSET Server
      BY DEF Healthy
    <3> QED
      BY <3>1, HealthyFinite, OperatorsFinite
  <2>2. OperatorsOf(All) \in SUBSET OperatorsOf(Healthy) /\ All \in SUBSET Healthy
    BY DEF OperatorsOf, PassInv
  <2>3. Cardinality(All) <= Cardinality(Healthy)
    BY <2>1, <2>2, FS_Subset
  <2>4. Cardinality(OperatorsOf(All)) <= Cardinality(OperatorsOf(Healthy))
    BY <2>1, <2>2, FS_Subset
  <2> QED
    BY <2>1, <2>3, <2>4, FS_CardinalityType DEF PassInv, FillInv
<1>2. Count \in Nat /\ Len(chosen) \in Nat /\ Len(chosen) <= Count /\ Cardinality(All) = Len(chosen)
  BY DEF TypeOK, TimeAssumption, PassInv
<1>3. Cardinality(All) = Smaller(Count, Cardinality(Healthy))
  <2>1. CASE left = {}
    <3>1. All = Healthy
      BY <2>1 DEF Come, FillInv, PassInv
    <3> QED
      BY <1>1, <1>2, <3>1 DEF Smaller
  <2>2. CASE Len(chosen) >= Count
    BY <1>1, <1>2, <2>2 DEF Smaller
  <2> QED
    BY <2>1, <2>2 DEF Over
<1>4. Cardinality(OperatorsOf(All)) = Smaller(Count, Cardinality(OperatorsOf(Healthy)))
  BY <1>1, <1>2 DEF Smaller, FillInv
<1>5. \A s \in Healthy : ~Nearer(s, chosen[1])
  <2> SUFFICES ASSUME NEW s \in Healthy PROVE ~Nearer(s, chosen[1])
    OBVIOUS
  <2>1. chosen # <<>>
    BY DEF FillInv
  <2>2. chosen[1] \in Healthy
    <3>1. 1 \in DOMAIN chosen
      BY <2>1 DEF TypeOK
    <3> QED
      BY <3>1 DEF PassInv, All, Range
  <2>3. CASE s = chosen[1]
    <3>1. measured[s].nearest \in Nat
      BY HealthyHasKey DEF Delay, TimeAssumption
    <3> QED
      BY <2>3, <3>1 DEF Nearer
  <2>4. CASE s # chosen[1]
    BY <2>1, <2>2, <2>4, BeforeIsNotFarther DEF PassInv, First
  <2> QED
    BY <2>3, <2>4
<1>6. \A s \in Healthy \ All, t \in All : Operator[s] = Operator[t] => ~Nearer(s, t)
  BY BeforeIsNotFarther DEF FillInv, PassInv
<1> QED
  BY <1>3, <1>4, <1>5, <1>6, FitIsHealthy DEF BestChoice, All, PassInv

-----------------------------------------------------------------------------
(* The invariant *)

SourcesInv == TypeOK /\ ChoiceInv

LEMMA InitSources == TimeAssumption /\ Init => SourcesInv
<1> SUFFICES ASSUME TimeAssumption, Init PROVE SourcesInv
  OBVIOUS
<1>1. Unmeasured \in Measured /\ Sane(Unmeasured)
  BY DEF TimeAssumption, Unmeasured, Measured, Sane, MinGoodSamples
<1>2. TypeOK
  BY <1>1 DEF Init, TypeOK, TimeAssumption, Stage, Text
<1>3. ChoiceInv
  BY <1>1 DEF Init, ChoiceInv, MeasuredInv, ChoiceIsBest, Decided
<1> QED
  BY <1>2, <1>3 DEF SourcesInv

\* The choice stays, while nothing it is made of changes.
LEMMA BestStays ==
  ASSUME measured' = measured, chosen' = chosen
  PROVE  BestChoice => BestChoice'
  BY DEF BestChoice, Fit, Nearer, OperatorsOf

LEMMA MeasureStep ==
  ASSUME TimeAssumption, SourcesInv, NEW s \in Server, Unresolved(s) \/ Query(s)
  PROVE  SourcesInv'
<1> USE DEF SourcesInv
<1>1. /\ stage = "measure" /\ outcome = "none"
      /\ UNCHANGED <<stage, runs, chosen, left, sources, bak, prior, loaded, outcome>>
  BY DEF Unresolved, Query, Disk, ChoiceInv
<1>2. measured[s] \in Measured /\ Sane(measured[s])
  BY DEF TypeOK, ChoiceInv, MeasuredInv
<1>3. PICK m : m \in Measured /\ Sane(m) /\ measured' = [measured EXCEPT ![s] = m]
  <2>1. CASE Unresolved(s)
    <3> DEFINE m == [measured[s] EXCEPT !.sent = Samples]
    <3>1. measured' = [measured EXCEPT ![s] = m]
      BY <2>1 DEF Unresolved
    <3>2. m \in Measured /\ Sane(m)
      BY <1>2 DEF Measured, Sane, TimeAssumption
    <3> QED
      BY <3>1, <3>2
  <2>2. CASE Query(s)
    <3>1. measured[s].sent < Samples
      BY <2>2 DEF Query
    <3>2. PICK m \in Reply(measured[s]) : measured' = [measured EXCEPT ![s] = m]
      BY <2>2 DEF Query
    <3> QED
      BY <1>2, <3>1, <3>2, ReplyType, ReplySane
  <2> QED
    BY <2>1, <2>2
<1>4. TypeOK'
  BY <1>1, <1>3 DEF TypeOK
<1>5. MeasuredInv'
  BY <1>3 DEF TypeOK, ChoiceInv, MeasuredInv
<1>6. ChoiceIsBest'
  BY <1>1 DEF ChoiceIsBest, Decided
<1> QED
  BY <1>1, <1>4, <1>5, <1>6 DEF ChoiceInv

LEMMA PassSteps ==
  ASSUME TimeAssumption, SourcesInv, Rank \/ Diversify \/ Fill \/ Choose
  PROVE  SourcesInv'
<1> USE DEF SourcesInv
<1>1. /\ measured' = measured /\ MeasuredInv /\ MeasuredInv'
      /\ stage # "idle" /\ outcome = "none" /\ Healthy' = Healthy
      /\ UNCHANGED <<runs, sources, bak, prior, loaded>>
  BY OrderStays DEF Rank, Diversify, Fill, Choose, Take, Disk, ChoiceInv
<1>2. CASE Rank
  <2>1. stage' = "diverse" /\ chosen = <<>> /\ chosen' = <<>> /\ left' = Healthy /\ outcome' = outcome
    BY <1>2 DEF Rank, ChoiceInv
  <2>2. All' = {} /\ Come' = {} /\ OperatorsOf(All)' = {}
    BY <1>1, <2>1 DEF All, Range, Come, OperatorsOf
  <2>3. PassInv' /\ DiverseInv'
    BY <1>1, <2>1, <2>2, FS_EmptySet DEF PassInv, DiverseInv
  <2>4. TypeOK'
    BY <1>1, <2>1 DEF TypeOK, Stage, Healthy
  <2> QED
    BY <1>1, <2>1, <2>3, <2>4 DEF ChoiceInv, ChoiceIsBest, Decided
<1>3. CASE Diversify /\ ~Over
  <2>1. stage = "diverse" /\ stage' = stage /\ outcome' = outcome /\ Take(IsNewOperator(Coming))
    BY <1>3 DEF Diversify, Take
  <2>2. PassInv' /\ DiverseInv' /\ chosen' \in Seq(Server) /\ Len(chosen') <= Count
    BY <1>1, <1>3, <2>1, DiverseStep DEF ChoiceInv
  <2>3. TypeOK'
    BY <1>1, <2>1, <2>2 DEF TypeOK, Take
  <2> QED
    BY <1>1, <2>1, <2>2, <2>3 DEF ChoiceInv, ChoiceIsBest, Decided
<1>4. CASE Diversify /\ Over
  <2>1. /\ stage = "diverse" /\ stage' = "fill" /\ outcome' = outcome
        /\ chosen' = chosen /\ left' = Healthy
    BY <1>4 DEF Diversify
  <2>2. PassInv' /\ FillInv'
    BY <1>1, <1>4, <2>1, DiverseEnds DEF ChoiceInv
  <2>3. TypeOK'
    BY <1>1, <2>1 DEF TypeOK, Stage, Healthy
  <2> QED
    BY <1>1, <2>1, <2>2, <2>3 DEF ChoiceInv, ChoiceIsBest, Decided
<1>5. CASE Fill
  <2>1. /\ stage = "fill" /\ stage' = stage /\ outcome' = outcome /\ Take(IsNewServer(Coming)) /\ ~Over
    BY <1>5 DEF Fill, Take
  <2>2. PassInv' /\ FillInv' /\ chosen' \in Seq(Server) /\ Len(chosen') <= Count
    BY <1>1, <2>1, FillStep DEF ChoiceInv
  <2>3. TypeOK'
    BY <1>1, <2>1, <2>2 DEF TypeOK, Take
  <2> QED
    BY <1>1, <2>1, <2>2, <2>3 DEF ChoiceInv, ChoiceIsBest, Decided
<1>6. CASE Choose
  <2>1. /\ stage = "fill" /\ Over /\ chosen' = chosen /\ left' = left
        /\ \/ stage' = "idle" /\ outcome' \in {"no_server", "preview"}
           \/ stage' = "installable" /\ outcome' = outcome
    BY <1>6 DEF Choose, End
  <2>2. BestChoice'
    BY <1>1, <2>1, PassesChooseBest, BestStays DEF ChoiceInv
  <2>3. TypeOK'
    BY <1>1, <2>1 DEF TypeOK, Stage, Decided
  <2> QED
    BY <1>1, <2>1, <2>2, <2>3 DEF ChoiceInv, ChoiceIsBest
<1> QED
  BY <1>2, <1>3, <1>4, <1>5, <1>6

\* From the choice on, the measurements and the choice stay until the next run.
LEMMA InstallSteps ==
  ASSUME TimeAssumption, SourcesInv, Blocked \/ Install \/ WriteAtomic \/ Reload
  PROVE  SourcesInv'
<1> USE DEF SourcesInv
<1>1. /\ UNCHANGED <<runs, measured, chosen, left>>
      /\ stage \in Decided /\ outcome = "none"
      /\ \/ stage' = "idle" /\ outcome' \in {"blocked", "installed"}
         \/ stage' \in Decided /\ outcome' = outcome
  BY DEF Blocked, Install, WriteAtomic, Truncate, Copy, Replace, Reload, End, ChoiceInv, Decided
<1>2. /\ {sources', prior', loaded'} \subseteq {None} \cup Text
      /\ bak' \in {None, Torn} \cup Text
  BY DEF Blocked, Install, WriteAtomic, Truncate, Copy, Replace, Reload, TypeOK, Text, Disk
<1>3. TypeOK'
  BY <1>1, <1>2 DEF TypeOK, Stage
<1>4. MeasuredInv' /\ BestChoice'
  BY <1>1, OrderStays, BestStays DEF ChoiceInv, ChoiceIsBest
<1> QED
  BY <1>1, <1>3, <1>4 DEF ChoiceInv, ChoiceIsBest, Decided

LEMMA SourcesStep == TimeAssumption /\ SourcesInv /\ [Next]_vars => SourcesInv'
<1> SUFFICES ASSUME TimeAssumption, SourcesInv, [Next]_vars PROVE SourcesInv'
  OBVIOUS
<1> USE DEF SourcesInv
<1>1. CASE UNCHANGED <<stage, runs, measured, chosen, left, outcome>>
           /\ {sources', bak', prior', loaded'} \subseteq {sources, bak, prior, loaded}
           /\ {sources', prior', loaded'} \subseteq {sources, prior, loaded}
  <2>1. TypeOK'
    BY <1>1 DEF TypeOK
  <2>2. /\ Healthy' = Healthy /\ All' = All /\ Come' = Come /\ MeasuredInv'
        /\ OperatorsOf(All)' = OperatorsOf(All) /\ OperatorsOf(Healthy)' = OperatorsOf(Healthy)
        /\ \A s, t : Before(s, t)' <=> Before(s, t)
    BY <1>1, OrderStays DEF All, Come, OperatorsOf, ChoiceInv, Healthy, Eligible
  <2>3. PassInv => PassInv'
    BY <1>1, <2>2 DEF PassInv, First
  <2>4. (DiverseInv => DiverseInv') /\ (FillInv => FillInv')
    BY <1>1, <2>2 DEF DiverseInv, FillInv
  <2>5. BestChoice => BestChoice'
    BY <1>1, BestStays
  <2> QED
    BY <1>1, <2>1, <2>2, <2>3, <2>4, <2>5 DEF ChoiceInv, ChoiceIsBest
<1>2. CASE Begin
  <2>1. /\ stage' = "measure" /\ runs' = runs + 1 /\ runs < MaxRuns /\ chosen' = <<>> /\ left' = {}
        /\ measured' = [s \in Server |-> Unmeasured] /\ outcome' = "none"
        /\ UNCHANGED <<sources, bak, prior, loaded>>
    BY <1>2 DEF Begin, Disk
  <2>2. Unmeasured \in Measured /\ Sane(Unmeasured)
    BY DEF TimeAssumption, Unmeasured, Measured, Sane, MinGoodSamples
  <2>3. TypeOK'
    BY <2>1, <2>2 DEF TypeOK, TimeAssumption, Stage
  <2>4. MeasuredInv'
    BY <2>1, <2>2 DEF MeasuredInv
  <2> QED
    BY <2>1, <2>3, <2>4 DEF ChoiceInv, ChoiceIsBest, Decided
<1>3. CASE Fail
  <2>1. /\ stage' = "idle" /\ outcome' = "failed"
        /\ UNCHANGED <<runs, measured, chosen, left, sources, bak, prior, loaded>>
    BY <1>3 DEF Fail, End, Disk
  <2>2. TypeOK'
    BY <2>1 DEF TypeOK, Stage
  <2>3. MeasuredInv'
    BY <2>1, OrderStays DEF ChoiceInv
  <2> QED
    BY <2>1, <2>2, <2>3 DEF ChoiceInv, ChoiceIsBest, Decided
<1>4. CASE UNCHANGED vars
  BY <1>1, <1>4 DEF vars
<1>5. CASE ChronydStarts
  BY <1>1, <1>5 DEF ChronydStarts
<1> QED
  BY <1>2, <1>3, <1>4, <1>5, MeasureStep, PassSteps, InstallSteps DEF Next

\* Every variable has its type: nobody is asked more often than he should be,
\* and no more servers are chosen than were asked for.
THEOREM SourcesType == ASSUME TimeAssumption PROVE Spec => []TypeOK
<1>1. SourcesInv => TypeOK
  BY DEF SourcesInv
<1>2. Init => SourcesInv
  BY InitSources
<1>3. SourcesInv /\ [Next]_vars => SourcesInv'
  BY SourcesStep
<1> QED
  BY <1>1, <1>2, <1>3, PTL DEF Spec

\* The two passes choose the best servers, for any candidates, any operators and
\* any answers.
THEOREM BestSources == ASSUME TimeAssumption PROVE Spec => []ChoiceIsBest
<1>1. SourcesInv => ChoiceIsBest
  BY DEF SourcesInv, ChoiceInv
<1>2. Init => SourcesInv
  BY InitSources
<1>3. SourcesInv /\ [Next]_vars => SourcesInv'
  BY SourcesStep
<1> QED
  BY <1>1, <1>2, <1>3, PTL DEF Spec

-----------------------------------------------------------------------------
(* The files *)

\* Before the file is replaced its copy is complete; afterwards the file is
\* that of the run, and chronyd has it once the run reports success.
KeptInv ==
  /\ prior # None => prior \in {sources, bak}
  /\ stage \in {"backup", "copy"} => prior = sources
  /\ stage = "replace" => prior = None \/ prior = bak
  /\ stage = "reload" => sources = runs
  /\ outcome = "installed" => stage = "idle" /\ sources = runs /\ loaded = runs

LEMMA InitKept == Init => KeptInv
  BY DEF Init, KeptInv

LEMMA KeptStep == KeptInv /\ [Next]_vars => KeptInv'
<1> SUFFICES ASSUME KeptInv, [Next]_vars PROVE KeptInv'
  OBVIOUS
<1> USE DEF KeptInv, End, Disk
<1>1. CASE UNCHANGED vars
  BY <1>1 DEF vars
<1>2. CASE Begin
  BY <1>2 DEF Begin
<1>3. CASE \E s \in Server : Unresolved(s) \/ Query(s)
  <2>1. UNCHANGED <<stage, runs, sources, bak, prior, loaded, outcome>>
    BY <1>3 DEF Unresolved, Query
  <2> QED
    BY <2>1
<1>4. CASE Rank \/ Diversify \/ Fill \/ Choose
  <2>1. UNCHANGED <<runs, sources, bak, prior, loaded>>
    BY <1>4 DEF Rank, Diversify, Fill, Take, Choose
  <2>2. \/ stage' = "idle" /\ outcome' \in {"no_server", "preview"}
        \/ /\ stage' \in {"diverse", "fill", "installable"} /\ outcome' = outcome
           /\ stage \in {"measure", "diverse", "fill"}
    BY <1>4 DEF Rank, Diversify, Fill, Take, Choose
  <2> QED
    BY <2>1, <2>2
<1>5. CASE Blocked \/ Fail
  BY <1>5 DEF Blocked, Fail
<1>6. CASE Install
  BY <1>6 DEF Install
<1>7. CASE WriteAtomic
  BY <1>7 DEF WriteAtomic, Truncate, Copy, Replace
<1>8. CASE Reload
  BY <1>8 DEF Reload
<1>9. CASE ChronydStarts
  BY <1>9 DEF ChronydStarts
<1> QED
  BY <1>1, <1>2, <1>3, <1>4, <1>5, <1>6, <1>7, <1>8, <1>9 DEF Next

\* What was installed before a run is whole in the file or in its copy at every
\* step, and a run that reports success had chronyd read its own sources.
THEOREM SourcesKept == Spec => []PreviousIsKept
<1>1. KeptInv => PreviousIsKept
  BY DEF KeptInv, PreviousIsKept
<1> QED
  BY <1>1, InitKept, KeptStep, PTL DEF Spec
=============================================================================
