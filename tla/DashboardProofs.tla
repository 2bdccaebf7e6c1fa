--------------------------- MODULE DashboardProofs ---------------------------
(***************************************************************************)
(* Theorems about what GET /alerts, /stats and /status answer and what the *)
(* panels make of it, for all rows, limits, buckets and times.             *)
(***************************************************************************)
EXTENDS Dashboard, FiniteSetTheorems, TLAPS

-----------------------------------------------------------------------------
(* Two cells of one service and bucket are the same.                       *)
LEMMA OneCell ==
    ASSUME NEW rows, NEW c \in Cells(rows)
    PROVE  c = [service |-> c.service, t |-> c.t,
                count |-> Cardinality({x \in rows : x.service = c.service /\ Floor(x.at) = c.t})]
<1>1. PICK r \in rows : c = CellOf(rows, r)
  BY DEF Cells
<1>2. c.service = r.service /\ c.t = Floor(r.at)
  BY <1>1 DEF CellOf
<1>3. QED
  BY <1>1, <1>2 DEF CellOf

LEMMA ChartOfCells ==
    ASSUME NEW rows, NEW chart, chart = PivotStats(Cells(rows))
    PROVE  /\ \A r \in rows : Floor(r.at) \in DOMAIN chart /\ r.service \in DOMAIN chart[Floor(r.at)]
           /\ \A t \in DOMAIN chart : \A s \in DOMAIN chart[t] :
                 chart[t][s] = Cardinality({r \in rows : r.service = s /\ Floor(r.at) = t})
<1> DEFINE stats == Cells(rows)
           At(t, s) == {c \in stats : c.t = t /\ c.service = s}
           Of(t, s) == {r \in rows : r.service = s /\ Floor(r.at) = t}
<1>1. chart = [t \in {c.t : c \in stats} |->
                 [s \in {c.service : c \in stats} |->
                    IF At(t, s) = {} THEN 0 ELSE (CHOOSE c \in At(t, s) : TRUE).count]]
  BY DEF PivotStats
<1> HIDE DEF stats, At
<1>2. ASSUME NEW r \in rows
      PROVE  Floor(r.at) \in {c.t : c \in stats} /\ r.service \in {c.service : c \in stats}
  <2>1. CellOf(rows, r) \in stats
    BY DEF stats, Cells
  <2>2. CellOf(rows, r).t = Floor(r.at) /\ CellOf(rows, r).service = r.service
    BY DEF CellOf
  <2>3. QED
    BY <2>1, <2>2
<1>3. ASSUME NEW t \in {c.t : c \in stats}, NEW s \in {c.service : c \in stats}
      PROVE  chart[t][s] = Cardinality(Of(t, s))
  <2>0. chart[t][s] = IF At(t, s) = {} THEN 0 ELSE (CHOOSE c \in At(t, s) : TRUE).count
    BY <1>1, <1>3
  <2>1. CASE At(t, s) = {}
    <3>1. ASSUME NEW r \in Of(t, s) PROVE FALSE
      <4>1. CellOf(rows, r) \in At(t, s)
        BY <3>1 DEF At, stats, Cells, CellOf
      <4>2. QED
        BY <4>1, <2>1
    <3>2. Of(t, s) = {}
      BY <3>1
    <3>3. chart[t][s] = 0
      BY <2>0, <2>1
    <3>4. QED
      BY <3>2, <3>3, FS_EmptySet
  <2>2. CASE At(t, s) # {}
    <3>1. PICK c : c = CHOOSE d \in At(t, s) : TRUE
      OBVIOUS
    <3>2. c \in At(t, s)
      BY <2>2, <3>1
    <3>3. c.count = Cardinality(Of(t, s))
      <4>1. c \in Cells(rows) /\ c.t = t /\ c.service = s
        BY <3>2 DEF At, stats
      <4>2. c = [service |-> c.service, t |-> c.t,
                 count |-> Cardinality({x \in rows : x.service = c.service /\ Floor(x.at) = c.t})]
        BY <4>1, OneCell
      <4>3. c.count = Cardinality({x \in rows : x.service = c.service /\ Floor(x.at) = c.t})
        BY <4>2
      <4>4. QED
        BY <4>1, <4>3
    <3>4. chart[t][s] = c.count
      BY <2>0, <2>2, <3>1
    <3>5. QED
      BY <3>3, <3>4
  <2>3. QED
    BY <2>1, <2>2
<1>4. DOMAIN chart = {c.t : c \in stats}
  BY <1>1
<1>5. \A t \in DOMAIN chart : DOMAIN chart[t] = {c.service : c \in stats}
  BY <1>1
<1>6. QED
  BY <1>2, <1>3, <1>4, <1>5

(* The chart has every row that is asked for in the bucket of its time,    *)
(* counted once, a number for every service and time it draws and 0 where  *)
(* there is no row (dashboard.service.ts:48-77, chart.ts:13-31).           *)
THEOREM ChartOfAllRows ==
    ASSUME NEW log, NEW service, NEW from, NEW moment,
           NEW rows, rows = InRange(log, service, from),
           NEW chart, chart = PivotStats(Stats(log, service, from, moment))
    PROVE  /\ \A r \in rows : Floor(r.at) \in DOMAIN chart /\ r.service \in DOMAIN chart[Floor(r.at)]
           /\ \A t \in DOMAIN chart : \A s \in DOMAIN chart[t] :
                 chart[t][s] = Cardinality({r \in rows : r.service = s /\ Floor(r.at) = t})
<1>1. chart = PivotStats(Cells(rows))
  BY DEF Stats
<1>2. QED
  BY <1>1, ChartOfCells

-----------------------------------------------------------------------------
(* The sum of the tile.  A recursive function over the subsets of a finite  *)
(* set has one solution, since a smallest subset on which two differ has a  *)
(* smaller one; the one here is the number of rows behind a set of cells.   *)

(* A family of subsets of a finite set has a smallest one.                 *)
LEMMA HasSmallest ==
    ASSUME NEW S, IsFiniteSet(S), NEW T \in SUBSET SUBSET S, T # {}
    PROVE  \E x \in T : \A y \in T : y \subseteq x => y = x
<1>1. IsWellFoundedOn(StrictSubsetOrdering(S), SUBSET S)
  BY FS_StrictSubsetOrderingWellFounded, FS_FiniteSubsetsOfFinite
<1>2. PICK x \in T : \A y \in T : ~(<<y, x>> \in StrictSubsetOrdering(S))
  <2>1. T \subseteq SUBSET S
    OBVIOUS
  <2>2. QED
    BY <1>1, <2>1, WFMin
<1>3. ASSUME NEW y \in T, y \subseteq x, y # x PROVE FALSE
  <2>1. <<y, x>> \in StrictSubsetOrdering(S)
    BY <1>3 DEF StrictSubsetOrdering
  <2>2. QED
    BY <1>2, <2>1
<1>4. QED
  BY <1>3

(* The first cell that is added.                                           *)
First(s) == CHOOSE c \in s : TRUE

(* The sum of counts over the subsets of stats, one cell after another.    *)
IsSum(f, stats) ==
    f = [s \in SUBSET stats |-> IF s = {} THEN 0 ELSE First(s).count + f[s \ {First(s)}]]

LEMMA SumIsUnique ==
    ASSUME NEW stats, IsFiniteSet(stats), NEW f, IsSum(f, stats), NEW g, IsSum(g, stats)
    PROVE  f[stats] = g[stats]
<1> DEFINE Differ == {s \in SUBSET stats : f[s] # g[s]}
<1>1. SUFFICES ASSUME Differ # {} PROVE FALSE
  OBVIOUS
<1>2. PICK s \in Differ : \A y \in Differ : y \subseteq s => y = s
  <2>1. Differ \in SUBSET SUBSET stats
    OBVIOUS
  <2> HIDE DEF Differ
  <2>2. QED
    BY <1>1, <2>1, HasSmallest
<1>3. CASE s = {}
  <2>1. f[{}] = 0 /\ g[{}] = 0
    BY DEF IsSum
  <2>2. QED
    BY <1>2, <1>3, <2>1
<1>4. CASE s # {}
  <2> DEFINE c == First(s)
             rest == s \ {c}
  <2>1. c \in s
    BY <1>4 DEF First
  <2>2. rest \in SUBSET stats /\ rest # s
    BY <1>2, <2>1
  <2>3. f[rest] = g[rest]
    BY <1>2, <2>2
  <2>4. f[s] = c.count + f[rest] /\ g[s] = c.count + g[rest]
    <3>1. s \in SUBSET stats
      BY <1>2
    <3>2. QED
      BY <1>4, <3>1, Zenon DEF IsSum
  <2>5. QED
    BY <1>2, <2>3, <2>4
<1>5. QED
  BY <1>3, <1>4

LEMMA SumOfCounts ==
    ASSUME NEW stats, IsFiniteSet(stats), NEW g, IsSum(g, stats)
    PROVE  TotalErrors(stats) = g[stats]
<1> DEFINE f == CHOOSE h : IsSum(h, stats)
<1>1. IsSum(f, stats)
  OBVIOUS
<1>2. f[stats] = g[stats]
  BY <1>1, SumIsUnique
<1>3. TotalErrors(stats) = f[stats]
  BY DEF TotalErrors, MapThenSumSet, MapThenFoldSet, IsSum, First
<1>4. QED
  BY <1>2, <1>3

LEMMA FiniteCells ==
    ASSUME NEW rows, IsFiniteSet(rows)
    PROVE  IsFiniteSet(Cells(rows))
<1> DEFINE f == [r \in rows |-> CellOf(rows, r)]
<1>1. f \in Surjection(rows, Cells(rows))
  BY DEF Surjection, Cells
<1>2. QED
  BY <1>1, FS_Surjection

LEMMA DisjointUnion ==
    ASSUME NEW S, IsFiniteSet(S), NEW T, IsFiniteSet(T), S \intersect T = {}
    PROVE  Cardinality(S \union T) = Cardinality(S) + Cardinality(T)
<1>1. Cardinality(S \union T) = Cardinality(S) + Cardinality(T) - Cardinality(S \intersect T)
  BY FS_Union
<1>2. Cardinality(S) \in Nat /\ Cardinality(T) \in Nat 
  BY FS_CardinalityType
<1>3. Cardinality(S \intersect T) = 0
  BY FS_EmptySet
<1>4. QED
  BY <1>1, <1>2, <1>3

(* The tile has every row once: the counts of the cells add up to the rows *)
(* of the range, whatever their services and times (derive.ts:18-23,       *)
(* dashboard.service.ts:48-65).                                            *)
THEOREM TileOfAllRows ==
    ASSUME NEW rows, IsFiniteSet(rows)
    PROVE  TotalErrors(Cells(rows)) = Cardinality(rows)
<1> DEFINE stats == Cells(rows)
           Of(s) == {r \in rows : CellOf(rows, r) \in s}
           g == [s \in SUBSET stats |-> Cardinality(Of(s))]
<1>1. ASSUME NEW c \in stats
      PROVE  c.count = Cardinality(Of({c}))
  <2>1. c = [service |-> c.service, t |-> c.t,
             count |-> Cardinality({x \in rows : x.service = c.service /\ Floor(x.at) = c.t})]
    BY OneCell
  <2>2. ASSUME NEW r \in rows
        PROVE  CellOf(rows, r) = c <=> r.service = c.service /\ Floor(r.at) = c.t
    <3>1. CellOf(rows, r).service = r.service /\ CellOf(rows, r).t = Floor(r.at)
      BY DEF CellOf
    <3>2. ASSUME r.service = c.service, Floor(r.at) = c.t PROVE CellOf(rows, r) = c
      BY <2>1, <3>2 DEF CellOf
    <3>3. QED
      BY <3>1, <3>2
  <2>3. Of({c}) = {x \in rows : x.service = c.service /\ Floor(x.at) = c.t}
    BY <2>2
  <2>4. c.count = Cardinality({x \in rows : x.service = c.service /\ Floor(x.at) = c.t})
    BY <2>1
  <2>5. QED
    BY <2>3, <2>4
<1>2. ASSUME NEW s \in SUBSET stats, s # {}
      PROVE  Cardinality(Of(s)) = First(s).count + Cardinality(Of(s \ {First(s)}))
  <2> DEFINE c == First(s)
             rest == s \ {c}
  <2>1. c \in s /\ c \in stats
    BY <1>2 DEF First
  <2> HIDE DEF c, stats
  <2>2. Of(s) = Of(rest) \union Of({c}) /\ Of(rest) \intersect Of({c}) = {}
    BY <2>1
  <2>3. IsFiniteSet(Of(rest)) /\ IsFiniteSet(Of({c}))
    BY FS_Subset
  <2>4. Cardinality(Of(rest)) \in Nat /\ Cardinality(Of({c})) \in Nat
    BY <2>3, FS_CardinalityType
  <2> HIDE DEF Of, rest, g
  <2>5. Cardinality(Of(s)) = Cardinality(Of(rest)) + Cardinality(Of({c}))
    BY <2>2, <2>3, DisjointUnion
  <2>6. QED
    BY <1>1, <2>1, <2>4, <2>5 DEF c, rest
<1>3. Of({}) = {} /\ Of(stats) = rows
  BY DEF Cells
<1> HIDE DEF stats, Of
<1>4. IsSum(g, stats)
  <2>1. ASSUME NEW s \in SUBSET stats
        PROVE  g[s] = IF s = {} THEN 0 ELSE First(s).count + g[s \ {First(s)}]
    <3>1. CASE s = {}
      BY <1>3, <3>1, FS_EmptySet
    <3>2. CASE s # {}
      <4>1. s \ {First(s)} \in SUBSET stats
        OBVIOUS
      <4>2. g[s] = Cardinality(Of(s)) /\ g[s \ {First(s)}] = Cardinality(Of(s \ {First(s)}))
        BY <4>1
      <4>3. QED
        BY <1>2, <3>2, <4>2
    <3>3. QED
      BY <3>1, <3>2
  <2>2. g = [s \in SUBSET stats |-> g[s]]
    OBVIOUS
  <2> HIDE DEF g
  <2>3. QED
    BY <2>1, <2>2 DEF IsSum
<1>5. TotalErrors(stats) = g[stats]
  <2>1. IsFiniteSet(stats)
    BY FiniteCells DEF stats
  <2> HIDE DEF g
  <2>2. QED
    BY <1>4, <2>1, SumOfCounts
<1>6. g[stats] = Cardinality(rows)
  BY <1>3
<1>7. QED
  BY <1>5, <1>6 DEF stats

-----------------------------------------------------------------------------
(* A row is drawn at most one bucket before its time, never after it       *)
(* (dashboard.service.ts:51).                                              *)
THEOREM BucketHoldsItsRows ==
    ASSUME NEW t \in Int
    PROVE  Floor(t) <= t /\ t < Floor(t) + Bucket
BY ReadAssumption DEF Floor

-----------------------------------------------------------------------------
(* The countdown.                                                          *)

(* TTL rounds to the nearest second, and null stands for 0.                *)
LEMMA TtlOfLock ==
    ASSUME NEW l \in Nat
    PROVE  /\ GetTtl(l) \in Nat \union {None}
           /\ GetTtl(l) = None => l < Sec - Sec \div 2
           /\ GetTtl(l) # None => /\ GetTtl(l) * Sec + (Sec - Sec \div 2) > l
                                  /\ GetTtl(l) * Sec <= l + Sec \div 2
<1> DEFINE half == Sec \div 2
           ttl  == (l + half) \div Sec
<1>1. Sec \in Nat /\ Sec > 0 /\ half \in Nat
  BY ReadAssumption
<1>2. ttl \in Nat /\ ttl * Sec <= l + half /\ l + half < ttl * Sec + Sec
  BY <1>1
<1>3. GetTtl(l) = IF ttl > 0 THEN ttl ELSE None
  BY DEF GetTtl
<1>4. None \notin Int
  BY ReadAssumption
<1> HIDE DEF ttl, half
<1>5. CASE ttl > 0
  <2>1. GetTtl(l) = ttl /\ ttl # None
    BY <1>2, <1>3, <1>4, <1>5
  <2>2. ttl * Sec + (Sec - half) > l
    BY <1>1, <1>2
  <2>3. QED
    BY <1>1, <1>2, <2>1, <2>2 DEF half
<1>6. CASE ttl = 0
  <2>1. GetTtl(l) = None
    BY <1>3, <1>6
  <2>2. l < Sec - half
    BY <1>1, <1>2, <1>6
  <2>3. QED
    BY <2>1, <2>2 DEF half
<1>7. QED
  BY <1>2, <1>5, <1>6

(* Between two answers the countdown follows the browser's clock, rounded   *)
(* up.                                                                     *)
LEMMA Remaining ==
    ASSUME NEW ttl \in Nat, NEW fetchedAt \in Int, NEW at \in Int
    PROVE  LET remaining == CooldownRemaining(ttl, fetchedAt, at) IN
           /\ remaining \in Nat
           /\ remaining * Sec >= ttl * Sec - (at - fetchedAt)
           /\ remaining > 0 => at - fetchedAt < ttl * Sec
<1> DEFINE x == at - fetchedAt - ttl * Sec
           q == x \div Sec
<1>1. Sec \in Nat /\ Sec > 0 /\ ttl # None
  BY ReadAssumption
<1>2. x \in Int
  BY <1>1
<1> HIDE DEF x
<1>3. q \in Int /\ q * Sec <= x /\ x < q * Sec + Sec
  BY <1>1, <1>2
<1>4. CooldownRemaining(ttl, fetchedAt, at) = IF -q > 0 THEN -q ELSE 0
  BY <1>1 DEF CooldownRemaining, x
<1> HIDE DEF q
<1>5. CASE q < 0
  <2>1. (-q) * Sec >= -x
    BY <1>1, <1>2, <1>3
  <2>2. x < 0
    BY <1>1, <1>2, <1>3, <1>5
  <2>3. QED
    BY <1>1, <1>3, <1>4, <1>5, <2>1, <2>2 DEF x
<1>6. CASE q >= 0
  <2>1. x >= 0
    BY <1>1, <1>2, <1>3, <1>6
  <2>2. QED
    BY <1>1, <1>3, <1>4, <1>6, <2>1 DEF x
<1>7. QED
  BY <1>3, <1>5, <1>6
-----------------------------------------------------------------------------
(* The order of the list.                                                  *)

Alerts == AlertRow \union FailureRow

(* Rows that `n` tells apart, as their microseconds and tables do.         *)
Distinct(rows) ==
    rows \subseteq Alerts /\ \A a, b \in rows : a.n = b.n => a = b

LEMMA RowTypes ==
    \A a \in Alerts : a.n \in Nat /\ a.at \in Int /\ a.status \in {"dispatched", "failed"}
BY DEF Alerts, AlertRow, FailureRow

(* Of two rows one is above the other.                                     *)
LEMMA AboveIsTotal ==
    ASSUME NEW rows, Distinct(rows), NEW a \in rows, NEW b \in rows, a # b
    PROVE  Above(a, b) \/ Above(b, a)
<1>1. a.n # b.n /\ a \in Alerts /\ b \in Alerts
  BY DEF Distinct
<1>2. QED
  BY <1>1, RowTypes DEF Above, Newer

LEMMA AboveIsAsymmetric ==
    ASSUME NEW a \in Alerts, NEW b \in Alerts, Above(a, b)
    PROVE  ~Above(b, a)
BY RowTypes DEF Above, Newer

LEMMA AboveIsTransitive ==
    ASSUME NEW a \in Alerts, NEW b \in Alerts, NEW c \in Alerts, Above(a, b), Above(b, c)
    PROVE  Above(a, c)
<1>1. /\ a.n \in Nat /\ b.n \in Nat /\ c.n \in Nat
      /\ a.at \in Int /\ b.at \in Int /\ c.at \in Int
      /\ a.status \in {"dispatched", "failed"} /\ c.status \in {"dispatched", "failed"}
      /\ b.status \in {"dispatched", "failed"}
  BY RowTypes
<1>2. QED
  BY <1>1 DEF Above, Newer

(* Some row is below all others.                                           *)
LEMMA HasLowest ==
    ASSUME NEW rows, IsFiniteSet(rows), Distinct(rows), rows # {}
    PROVE  \E a \in rows : \A b \in rows \ {a} : Above(b, a)
<1> DEFINE Below(a) == {b \in rows : Above(a, b)}
<1> DEFINE Family == {Below(a) : a \in rows}
<1>1. PICK x \in Family : \A y \in Family : y \subseteq x => y = x
  <2>1. Family \in SUBSET SUBSET rows /\ Family # {}
    OBVIOUS
  <2> HIDE DEF Family
  <2>2. QED
    BY <2>1, HasSmallest
<1>2. PICK a \in rows : x = Below(a)
  OBVIOUS
<1>3. ASSUME NEW b \in rows, Above(a, b) PROVE FALSE
  <2>1. Below(b) \subseteq Below(a)
    BY <1>3, AboveIsTransitive DEF Distinct
  <2>2. b \in Below(a) /\ b \notin Below(b)
    BY <1>3, AboveIsAsymmetric DEF Distinct
  <2>3. QED
    BY <1>1, <1>2, <2>1, <2>2
<1>4. QED
  BY <1>3, AboveIsTotal

-----------------------------------------------------------------------------
(* A limited list of one table or of both has as many rows as it may.      *)

LEMMA FiniteMerge ==
    ASSUME NEW rows, IsFiniteSet(rows)
    PROVE  /\ Merge(rows) \subseteq rows /\ IsFiniteSet(Merge(rows))
           /\ Cardinality(Merge(rows)) \in Nat
           /\ \A a : LET higher == {b \in rows : Above(b, a)} IN
                    IsFiniteSet(higher) /\ Cardinality(higher) \in Nat
BY FS_Subset, FS_CardinalityType DEF Merge

(* Find is Merge for rows of one table.                                    *)
LEMMA FindIsMerge ==
    ASSUME NEW rows, Distinct(rows), \A a, b \in rows : a.status = b.status
    PROVE  Find(rows) = Merge(rows)
<1>1. \A a, b \in rows : Newer(b, a) <=> Above(b, a)
  <2>1. \A a \in rows : a.at \in Int /\ a.n \in Nat /\ a.status \in {"dispatched", "failed"}
    BY RowTypes DEF Distinct
  <2>2. QED
    BY <2>1 DEF Above, Newer
<1>2. \A a \in rows : {b \in rows : Newer(b, a)} = {b \in rows : Above(b, a)}
  BY <1>1
<1>3. QED
  BY <1>2 DEF Find, Merge

LEMMA NotTooMany ==
    ASSUME NEW rows, IsFiniteSet(rows), Distinct(rows)
    PROVE  Cardinality(Merge(rows)) <= Limit
<1> DEFINE list == Merge(rows)
<1>1. list \subseteq rows /\ IsFiniteSet(list) /\ Cardinality(list) \in Nat
  BY FiniteMerge
<1>2. CASE list = {}
  BY <1>2, FS_EmptySet, ReadAssumption
<1>3. CASE list # {}
  <2>1. PICK a \in list : \A b \in list \ {a} : Above(b, a)
    <3> HIDE DEF list
    <3>1. Distinct(list)
      BY <1>1 DEF Distinct
    <3>2. QED
      BY <1>1, <1>3, <3>1, HasLowest
  <2> DEFINE higher == {b \in rows : Above(b, a)}
  <2>2. IsFiniteSet(higher) /\ Cardinality(higher) \in Nat /\ Cardinality(higher) < Limit
    <3>1. IsFiniteSet(higher) /\ Cardinality(higher) \in Nat
      BY FS_Subset, FS_CardinalityType
    <3>2. Cardinality(higher) < Limit
      BY <2>1 DEF Merge
    <3>3. QED
      BY <3>1, <3>2
  <2>3. list \ {a} \subseteq higher
    BY <1>1, <2>1
  <2> HIDE DEF list, higher
  <2>4. Cardinality(list \ {a}) = Cardinality(list) - 1 /\ Cardinality(list \ {a}) <= Cardinality(higher)
    BY <1>1, <2>1, <2>2, <2>3, FS_Subset, FS_RemoveElement
  <2>5. QED
    BY <1>1, <2>2, <2>4, ReadAssumption DEF list
<1>4. QED
  BY <1>2, <1>3

LEMMA EnoughAreListed ==
    ASSUME NEW all, IsFiniteSet(all), Distinct(all), Cardinality(all) >= Limit
    PROVE  Cardinality(Merge(all)) >= Limit
<1> DEFINE Fewer == {rows \in SUBSET all : Cardinality(rows) >= Limit /\ ~(Cardinality(Merge(rows)) >= Limit)}
<1>1. SUFFICES ASSUME Fewer # {} PROVE FALSE
  OBVIOUS
<1>2. PICK rows \in Fewer : \A y \in Fewer : y \subseteq rows => y = rows
  <2>1. Fewer \in SUBSET SUBSET all
    OBVIOUS
  <2> HIDE DEF Fewer
  <2>2. QED
    BY <1>1, <2>1, HasSmallest
<1>3. /\ IsFiniteSet(rows) /\ Distinct(rows) /\ Cardinality(rows) \in Nat
      /\ Cardinality(rows) >= Limit /\ ~(Cardinality(Merge(rows)) >= Limit)
  BY <1>2, FS_Subset, FS_CardinalityType DEF Distinct
<1>4. CASE Cardinality(rows) = Limit
  <2>1. ASSUME NEW a \in rows PROVE Cardinality({b \in rows : Above(b, a)}) < Limit
    <3> DEFINE higher == {b \in rows : Above(b, a)}
    <3>1. higher \subseteq rows \ {a}
      BY <1>3, AboveIsAsymmetric DEF Distinct
    <3>2. IsFiniteSet(rows \ {a}) /\ Cardinality(rows \ {a}) = Limit - 1
      BY <1>3, <1>4, FS_RemoveElement
    <3>3. Cardinality(higher) \in Nat /\ Cardinality(higher) <= Limit - 1
      BY <1>3, <3>1, <3>2, FS_Subset, FS_CardinalityType
    <3>4. QED
      BY <3>3, ReadAssumption
  <2>2. Merge(rows) = rows
    BY <2>1 DEF Merge
  <2>3. QED
    BY <1>3, <2>2
<1>5. CASE Cardinality(rows) > Limit
  <2>1. rows # {}
    BY <1>5, FS_EmptySet, ReadAssumption
  <2>2. PICK a \in rows : \A b \in rows \ {a} : Above(b, a)
    BY <1>3, <2>1, HasLowest
  <2> DEFINE rest == rows \ {a}
  <2>3. IsFiniteSet(rest) /\ Cardinality(rest) = Cardinality(rows) - 1
    BY <1>3, FS_RemoveElement
  <2>4. Cardinality(rest) >= Limit /\ rest \in SUBSET all
    BY <1>2, <1>3, <1>5, <2>3, ReadAssumption
  <2>5. Cardinality(Merge(rest)) >= Limit
    BY <1>2, <2>4
  <2>6. Merge(rest) \subseteq Merge(rows)
    <3>1. ASSUME NEW x \in Merge(rest)
          PROVE  {b \in rows : Above(b, x)} = {b \in rest : Above(b, x)}
      BY <1>3, <2>2, <3>1, AboveIsAsymmetric DEF Merge, Distinct
    <3>2. QED
      BY <3>1 DEF Merge
  <2> HIDE DEF rest
  <2>7. Cardinality(Merge(rest)) \in Nat /\ Cardinality(Merge(rest)) <= Cardinality(Merge(rows))
    BY <1>3, <2>3, <2>6, FiniteMerge, FS_Subset
  <2>8. QED
    BY <1>3, <2>5, <2>7, FiniteMerge, ReadAssumption
<1>6. QED
  BY <1>3, <1>4, <1>5, ReadAssumption

LEMMA ListIsFull ==
    ASSUME NEW rows, IsFiniteSet(rows), Distinct(rows), Cardinality(rows) >= Limit
    PROVE  Cardinality(Merge(rows)) = Limit
BY NotTooMany, EnoughAreListed, FiniteMerge, ReadAssumption

(* An alert that is missing from the list was read when the list was full, *)
(* of alerts that all come before it; the two tables may be read at        *)
(* different moments (dashboard.service.ts:114-148).                       *)
THEOREM OnlyOlderAlertsMissing ==
    ASSUME NEW D, IsFiniteSet(D), NEW F, IsFiniteSet(F), Distinct(D \union F),
           NEW list, list = Merge(Find(Dispatched(D)) \union Find(Failed(F))),
           NEW b \in (Dispatched(D) \union Failed(F)) \ list
    PROVE  Cardinality(list) = Limit /\ \A a \in list : Above(a, b)
<1> DEFINE Found == Find(Dispatched(D)) \union Find(Failed(F))
<1>1. /\ IsFiniteSet(Dispatched(D)) /\ Distinct(Dispatched(D))
      /\ IsFiniteSet(Failed(F)) /\ Distinct(Failed(F))
  BY FS_Subset DEF Dispatched, Failed, Distinct
<1>2. Find(Dispatched(D)) = Merge(Dispatched(D)) /\ Find(Failed(F)) = Merge(Failed(F))
  BY <1>1, FindIsMerge DEF Dispatched, Failed
<1>3. IsFiniteSet(Found) /\ Distinct(Found) /\ Found \subseteq D \union F
  <2>1. IsFiniteSet(Found)
    BY <1>1, <1>2, FiniteMerge, FS_Union
  <2>2. Found \subseteq D \union F
    BY DEF Find, Dispatched, Failed
  <2>3. QED
    BY <2>1, <2>2 DEF Distinct
<1>4. b \in D \union F /\ list \subseteq Found /\ list = Merge(Found)
  BY DEF Dispatched, Failed, Merge
<1> HIDE DEF Found
(* Limit rows that were found are above b.                                 *)
<1>5. \E high \in SUBSET Found : Cardinality(high) >= Limit /\ \A x \in high : Above(x, b)
  <2>1. CASE b \in Found
    <3> DEFINE high == {x \in Found : Above(x, b)}
    <3>1. ~(Cardinality(high) < Limit)
      BY <1>4, <2>1 DEF Merge
    <3>2. Cardinality(high) \in Nat
      BY <1>3, FS_Subset, FS_CardinalityType
    <3>3. high \in SUBSET Found /\ Cardinality(high) >= Limit
      BY <3>1, <3>2, ReadAssumption
    <3>4. QED
      BY <3>3
  <2>2. CASE b \notin Found
    <3>1. PICK table \in {Dispatched(D), Failed(F)} : b \in table
      OBVIOUS
    <3>2. IsFiniteSet(table) /\ Distinct(table) /\ Merge(table) \subseteq Found
      BY <1>1, <1>2, <3>1 DEF Found
    <3> DEFINE higher == {x \in table : Above(x, b)}
    <3>3. IsFiniteSet(higher) /\ Cardinality(higher) \in Nat /\ Cardinality(higher) >= Limit
      <4>1. b \notin Merge(table)
        BY <2>2, <3>2
      <4>2. ~(Cardinality(higher) < Limit)
        BY <3>1, <4>1 DEF Merge
      <4>3. IsFiniteSet(higher) /\ Cardinality(higher) \in Nat
        BY <3>2, FS_Subset, FS_CardinalityType
      <4>4. QED
        BY <4>2, <4>3, ReadAssumption
    <3>4. Cardinality(Merge(table)) >= Limit
      <4>1. Cardinality(table) \in Nat /\ Cardinality(higher) <= Cardinality(table)
        BY <3>2, FS_Subset, FS_CardinalityType
      <4>2. Cardinality(table) >= Limit
        BY <3>3, <4>1, ReadAssumption
      <4>3. QED
        BY <3>2, <4>2, EnoughAreListed
    <3>5. ASSUME NEW x \in Merge(table), ~Above(x, b) PROVE FALSE
      <4>1. x \in table /\ x # b /\ Above(b, x)
        BY <2>2, <3>1, <3>2, <3>5, AboveIsTotal, FiniteMerge
      <4>2. higher \subseteq {y \in table : Above(y, x)}
        BY <3>1, <3>2, <4>1, AboveIsTransitive DEF Distinct
      <4>3. Cardinality({y \in table : Above(y, x)}) < Limit
        BY <4>1 DEF Merge
      <4>4. /\ IsFiniteSet({y \in table : Above(y, x)})
            /\ Cardinality({y \in table : Above(y, x)}) \in Nat
        BY <3>2, FS_Subset, FS_CardinalityType
      <4>5. Cardinality(higher) <= Cardinality({y \in table : Above(y, x)})
        BY <4>2, <4>4, FS_Subset
      <4>6. QED
        BY <3>3, <4>3, <4>4, <4>5, ReadAssumption
    <3>6. QED
      BY <3>2, <3>4, <3>5
  <2>3. QED
    BY <2>1, <2>2
<1>6. PICK high \in SUBSET Found : Cardinality(high) >= Limit /\ \A x \in high : Above(x, b)
  BY <1>5
<1>7. IsFiniteSet(high) /\ Cardinality(high) \in Nat
  BY <1>3, FS_Subset, FS_CardinalityType
<1>8. Cardinality(list) = Limit
  <2>1. Cardinality(Found) \in Nat /\ Cardinality(high) <= Cardinality(Found)
    BY <1>3, FS_Subset, FS_CardinalityType
  <2>2. Cardinality(Found) >= Limit
    BY <1>6, <1>7, <2>1, ReadAssumption
  <2>3. QED
    BY <1>3, <1>4, <2>2, ListIsFull
<1>9. ASSUME NEW a \in list, ~Above(a, b) PROVE FALSE
  <2>1. a \in Found /\ a # b /\ Above(b, a)
    BY <1>3, <1>4, <1>9, AboveIsTotal
  <2> DEFINE higher == {x \in Found : Above(x, a)}
  <2>2. high \subseteq higher
    BY <1>3, <1>4, <1>6, <2>1, AboveIsTransitive DEF Distinct
  <2>3. Cardinality(higher) < Limit
    BY <1>4, <1>9 DEF Merge
  <2>4. IsFiniteSet(higher) /\ Cardinality(higher) \in Nat
    BY <1>3, FS_Subset, FS_CardinalityType
  <2>5. Cardinality(high) <= Cardinality(higher)
    BY <2>2, <2>4, FS_Subset
  <2>6. QED
    BY <1>6, <1>7, <2>3, <2>4, <2>5, ReadAssumption
<1>10. QED
  BY <1>8, <1>9

(* Some row is above all others.                                           *)
LEMMA HasHighest ==
    ASSUME NEW rows, IsFiniteSet(rows), Distinct(rows), rows # {}
    PROVE  \E a \in rows : \A b \in rows \ {a} : Above(a, b)
<1> DEFINE Higher(a) == {b \in rows : Above(b, a)}
<1> DEFINE Family == {Higher(a) : a \in rows}
<1>1. PICK x \in Family : \A y \in Family : y \subseteq x => y = x
  <2>1. Family \in SUBSET SUBSET rows /\ Family # {}
    OBVIOUS
  <2> HIDE DEF Family
  <2>2. QED
    BY <2>1, HasSmallest
<1>2. PICK a \in rows : x = Higher(a)
  OBVIOUS
<1>3. ASSUME NEW b \in rows, Above(b, a) PROVE FALSE
  <2>1. Higher(b) \subseteq Higher(a)
    BY <1>3, AboveIsTransitive DEF Distinct
  <2>2. b \in Higher(a) /\ b \notin Higher(b)
    BY <1>3, AboveIsAsymmetric DEF Distinct
  <2>3. QED
    BY <1>1, <1>2, <2>1, <2>2
<1>4. QED
  BY <1>3, AboveIsTotal

LEMMA TopIsListed ==
    ASSUME NEW rows, IsFiniteSet(rows), Distinct(rows)
    PROVE  TopOf(rows) \in rows \union {None}
BY HasHighest DEF TopOf

-----------------------------------------------------------------------------
(* Types.  What an answer holds of the rows and of the locks stays true    *)
(* while rows and time are only added.                                     *)

AnswerOK(k, x) ==
    /\ k = StatusKey =>
          /\ x.at \in Nat /\ x.at <= clock
          /\ \A s \in DOMAIN x.ttl : x.until[s] # None =>
                /\ s \in Services /\ x.until[s] \in Nat
                /\ x.ttl[s] = GetTtl(IF x.until[s] > x.at THEN x.until[s] - x.at ELSE 0)
    /\ k = AlertsKey => x.list \subseteq alertRows
    /\ k = HealthKey => x.status \in {"ok", "degraded"}

WorldOK ==
    /\ clock \in Nat
    /\ errorLog \in SUBSET ErrorRow /\ alertRows \in SUBSET Alerts
    /\ lockUntil \in [Services -> Nat]
    /\ session \in BOOLEAN /\ mishaps \in Nat
    /\ IsFiniteSet(errorLog) /\ IsFiniteSet(alertRows)
    /\ Distinct(alertRows) /\ \A a \in alertRows : a.n < Cardinality(alertRows)

ScreenOK ==
    /\ panels \in Pages /\ page \in {"dashboard", "login"}
    /\ selected \in Selections
    /\ now \in Nat /\ now <= clock
    /\ prevTop \in Alerts \union {None} /\ announce \in Alerts \union {None}

QueryOK ==
    /\ status \in [Keys -> {"pending", "error", "success"}]
    /\ error \in [Keys -> {"failed", "unavailable", None}]
    /\ DOMAIN data = Keys
    /\ updatedAt \in Nat /\ updatedAt <= clock
    /\ verdict \in {None, "ok", "degraded", "unavailable", "failed"}
    /\ data[StatusKey] # None => data[StatusKey].at <= updatedAt
    /\ \A k \in Keys : data[k] # None => data[k] # Unauthorized /\ AnswerOK(k, data[k])

RequestOK ==
    /\ fetch \in [Keys -> {"idle", "asking", "waiting"}]
    /\ tried \in [Keys -> BOOLEAN]
    /\ asked \in [Keys -> Nat]
    /\ DOMAIN reply = Keys
    /\ \A k \in Keys : reply[k] \notin {None, Unauthorized} => AnswerOK(k, reply[k])
    /\ dispatched = None \/ dispatched \subseteq alertRows
    /\ failed = None \/ failed \subseteq alertRows
    /\ before \subseteq alertRows

TInv == WorldOK /\ ScreenOK /\ QueryOK /\ RequestOK

LEMMA KeysDiffer ==
    /\ {AlertsKey, StatusKey, HealthKey} \subseteq Keys
    /\ AlertsKey # StatusKey /\ AlertsKey # HealthKey /\ StatusKey # HealthKey
    /\ AlertsKey.panel = "alerts" /\ StatusKey.panel = "status" /\ HealthKey.panel = "health"
BY DEF AlertsKey, StatusKey, HealthKey, KeyOf, Keys

LEMMA TypesOfInv == TInv => TypeOK
BY DEF TInv, WorldOK, ScreenOK, QueryOK, RequestOK, TypeOK, Alerts

Grows == clock' \in Nat /\ clock <= clock' /\ alertRows \subseteq alertRows'

LEMMA AnswersStay ==
    ASSUME clock \in Nat, Grows, NEW k, NEW x, AnswerOK(k, x)
    PROVE  AnswerOK(k, x)'
<1>1. x.at \in Nat /\ x.at <= clock => x.at <= clock'
  BY DEF Grows
<1>2. QED
  BY <1>1 DEF AnswerOK, Grows

LEMMA ScreenStays == WorldOK /\ ScreenOK /\ Grows /\ UNCHANGED screen => ScreenOK'
BY DEF WorldOK, ScreenOK, Grows, screen

LEMMA QueryStays == WorldOK /\ QueryOK /\ Grows /\ UNCHANGED query => QueryOK'
<1> SUFFICES ASSUME WorldOK, QueryOK, Grows, UNCHANGED query PROVE QueryOK'
  OBVIOUS
<1>1. ASSUME NEW k \in Keys, data[k] # None PROVE data'[k] # Unauthorized /\ AnswerOK(k, data[k])'
  <2>1. AnswerOK(k, data[k])
    BY <1>1 DEF QueryOK
  <2>2. clock \in Nat /\ data' = data
    BY DEF WorldOK, query
  <2>3. \A x : AnswerOK(k, x) => AnswerOK(k, x)'
    BY <2>2, AnswersStay
  <2>4. QED
    BY <1>1, <2>1, <2>2, <2>3 DEF QueryOK
<1>2. QED
  BY <1>1 DEF WorldOK, QueryOK, Grows, query

LEMMA RequestStays == WorldOK /\ RequestOK /\ Grows /\ UNCHANGED request => RequestOK'
<1> SUFFICES ASSUME WorldOK, RequestOK, Grows, UNCHANGED request PROVE RequestOK'
  OBVIOUS
<1>1. ASSUME NEW k \in Keys, reply[k] \notin {None, Unauthorized} PROVE AnswerOK(k, reply[k])'
  <2>1. AnswerOK(k, reply[k])
    BY <1>1 DEF RequestOK
  <2>2. clock \in Nat /\ reply' = reply
    BY DEF WorldOK, request
  <2>3. \A x : AnswerOK(k, x) => AnswerOK(k, x)'
    BY <2>2, AnswersStay
  <2>4. QED
    BY <2>1, <2>2, <2>3
<1>2. QED
  BY <1>1 DEF RequestOK, Grows, request

(* While the world stands still, an answer is what it was.                 *)
LEMMA AnswersSame ==
    ASSUME UNCHANGED <<clock, server>>, NEW k, NEW x
    PROVE  AnswerOK(k, x)' <=> AnswerOK(k, x)
BY DEF AnswerOK, server

LEMMA StartsKeepsTypes ==
    ASSUME TInv, NEW ks, Starts(ks), UNCHANGED <<clock, server>>
    PROVE  QueryOK' /\ RequestOK'
<1>1. QueryOK'
  <2>1. status' \in [Keys -> {"pending", "error", "success"}]
    BY DEF TInv, QueryOK, Starts
  <2>2. \A k \in Keys : AnswerOK(k, data[k])' <=> AnswerOK(k, data[k])
    BY DEF AnswerOK, server, Starts
  <2>3. QED
    BY <2>1, <2>2 DEF TInv, QueryOK, Starts
<1>2. RequestOK'
  <2>1. fetch' \in [Keys -> {"idle", "asking", "waiting"}] /\ asked' \in [Keys -> Nat]
    BY DEF TInv, WorldOK, RequestOK, Starts
  <2>2. before' \subseteq alertRows
    BY DEF TInv, RequestOK, Starts
  <2>3. \A k \in Keys : AnswerOK(k, reply[k])' <=> AnswerOK(k, reply[k])
    BY DEF AnswerOK, server, Starts
  <2>4. QED
    BY <2>1, <2>2, <2>3 DEF TInv, RequestOK, Starts, server
<1>3. QED
  BY <1>1, <1>2

LEMMA EndedKeepsTypes ==
    ASSUME TInv, NEW k \in Keys, NEW stage \in {"idle", "waiting"}, Ended(k, stage),
           UNCHANGED <<clock, server>>
    PROVE  RequestOK'
<1>1. /\ fetch' \in [Keys -> {"idle", "asking", "waiting"}] /\ asked' \in [Keys -> Nat]
      /\ tried' \in [Keys -> BOOLEAN] /\ DOMAIN reply' = Keys
  BY DEF TInv, RequestOK, Ended
<1>2. ASSUME NEW j \in Keys, reply'[j] \notin {None, Unauthorized} PROVE AnswerOK(j, reply[j])'
  <2>1. reply'[j] = reply[j]
    BY <1>2 DEF TInv, RequestOK, Ended
  <2>2. AnswerOK(j, reply[j])
    BY <1>2, <2>1 DEF TInv, RequestOK
  <2>3. \A x : AnswerOK(j, x)' <=> AnswerOK(j, x)
    BY AnswersSame
  <2>4. QED
    BY <2>1, <2>2, <2>3
<1>3. QED
  BY <1>1, <1>2 DEF TInv, RequestOK, Ended, server

LEMMA FailsKeepsTypes ==
    ASSUME TInv, NEW k \in Keys, NEW why \in {"failed", "unavailable"}, Fails(k, why),
           UNCHANGED <<clock, server>>
    PROVE  QueryOK' /\ RequestOK'
<1>1. CASE ~tried[k] /\ Shown(k)
  <2>1. Ended(k, "waiting") /\ UNCHANGED query
    BY <1>1 DEF Fails
  <2>2. Grows
    BY DEF TInv, WorldOK, Grows, server
  <2>3. QED
    BY <2>1, <2>2, EndedKeepsTypes, QueryStays DEF TInv
<1>2. CASE ~(~tried[k] /\ Shown(k))
  <2>1. /\ Ended(k, "idle")
        /\ status' = [status EXCEPT ![k] = "error"]
        /\ error' = [error EXCEPT ![k] = why]
        /\ verdict' = IF k = HealthKey THEN why ELSE verdict
        /\ UNCHANGED <<data, updatedAt>>
    BY <1>2 DEF Fails
  <2>2. RequestOK'
    BY <2>1, EndedKeepsTypes
  <2>3. \A j \in Keys : AnswerOK(j, data[j])' <=> AnswerOK(j, data[j])
    BY <2>1 DEF AnswerOK, server
  <2>4. QueryOK'
    BY <2>1, <2>3 DEF TInv, QueryOK
  <2>5. QED
    BY <2>2, <2>4
<1>3. QED
  BY <1>1, <1>2

LEMMA AnswersKeepsTypes ==
    ASSUME TInv, NEW k \in Keys, NEW x, Answers(k, x), x # Unauthorized => AnswerOK(k, x),
           UNCHANGED <<clock, server, fetch, tried, asked, before>>,
           dispatched' = None \/ dispatched' = dispatched, failed' = None \/ failed' = failed
    PROVE  RequestOK'
<1>1. DOMAIN reply' = Keys
  BY DEF TInv, RequestOK, Answers
<1>2. ASSUME NEW j \in Keys, reply'[j] \notin {None, Unauthorized} PROVE AnswerOK(j, reply[j])'
  <2>1. AnswerOK(j, reply'[j])
    <3>1. CASE j = k
      BY <1>2, <3>1 DEF TInv, RequestOK, Answers
    <3>2. CASE j # k
      BY <1>2, <3>2 DEF TInv, RequestOK, Answers
    <3>3. QED
      BY <3>1, <3>2
  <2>2. \A y : AnswerOK(j, y)' <=> AnswerOK(j, y)
    BY AnswersSame
  <2>3. QED
    BY <2>1, <2>2
<1>3. QED
  BY <1>1, <1>2 DEF TInv, RequestOK, server

LEMMA CommitsKeepDistinct ==
    ASSUME WorldOK, NEW t \in Int, NEW st \in {"dispatched", "failed"},
           alertRows' = alertRows \union {[n |-> Cardinality(alertRows), at |-> t, status |-> st]}
    PROVE  /\ alertRows' \in SUBSET Alerts /\ IsFiniteSet(alertRows') /\ Distinct(alertRows')
           /\ \A a \in alertRows' : a.n < Cardinality(alertRows')
<1> DEFINE row == [n |-> Cardinality(alertRows), at |-> t, status |-> st]
<1>1. Cardinality(alertRows) \in Nat
  BY FS_CardinalityType DEF WorldOK
<1>2. row \in Alerts
  BY <1>1 DEF Alerts, AlertRow, FailureRow
<1>3. \A a \in alertRows : a.n \in Nat /\ a.n < row.n
  BY RowTypes DEF WorldOK, Distinct
<1>4. row \notin alertRows
  BY <1>1, <1>3
<1>5. IsFiniteSet(alertRows') /\ Cardinality(alertRows') = Cardinality(alertRows) + 1
  BY <1>4, FS_AddElement DEF WorldOK
<1>6. Distinct(alertRows')
  <2>1. alertRows' \subseteq Alerts
    BY <1>2 DEF WorldOK
  <2>2. \A a, b \in alertRows' : a.n = b.n => a = b
    BY <1>3 DEF WorldOK, Distinct
  <2>3. QED
    BY <2>1, <2>2 DEF Distinct
<1>7. \A a \in alertRows' : a.n < Cardinality(alertRows')
  BY <1>1, <1>3, <1>5
<1>8. QED
  BY <1>5, <1>6, <1>7 DEF Distinct

(* The tables, the locks and the clock.                                    *)
LEMMA WorldStep == TInv /\ [Next]_vars => WorldOK' /\ Grows
<1> SUFFICES ASSUME TInv, [Next]_vars PROVE WorldOK' /\ Grows
  OBVIOUS
<1> USE DEF TInv
<1>1. ASSUME UNCHANGED <<clock, server>>, session' \in BOOLEAN, mishaps' \in Nat
      PROVE  WorldOK' /\ Grows
  BY <1>1 DEF WorldOK, Grows, server, Distinct
<1>2. session \in BOOLEAN /\ mishaps \in Nat
  BY DEF WorldOK
<1>3. CASE \E k \in Keys : Goes(k)
  BY <1>1, <1>2, <1>3 DEF Goes, Poll, Retry, Server, Refuse, ServeStats, FindDispatched, FindFailed,
     ServeAlerts, ServeStatus, ServeHealth, Serves, Arrive, ArriveUnauthorized
<1>4. CASE \E k \in Keys : RequestFails(k)
  BY <1>1, <1>2, <1>4 DEF RequestFails, Mishap
<1>5. CASE \E s \in Selections : Select(s)
  BY <1>1, <1>2, <1>5 DEF Select
<1>6. CASE Login \/ Logout \/ SessionEnds \/ DrawAgain
  <2>1. session' \in BOOLEAN
    BY <1>2, <1>6, Zenon DEF Login, LoggedIn, Logout, LoggedOut, SessionEnds, DrawAgain
  <2>2. mishaps' \in Nat
    BY <1>2, <1>6 DEF Login, Logout, SessionEnds, DrawAgain, Mishap
  <2>3. UNCHANGED <<clock, server>>
    BY <1>6 DEF Login, Logout, SessionEnds, DrawAgain
  <2>4. QED
    BY <1>1, <2>1, <2>2, <2>3
<1>7. CASE Tick
  BY <1>7 DEF Tick, WorldOK, Grows, server, Distinct
<1>8. CASE NewError
  <2>1. PICK s \in UNION {Reporters[p] : p \in panels}, t \in Began :
           errorLog' = errorLog \union {[n |-> Cardinality(errorLog), service |-> s, at |-> t]}
    BY <1>8 DEF NewError
  <2>2. s \in Services /\ t \in Int
    BY DashboardAssumption DEF ScreenOK, WorldOK, Began
  <2>3. Cardinality(errorLog) \in Nat
    BY FS_CardinalityType DEF WorldOK
  <2>4. errorLog' \in SUBSET ErrorRow
    BY <2>1, <2>2, <2>3 DEF WorldOK, ErrorRow
  <2>5. IsFiniteSet(errorLog')
    BY <2>1, FS_AddElement DEF WorldOK
  <2>6. UNCHANGED <<clock, alertRows, lockUntil, session, mishaps>>
    BY <1>8 DEF NewError
  <2>7. QED
    BY <2>4, <2>5, <2>6 DEF WorldOK, Grows, Distinct
<1>9. CASE NewAlert \/ NewFailure
  <2>1. PICK t \in Began, st \in {"dispatched", "failed"} :
           alertRows' = alertRows \union {[n |-> Cardinality(alertRows), at |-> t, status |-> st]}
    BY <1>9 DEF NewAlert, NewFailure, Comes
  <2>2. t \in Int
    BY DEF WorldOK, Began
  <2>3. UNCHANGED <<clock, errorLog, lockUntil, session, mishaps>>
    BY <1>9 DEF NewAlert, NewFailure, Comes
  <2>4. /\ alertRows' \in SUBSET Alerts /\ IsFiniteSet(alertRows') /\ Distinct(alertRows')
        /\ \A a \in alertRows' : a.n < Cardinality(alertRows')
    BY <2>1, <2>2, CommitsKeepDistinct
  <2>5. alertRows \subseteq alertRows'
    BY <2>1
  <2>6. QED
    BY <2>3, <2>4, <2>5 DEF WorldOK, Grows, Distinct
<1>10. ASSUME NEW s \in Services, Lock(s) PROVE WorldOK' /\ Grows
  BY <1>10, DashboardAssumption DEF Lock, WorldOK, Grows, Distinct
<1>11. CASE UNCHANGED vars
  BY <1>1, <1>2, <1>11 DEF vars
<1>12. QED
  BY <1>3, <1>4, <1>5, <1>6, <1>7, <1>8, <1>9, <1>10, <1>11 DEF Next

LEMMA TopOfAnswer ==
    ASSUME WorldOK, NEW x, AnswerOK(AlertsKey, x)
    PROVE  TopOf(x.list) \in Alerts \union {None}
<1>1. x.list \subseteq alertRows
  BY DEF AnswerOK
<1>2. IsFiniteSet(x.list) /\ Distinct(x.list)
  BY <1>1, FS_Subset DEF WorldOK, Distinct
<1>3. QED
  BY <1>1, <1>2, TopIsListed DEF WorldOK

LEMMA StatusAnswered ==
    ASSUME TInv, ServeStatus
    PROVE  RequestOK'
<1>1. PICK lost \in SUBSET Listed(errorLog, clock) :
         Answers(StatusKey,
              [code |-> 200, at |-> clock,
               ttl   |-> [s \in Listed(errorLog, clock) |-> IF s \in lost THEN None ELSE GetTtl(Left(s))],
               until |-> [s \in Listed(errorLog, clock) |-> IF s \in lost THEN None ELSE lockUntil[s]]])
  BY DEF ServeStatus
<1> DEFINE listed == Listed(errorLog, clock)
           ttl    == [s \in listed |-> IF s \in lost THEN None ELSE GetTtl(Left(s))]
           until  == [s \in listed |-> IF s \in lost THEN None ELSE lockUntil[s]]
           x == [code |-> 200, at |-> clock, ttl |-> ttl, until |-> until]
<1>2. listed \subseteq Services
  BY DEF Listed, TInv, WorldOK, ErrorRow
<1>3. ASSUME NEW s \in listed, until[s] # None
      PROVE  /\ until[s] \in Nat
             /\ ttl[s] = GetTtl(IF until[s] > clock THEN until[s] - clock ELSE 0)
  <2>1. s \notin lost
    BY <1>3
  <2>2. until[s] = lockUntil[s] /\ ttl[s] = GetTtl(Left(s))
    BY <2>1
  <2>3. QED
    BY <1>2, <2>2 DEF TInv, WorldOK, Left
<1>4. x.at = clock /\ x.ttl = ttl /\ x.until = until /\ DOMAIN ttl = listed
  OBVIOUS
<1> HIDE DEF ttl, until, listed
<1>5. AnswerOK(StatusKey, x)
  <2>1. clock \in Nat /\ clock <= clock
    BY DEF TInv, WorldOK
  <2>2. \A s \in DOMAIN ttl : until[s] # None =>
             /\ s \in Services /\ until[s] \in Nat
             /\ ttl[s] = GetTtl(IF until[s] > clock THEN until[s] - clock ELSE 0)
    BY <1>2, <1>3, <1>4
  <2> HIDE DEF x
  <2>3. QED
    BY <1>4, <2>1, <2>2, KeysDiffer DEF AnswerOK
<1>6. Answers(StatusKey, x)
  BY <1>1 DEF ttl, until, listed
<1>7. UNCHANGED <<clock, server, fetch, tried, asked, before, dispatched, failed>>
  BY DEF ServeStatus, Serves
<1> HIDE DEF x
<1>8. QED
  BY <1>5, <1>6, <1>7, KeysDiffer, AnswersKeepsTypes

(* An action of the server leaves the screen and the cache alone.          *)
LEMMA ServerStep ==
    ASSUME TInv, NEW k \in Keys, Server(k), WorldOK', Grows
    PROVE  TInv'
<1>1. UNCHANGED <<clock, server, session, mishaps, screen, query, fetch, tried, asked, before>>
  BY DEF Server, Refuse, ServeStats, FindDispatched, FindFailed, ServeAlerts, ServeStatus,
         ServeHealth, Serves
<1>2. ScreenOK' /\ QueryOK'
  BY <1>1, ScreenStays, QueryStays DEF TInv
<1>3. CASE Refuse(k)
  <2>1. Answers(k, Unauthorized) /\ UNCHANGED <<dispatched, failed>>
    BY <1>3 DEF Refuse
  <2>2. RequestOK'
    BY <1>1, <2>1, AnswersKeepsTypes
  <2>3. QED
    BY <1>2, <2>2 DEF TInv
<1>4. CASE ServeStats(k)
  <2>1. k \notin {StatusKey, AlertsKey, HealthKey}
    BY <1>4, KeysDiffer DEF ServeStats
  <2>2. \A x : AnswerOK(k, x)
    BY <2>1 DEF AnswerOK
  <2>3. PICK x : Answers(k, x)
    BY <1>4 DEF ServeStats
  <2>4. UNCHANGED <<dispatched, failed>>
    BY <1>4 DEF ServeStats
  <2>5. RequestOK'
    BY <1>1, <2>2, <2>3, <2>4, AnswersKeepsTypes
  <2>6. QED
    BY <1>2, <2>5 DEF TInv
<1>5. CASE FindDispatched \/ FindFailed
  <2>1. reply' = reply
    BY <1>5 DEF FindDispatched, FindFailed
  <2>2. /\ dispatched' = None \/ dispatched' \subseteq alertRows
        /\ failed' = None \/ failed' \subseteq alertRows
    BY <1>5 DEF FindDispatched, FindFailed, Find, Dispatched, Failed, TInv, RequestOK
  <2>3. \A j \in Keys : AnswerOK(j, reply[j])' <=> AnswerOK(j, reply[j])
    BY <1>1, <2>1 DEF AnswerOK, server
  <2>4. RequestOK'
    BY <1>1, <2>1, <2>2, <2>3 DEF TInv, RequestOK, server
  <2>5. QED
    BY <1>2, <2>4 DEF TInv
<1>6. CASE k = AlertsKey /\ ServeAlerts
  <2>1. Merge(dispatched \union failed) \subseteq alertRows
    BY <1>6 DEF ServeAlerts, Merge, TInv, RequestOK
  <2> DEFINE x == [code |-> 200, list |-> Merge(dispatched \union failed)]
  <2>2. AnswerOK(AlertsKey, x)
    BY <2>1, KeysDiffer DEF AnswerOK
  <2>3. Answers(AlertsKey, x) /\ dispatched' = None /\ failed' = None
    BY <1>6 DEF ServeAlerts
  <2> HIDE DEF x
  <2>4. RequestOK'
    BY <1>1, <1>6, <2>2, <2>3, AnswersKeepsTypes
  <2>5. QED
    BY <1>2, <2>4 DEF TInv
<1>7. CASE ServeStatus
  BY <1>2, <1>7, StatusAnswered DEF TInv
<1>8. CASE k = HealthKey /\ ServeHealth
  <2>1. PICK s \in {"ok", "degraded"} : Answers(HealthKey, [code |-> 200, status |-> s])
    BY <1>8 DEF ServeHealth
  <2> DEFINE x == [code |-> 200, status |-> s]
  <2>2. AnswerOK(HealthKey, x)
    BY KeysDiffer DEF AnswerOK
  <2>3. Answers(k, x) /\ UNCHANGED <<dispatched, failed>>
    BY <1>8, <2>1 DEF ServeHealth
  <2> HIDE DEF x
  <2>4. RequestOK'
    BY <1>1, <1>8, <2>2, <2>3, AnswersKeepsTypes
  <2>5. QED
    BY <1>2, <2>4 DEF TInv
<1>9. QED
  BY <1>3, <1>4, <1>5, <1>6, <1>7, <1>8 DEF Server

LEMMA ArriveStep ==
    ASSUME TInv, NEW k \in Keys, Arrive(k), WorldOK', Grows
    PROVE  TInv'
<1>1. /\ reply[k] \notin {None, Unauthorized} /\ AnswerOK(k, reply[k])
      /\ Ended(k, "idle") /\ UNCHANGED <<clock, server>>
  BY DEF Arrive, TInv, RequestOK
<1>2. RequestOK'
  BY <1>1, EndedKeepsTypes
<1>3. QueryOK'
  <2>1. ASSUME NEW j \in Keys, data'[j] # None PROVE data'[j] # Unauthorized /\ AnswerOK(j, data[j])'
    <3>1. data'[j] # Unauthorized /\ AnswerOK(j, data'[j])
      <4>1. CASE j = k
        BY <1>1, <4>1 DEF Arrive, TInv, QueryOK
      <4>2. CASE j # k
        BY <2>1, <4>2 DEF Arrive, TInv, QueryOK
      <4>3. QED
        BY <4>1, <4>2
    <3>2. \A y : AnswerOK(j, y)' <=> AnswerOK(j, y)
      BY <1>1, AnswersSame
    <3>3. QED
      BY <3>1, <3>2
  <2>2. data'[StatusKey] # None => data'[StatusKey].at <= updatedAt'
    <3>1. CASE k = StatusKey
      BY <1>1, <3>1 DEF Arrive, AnswerOK, TInv, QueryOK
    <3>2. CASE k # StatusKey
      BY <3>2, KeysDiffer DEF Arrive, TInv, QueryOK
    <3>3. QED
      BY <3>1, <3>2
  <2>3. verdict' \in {None, "ok", "degraded", "unavailable", "failed"}
    BY <1>1 DEF Arrive, AnswerOK, TInv, QueryOK
  <2>4. QED
    BY <1>1, <2>1, <2>2, <2>3 DEF Arrive, TInv, WorldOK, QueryOK
<1>4. ScreenOK'
  <2>1. UNCHANGED <<clock, panels, page, selected, now>>
    BY DEF Arrive
  <2>2. prevTop' \in Alerts \union {None} /\ announce' \in Alerts \union {None}
    <3>1. CASE k = AlertsKey /\ Shown(k)
      <4>1. TopOf(reply[k].list) \in Alerts \union {None}
        BY <1>1, <3>1, TopOfAnswer DEF TInv
      <4>2. QED
        BY <3>1, <4>1 DEF Arrive, Effect, TInv, ScreenOK
    <3>2. CASE ~(k = AlertsKey /\ Shown(k))
      BY <3>2 DEF Arrive, TInv, ScreenOK
    <3>3. QED
      BY <3>1, <3>2
  <2>3. QED
    BY <2>1, <2>2 DEF TInv, ScreenOK
<1>5. QED
  BY <1>2, <1>3, <1>4 DEF TInv

LEMMA ToLoginKeepsTypes ==
    ASSUME TInv, NEW k, ToLogin(k), UNCHANGED <<clock, server>>
    PROVE  ScreenOK' /\ QueryOK' /\ RequestOK'
<1>1. ScreenOK'
  BY DashboardAssumption DEF ToLogin, TInv, WorldOK, ScreenOK
<1>2. QueryOK'
  BY KeysDiffer DEF ToLogin, ForAllKeys, TInv, WorldOK, QueryOK
<1>3. RequestOK'
  BY DEF ToLogin, ForAllKeys, RequestOK
<1>4. QED
  BY <1>1, <1>2, <1>3

LEMMA GoesStep ==
    ASSUME TInv, NEW k \in Keys, Goes(k), WorldOK', Grows
    PROVE  TInv'
<1>1. CASE Poll(k)
  <2>1. Starts({k}) /\ UNCHANGED <<clock, server, screen>>
    BY <1>1 DEF Poll
  <2>2. QED
    BY <2>1, StartsKeepsTypes, ScreenStays DEF TInv
<1>2. CASE Retry(k)
  <2>1. UNCHANGED <<clock, server, screen>>
    BY <1>2 DEF Retry
  <2>2. CASE Shown(k)
    <3>1. /\ fetch' = [fetch EXCEPT ![k] = "asking"]
          /\ asked' = [asked EXCEPT ![k] = IF k.panel = "stats" THEN clock ELSE @]
          /\ before' = IF k = AlertsKey THEN alertRows ELSE before
          /\ UNCHANGED <<tried, reply, dispatched, failed, query>>
      BY <1>2, <2>2 DEF Retry
    <3>2. \A j \in Keys : AnswerOK(j, reply[j])' <=> AnswerOK(j, reply[j])
      BY <2>1, <3>1 DEF AnswerOK, server
    <3>3. asked' \in [Keys -> Nat]
      BY <3>1 DEF TInv, WorldOK, RequestOK
    <3>4. RequestOK'
      BY <2>1, <3>1, <3>2, <3>3 DEF TInv, RequestOK, server
    <3>5. QED
      BY <2>1, <3>1, <3>4, ScreenStays, QueryStays DEF TInv
  <2>3. CASE ~Shown(k)
    <3>1. Fails(k, "failed")
      BY <1>2, <2>3 DEF Retry
    <3>2. QED
      BY <2>1, <3>1, FailsKeepsTypes, ScreenStays DEF TInv
  <2>4. QED
    BY <2>2, <2>3
<1>3. CASE Server(k)
  BY <1>3, ServerStep
<1>4. CASE Arrive(k)
  BY <1>4, ArriveStep
<1>5. CASE ArriveUnauthorized(k)
  <2>1. UNCHANGED <<clock, server>>
    BY <1>5 DEF ArriveUnauthorized
  <2>2. CASE ToLogin(k)
    BY <2>1, <2>2, ToLoginKeepsTypes DEF TInv
  <2>3. CASE Fails(k, "failed") /\ UNCHANGED screen
    BY <2>1, <2>3, FailsKeepsTypes, ScreenStays DEF TInv
  <2>4. QED
    BY <1>5, <2>2, <2>3 DEF ArriveUnauthorized
<1>6. QED
  BY <1>1, <1>2, <1>3, <1>4, <1>5 DEF Goes

LEMMA TInvStep == TInv /\ [Next]_vars => TInv'
<1> SUFFICES ASSUME TInv, [Next]_vars PROVE TInv'
  OBVIOUS
<1>1. WorldOK' /\ Grows
  BY WorldStep
<1>2. ASSUME NEW k \in Keys, Goes(k) PROVE TInv'
  BY <1>1, <1>2, GoesStep
<1>3. ASSUME NEW k \in Keys, RequestFails(k) PROVE TInv'
  <2>1. PICK why \in {"failed", "unavailable"} : Fails(k, why)
    BY <1>3 DEF RequestFails
  <2>2. UNCHANGED <<clock, server, screen>>
    BY <1>3 DEF RequestFails
  <2>3. QED
    BY <1>1, <2>1, <2>2, FailsKeepsTypes, ScreenStays DEF TInv
<1>4. ASSUME NEW v \in Selections, Select(v) PROVE TInv'
  <2>1. PICK ks : Starts(ks)
    BY <1>4 DEF Select, Mounts
  <2>2. ScreenOK'
    BY <1>4 DEF Select, TInv, ScreenOK
  <2>3. UNCHANGED <<clock, server>>
    BY <1>4 DEF Select
  <2>4. QED
    BY <1>1, <2>1, <2>2, <2>3, StartsKeepsTypes DEF TInv
<1>5. CASE Login
  <2>1. PICK ks : Starts(ks)
    BY <1>5 DEF Login, Enters, Mounts
  <2>2. UNCHANGED <<clock, server>>
    BY <1>5 DEF Login
  <2>3. prevTop' \in Alerts \union {None}
    <3>1. data[AlertsKey] # None => AnswerOK(AlertsKey, data[AlertsKey])
      BY KeysDiffer DEF TInv, QueryOK
    <3>2. \A x : AnswerOK(AlertsKey, x) => TopOf(x.list) \in Alerts \union {None}
      BY TopOfAnswer DEF TInv
    <3>3. prevTop' = IF data[AlertsKey] = None THEN None ELSE TopOf(data[AlertsKey].list)
      BY <1>5 DEF Login, Enters
    <3>4. QED
      BY <3>1, <3>2, <3>3
  <2>4. ScreenOK'
    BY <1>5, <2>2, <2>3 DEF Login, Enters, TInv, WorldOK, ScreenOK
  <2>5. QED
    BY <1>1, <2>1, <2>2, <2>4, StartsKeepsTypes DEF TInv
<1>6. CASE Logout
  <2>1. ScreenOK'
    BY <1>6 DEF Logout, TInv, WorldOK, ScreenOK
  <2>2. UNCHANGED <<query, request>>
    BY <1>6 DEF Logout
  <2>3. QED
    BY <1>1, <2>1, <2>2, QueryStays, RequestStays DEF TInv
<1>7. CASE DrawAgain
  <2>1. ScreenOK'
    BY <1>7 DEF DrawAgain, TInv, WorldOK, ScreenOK
  <2>2. UNCHANGED <<query, request>>
    BY <1>7 DEF DrawAgain
  <2>3. QED
    BY <1>1, <2>1, <2>2, QueryStays, RequestStays DEF TInv
<1>8. CASE UNCHANGED <<screen, query, request>>
  BY <1>1, <1>8, ScreenStays, QueryStays, RequestStays DEF TInv
<1>9. CASE SessionEnds \/ Tick \/ NewError \/ NewAlert \/ NewFailure \/ UNCHANGED vars
  BY <1>8, <1>9 DEF SessionEnds, Tick, NewError, NewAlert, NewFailure, Comes, vars
<1>10. ASSUME NEW s \in Services, Lock(s) PROVE TInv'
  BY <1>8, <1>10 DEF Lock
<1>11. QED
  BY <1>2, <1>3, <1>4, <1>5, <1>6, <1>7, <1>9, <1>10 DEF Next

LEMMA TInvAlways == Spec => []TInv
<1>1. Init => TInv
  <2> SUFFICES ASSUME Init PROVE TInv
    OBVIOUS
  <2>1. WorldOK
    BY FS_EmptySet DEF Init, WorldOK, Distinct
  <2>2. ScreenOK
    BY DashboardAssumption DEF Init, ScreenOK
  <2>3. QueryOK
    BY KeysDiffer DEF Init, ForAllKeys, QueryOK
  <2>4. RequestOK
    BY DEF Init, ForAllKeys, RequestOK
  <2>5. QED
    BY <2>1, <2>2, <2>3, <2>4 DEF TInv
<1>2. QED
  BY <1>1, TInvStep, PTL DEF Spec

(* Every variable of the tab and of the tables keeps its type              *)
(* (schemas.ts:57-99, providers.tsx:14-24).                                *)
THEOREM DashboardTypes == Spec => []TypeOK
BY TInvAlways, TypesOfInv, PTL

-----------------------------------------------------------------------------
(* The countdown follows from what an answer holds: the lock's end, its    *)
(* rounded rest when it was read, and an arrival that came later.          *)

LEMMA CountdownOfAnswer ==
    ASSUME TInv, data[StatusKey] # None, NEW s \in DOMAIN data[StatusKey].ttl,
           data[StatusKey].until[s] # None
    PROVE  /\ lockUntil[s] = data[StatusKey].until[s] /\ Left(s) > 0 =>
                 CooldownRows[s].remaining * Sec + (Sec - Sec \div 2) > Left(s)
           /\ CooldownRows[s].active =>
                 now < data[StatusKey].until[s] + Sec \div 2 + (updatedAt - data[StatusKey].at)
<1> DEFINE answer == data[StatusKey]
           end == answer.until[s]
           ttl == answer.ttl[s]
           l   == IF end > answer.at THEN end - answer.at ELSE 0
           half == Sec \div 2
           drawn == CooldownRemaining(ttl, updatedAt, now)
<1>1. /\ answer.at \in Nat /\ answer.at <= clock /\ answer.at <= updatedAt
      /\ s \in Services /\ end \in Nat /\ ttl = GetTtl(l)
  <2>1. AnswerOK(StatusKey, answer)
    BY KeysDiffer DEF TInv, QueryOK
  <2>2. answer.at <= updatedAt
    BY DEF TInv, QueryOK
  <2>3. QED
    BY <2>1, <2>2 DEF AnswerOK
<1>2. /\ clock \in Nat /\ updatedAt \in Nat /\ now \in Nat /\ now <= clock
      /\ lockUntil[s] \in Nat /\ Sec \in Nat /\ Sec > 0 /\ half \in Nat /\ half < Sec
  BY <1>1, ReadAssumption DEF TInv, WorldOK, ScreenOK, QueryOK
<1>3. CooldownRows[s] = [active    |-> drawn # None /\ drawn > 0,
                         remaining |-> IF drawn = None THEN 0 ELSE drawn]
  BY DEF CooldownRows
<1>4. /\ CooldownRows[s].active = (drawn # None /\ drawn > 0)
       /\ CooldownRows[s].remaining = IF drawn = None THEN 0 ELSE drawn
  <2> DEFINE isActive == drawn # None /\ drawn > 0
             remaining == IF drawn = None THEN 0 ELSE drawn
  <2>1. CooldownRows[s] = [active |-> isActive, remaining |-> remaining]
    BY <1>3
  <2> HIDE DEF isActive, remaining
  <2>2. CooldownRows[s].active = isActive /\ CooldownRows[s].remaining = remaining
    BY <2>1
  <2>3. QED
    BY <2>2 DEF isActive, remaining
<1>5. l \in Nat
  BY <1>1
<1>6. None \notin Int
  BY ReadAssumption
<1>7. Left(s) = IF lockUntil[s] > clock THEN lockUntil[s] - clock ELSE 0
  BY DEF Left
<1>8. CASE ttl = None
  <2>1. l < Sec - half
    BY <1>1, <1>5, <1>8, TtlOfLock
  <2>2. drawn = None
    BY <1>8 DEF CooldownRemaining
  <2>3. CooldownRows[s].remaining = 0 /\ ~CooldownRows[s].active
    <3> HIDE DEF drawn
    <3>1. QED
      BY <1>4, <2>2
  <2>4. lockUntil[s] = end /\ Left(s) > 0 => Left(s) <= l
    BY <1>1, <1>2, <1>7
  <2> HIDE DEF l, half, end, answer, drawn
  <2>5. lockUntil[s] = end /\ Left(s) > 0 => 0 * Sec + (Sec - half) > Left(s)
    BY <1>2, <1>5, <1>7, <2>1, <2>4
  <2>6. QED
    BY <2>3, <2>5 DEF half, end, answer
<1>9. CASE ttl # None
  <2>1. ttl \in Nat /\ ttl * Sec + (Sec - half) > l /\ ttl * Sec <= l + half
    BY <1>1, <1>5, <1>9, TtlOfLock
  <2>2. drawn \in Nat /\ drawn * Sec >= ttl * Sec - (now - updatedAt)
        /\ (drawn > 0 => now - updatedAt < ttl * Sec)
    BY <1>2, <2>1, Remaining
  <2> HIDE DEF drawn
  <2>3. CooldownRows[s].remaining = drawn /\ (CooldownRows[s].active => drawn > 0)
    <3>1. drawn # None
      BY <1>6, <2>2
    <3>2. CooldownRows[s].remaining = drawn
      BY <1>4, <3>1
    <3>3. CooldownRows[s].active => drawn > 0
      BY <1>4, Zenon
    <3>4. QED
      BY <3>2, <3>3
  <2> DEFINE product == ttl * Sec
             rest == drawn * Sec
  <2>4. product \in Nat /\ rest \in Nat /\ product + (Sec - half) > l /\ product <= l + half
        /\ rest >= product - (now - updatedAt) /\ (drawn > 0 => now - updatedAt < product)
    <3>1. product \in Nat /\ rest \in Nat
      BY <1>2, <2>1, <2>2
    <3>2. QED
      BY <3>1, <2>1, <2>2
  <2>5. end > answer.at /\ l = end - answer.at
    <3>1. l = 0 => ttl = None
      BY <1>1, <1>2 DEF GetTtl
    <3>2. QED
      BY <1>1, <1>9, <3>1
  <2> HIDE DEF product, rest, l, end, half, answer, drawn, ttl
  <2>7. lockUntil[s] = end /\ Left(s) > 0 => rest + (Sec - half) > Left(s)
    BY <1>1, <1>2, <1>7, <2>4, <2>5
  <2>8. drawn > 0 => now < end + half + (updatedAt - answer.at)
    BY <1>1, <1>2, <2>4, <2>5
  <2>9. QED
    BY <2>3, <2>7, <2>8 DEF rest, end, half, answer, drawn, ttl
<1>10. QED
  BY <1>8, <1>9

(* For every cooldown and length of a second: what is drawn of a lock that *)
(* is held is at most half a second short, and nothing is drawn of a lock  *)
(* longer than that and the answer's travel after it ended                 *)
(* (cooldown.service.ts:38-41, derive.ts:7-15).                            *)
THEOREM CountdownIsRight == Spec => []CountdownHolds
<1>1. TInv => CountdownHolds
  BY CountdownOfAnswer DEF CountdownHolds
<1>2. QED
  BY <1>1, TInvAlways, PTL

-----------------------------------------------------------------------------
(* The banner.  The query of /health remembers what its last fetch ended   *)
(* with: in its error after a failure, in its answer after a success.      *)

BInv ==
    /\ status[HealthKey] = "error" =>
          verdict = error[HealthKey] /\ verdict \in {"failed", "unavailable"}
    /\ status[HealthKey] # "error" /\ data[HealthKey] # None =>
          verdict = data[HealthKey].status /\ verdict \in {"ok", "degraded"}

LEMMA BInvSame == BInv /\ UNCHANGED query => BInv'
BY DEF BInv, query

LEMMA BInvStarts ==
    ASSUME TInv, BInv, NEW ks, Starts(ks) PROVE BInv'
BY KeysDiffer DEF BInv, Starts, TInv, QueryOK

LEMMA BInvFails ==
    ASSUME TInv, BInv, NEW k \in Keys, NEW why \in {"failed", "unavailable"}, Fails(k, why)
    PROVE  BInv'
<1>1. CASE UNCHANGED query
  BY <1>1, BInvSame
<1>2. CASE /\ status' = [status EXCEPT ![k] = "error"]
           /\ error' = [error EXCEPT ![k] = why]
           /\ verdict' = IF k = HealthKey THEN why ELSE verdict
           /\ UNCHANGED <<data, updatedAt>>
  BY <1>2, KeysDiffer DEF BInv, TInv, QueryOK
<1>3. QED
  BY <1>1, <1>2 DEF Fails

LEMMA BInvStep == TInv /\ BInv /\ [Next]_vars => BInv'
<1> SUFFICES ASSUME TInv, BInv, [Next]_vars PROVE BInv'
  OBVIOUS
<1>1. ASSUME NEW k \in Keys, Goes(k) PROVE BInv'
  <2>1. CASE Poll(k)
    BY <2>1, BInvStarts DEF Poll
  <2>2. CASE Retry(k)
    BY <2>2, BInvSame, BInvFails DEF Retry
  <2>3. CASE Server(k)
    <3>1. UNCHANGED query
      BY <2>3 DEF Server, Refuse, ServeStats, FindDispatched, FindFailed, ServeAlerts, ServeStatus,
                  ServeHealth, Serves
    <3>2. QED
      BY <3>1, BInvSame
  <2>4. CASE Arrive(k)
    <3>1. k = HealthKey => reply[k].status \in {"ok", "degraded"}
      BY <2>4 DEF Arrive, TInv, RequestOK, AnswerOK
    <3>2. QED
      BY <2>4, <3>1, KeysDiffer DEF Arrive, BInv, TInv, QueryOK
  <2>5. CASE ArriveUnauthorized(k)
    <3>1. CASE ToLogin(k)
      BY <3>1, KeysDiffer DEF ToLogin, ForAllKeys, BInv
    <3>2. CASE Fails(k, "failed")
      BY <3>2, BInvFails
    <3>3. QED
      BY <2>5, <3>1, <3>2 DEF ArriveUnauthorized
  <2>6. QED
    BY <1>1, <2>1, <2>2, <2>3, <2>4, <2>5 DEF Goes
<1>2. ASSUME NEW k \in Keys, RequestFails(k) PROVE BInv'
  <2>1. PICK why \in {"failed", "unavailable"} : Fails(k, why)
    BY <1>2 DEF RequestFails
  <2>2. QED
    BY <2>1, BInvFails
<1>3. CASE (\E v \in Selections : Select(v)) \/ Login
  <2>1. PICK ks : Starts(ks)
    BY <1>3 DEF Select, Login, Enters, Mounts
  <2>2. QED
    BY <2>1, BInvStarts
<1>4. CASE UNCHANGED query
  BY <1>4, BInvSame
<1>5. CASE Logout \/ SessionEnds \/ DrawAgain \/ Tick \/ NewError \/ NewAlert \/ NewFailure
           \/ (\E s \in Services : Lock(s)) \/ UNCHANGED vars
  BY <1>4, <1>5 DEF Logout, SessionEnds, DrawAgain, Tick, NewError, NewAlert, NewFailure, Comes,
                    Lock, vars
<1>6. QED
  BY <1>1, <1>2, <1>3, <1>5 DEF Next

(* The banner always tells what the last fetch of /health ended with, an   *)
(* answer that an earlier fetch left notwithstanding (health.ts:12-23).    *)
THEOREM BannerIsRight == Spec => []BannerFollowsHealth
<1>1. Init => BInv
  BY KeysDiffer DEF Init, ForAllKeys, BInv
<1>2. BInv => BannerFollowsHealth
  BY DEF BInv, BannerFollowsHealth, Banner, HealthBanner
<1>3. QED
  BY <1>1, <1>2, BInvStep, TInvAlways, PTL DEF Spec

-----------------------------------------------------------------------------
(* The list of alerts.  Each find is of a state of the tables that had     *)
(* every row there was when the list was asked for.                        *)

MissingAreBelow ==
    reply[AlertsKey] \notin {None, Unauthorized} =>
        \A b \in before \ reply[AlertsKey].list :
            /\ Cardinality(reply[AlertsKey].list) = Limit
            /\ \A a \in reply[AlertsKey].list : Above(a, b)

AInv ==
    /\ fetch[AlertsKey] # "asking" => dispatched = None /\ failed = None /\ reply[AlertsKey] = None
    /\ dispatched # None =>
          \E D \in SUBSET alertRows : before \subseteq D /\ dispatched = Find(Dispatched(D))
    /\ failed # None =>
          \E F \in SUBSET alertRows : before \subseteq F /\ failed = Find(Failed(F))
    /\ MissingAreBelow

LEMMA AInvSame ==
    ASSUME AInv, alertRows \subseteq alertRows', UNCHANGED <<dispatched, failed, before>>,
           fetch'[AlertsKey] = fetch[AlertsKey], reply'[AlertsKey] = reply[AlertsKey]
    PROVE  AInv'
BY DEF AInv, MissingAreBelow

LEMMA AInvNothing ==
    ASSUME dispatched' = None, failed' = None, reply'[AlertsKey] = None
    PROVE  AInv'
BY DEF AInv, MissingAreBelow

LEMMA AInvStarts ==
    ASSUME TInv, AInv, NEW ks, Starts(ks), \A k \in ks : fetch[k] = "idle",
           alertRows \subseteq alertRows'
    PROVE  AInv'
<1>1. CASE AlertsKey \in ks
  BY <1>1, AInvNothing DEF AInv, Starts
<1>2. CASE AlertsKey \notin ks
  <2>1. fetch'[AlertsKey] = fetch[AlertsKey] /\ UNCHANGED <<dispatched, failed, before, reply>>
    BY <1>2, KeysDiffer DEF Starts
  <2>2. QED
    BY <2>1, AInvSame
<1>3. QED
  BY <1>1, <1>2

LEMMA AInvEnded ==
    ASSUME TInv, AInv, NEW k \in Keys, NEW stage, Ended(k, stage), alertRows \subseteq alertRows'
    PROVE  AInv'
<1>1. CASE k = AlertsKey
  <2>1. dispatched' = None /\ failed' = None /\ reply'[AlertsKey] = None
    BY <1>1 DEF Ended, TInv, RequestOK
  <2>2. QED
    BY <2>1, AInvNothing
<1>2. CASE k # AlertsKey
  <2>1. /\ UNCHANGED <<dispatched, failed, before>>
        /\ fetch'[AlertsKey] = fetch[AlertsKey] /\ reply'[AlertsKey] = reply[AlertsKey]
    BY <1>2, KeysDiffer DEF Ended, TInv, RequestOK
  <2>2. QED
    BY <2>1, AInvSame
<1>3. QED
  BY <1>1, <1>2

LEMMA AInvFails ==
    ASSUME TInv, AInv, NEW k \in Keys, NEW why, Fails(k, why), alertRows \subseteq alertRows'
    PROVE  AInv'
<1>1. PICK stage : Ended(k, stage)
  BY DEF Fails
<1>2. QED
  BY <1>1, AInvEnded

LEMMA AInvServeAlerts ==
    ASSUME TInv, AInv, ServeAlerts
    PROVE  AInv'
<1> DEFINE list == Merge(dispatched \union failed)
<1>1. /\ dispatched # None /\ failed # None /\ reply' = [reply EXCEPT ![AlertsKey] = [code |-> 200, list |-> list]]
      /\ dispatched' = None /\ failed' = None /\ before' = before /\ UNCHANGED <<fetch, server>>
      /\ fetch[AlertsKey] = "asking"
  BY DEF ServeAlerts, Serves, Answers
<1>2. PICK D \in SUBSET alertRows : before \subseteq D /\ dispatched = Find(Dispatched(D))
  BY <1>1 DEF AInv
<1>3. PICK F \in SUBSET alertRows : before \subseteq F /\ failed = Find(Failed(F))
  BY <1>1 DEF AInv
<1>4. IsFiniteSet(D) /\ IsFiniteSet(F) /\ Distinct(D \union F)
  BY FS_Subset DEF TInv, WorldOK, Distinct
<1>5. ASSUME NEW b \in before \ list
      PROVE  Cardinality(list) = Limit /\ \A a \in list : Above(a, b)
  <2>1. b \in D /\ b \in F /\ b \in Alerts
    BY <1>2, <1>3 DEF TInv, WorldOK
  <2>2. b \in (Dispatched(D) \union Failed(F)) \ list
    BY <2>1, RowTypes DEF Dispatched, Failed
  <2>3. list = Merge(Find(Dispatched(D)) \union Find(Failed(F)))
    BY <1>2, <1>3
  <2> HIDE DEF list
  <2>4. QED
    BY <1>4, <2>2, <2>3, OnlyOlderAlertsMissing
<1>6. reply'[AlertsKey].list = list
  BY <1>1, KeysDiffer DEF TInv, RequestOK
<1> HIDE DEF list
<1>7. MissingAreBelow'
  BY <1>1, <1>5, <1>6 DEF MissingAreBelow
<1>8. QED
  BY <1>1, <1>7 DEF AInv

LEMMA AInvServer ==
    ASSUME TInv, AInv, NEW k \in Keys, Server(k), Grows
    PROVE  AInv'
<1>1. /\ reply[k] = None /\ fetch[k] = "asking"
      /\ UNCHANGED <<fetch, before, server>> /\ DOMAIN reply = Keys
  BY DEF TInv, RequestOK, Server, Refuse, ServeStats, FindDispatched, FindFailed, ServeAlerts,
         ServeStatus, ServeHealth, Serves
<1>2. CASE k = AlertsKey /\ Refuse(k)
  <2>1. /\ UNCHANGED <<dispatched, failed>> /\ reply'[AlertsKey] = Unauthorized
        /\ before' = before /\ alertRows' = alertRows /\ fetch' = fetch
    BY <1>1, <1>2 DEF Refuse, Answers, server
  <2>2. QED
    BY <1>1, <1>2, <2>1 DEF AInv, MissingAreBelow
<1>3. CASE k = AlertsKey /\ FindDispatched
  <2>1. /\ dispatched' = Find(Dispatched(alertRows)) /\ UNCHANGED <<reply, failed>>
        /\ alertRows' = alertRows
    BY <1>1, <1>3 DEF FindDispatched, server
  <2>2. before' \subseteq alertRows'
    BY <1>1, <2>1 DEF TInv, RequestOK
  <2>3. QED
    BY <1>1, <1>3, <2>1, <2>2 DEF AInv, MissingAreBelow
<1>4. CASE k = AlertsKey /\ FindFailed
  <2>1. /\ failed' = Find(Failed(alertRows)) /\ UNCHANGED <<reply, dispatched>>
        /\ alertRows' = alertRows
    BY <1>1, <1>4 DEF FindFailed, server
  <2>2. before' \subseteq alertRows'
    BY <1>1, <2>1 DEF TInv, RequestOK
  <2>3. QED
    BY <1>1, <1>4, <2>1, <2>2 DEF AInv, MissingAreBelow
<1>5. CASE k = AlertsKey /\ ServeAlerts
  BY <1>5, AInvServeAlerts
<1>6. CASE k # AlertsKey
  <2>1. UNCHANGED <<dispatched, failed>> /\ reply'[AlertsKey] = reply[AlertsKey]
    BY <1>1, <1>6, KeysDiffer DEF Server, Refuse, ServeStats, ServeStatus, ServeHealth, Answers
  <2>2. QED
    BY <1>1, <2>1, AInvSame DEF server
<1>7. QED
  BY <1>2, <1>3, <1>4, <1>5, <1>6, KeysDiffer DEF Server, ServeStats, ServeStatus, ServeHealth

LEMMA AInvStep == TInv /\ AInv /\ [Next]_vars => AInv'
<1> SUFFICES ASSUME TInv, AInv, [Next]_vars PROVE AInv'
  OBVIOUS
<1>1. Grows /\ alertRows \subseteq alertRows'
  BY WorldStep DEF Grows
<1>2. ASSUME NEW k \in Keys, Goes(k) PROVE AInv'
  <2>1. CASE Poll(k)
    <3>1. Starts({k}) /\ fetch[k] = "idle"
      BY <2>1 DEF Poll
    <3>2. QED
      BY <1>1, <3>1, AInvStarts
  <2>2. CASE Retry(k)
    <3>1. CASE Fails(k, "failed")
      BY <1>1, <3>1, AInvFails
    <3>2. CASE Shown(k) /\ k = AlertsKey
      <4>1. UNCHANGED <<reply, dispatched, failed>> /\ fetch[AlertsKey] = "waiting"
        BY <2>2, <3>2 DEF Retry
      <4>2. QED
        BY <4>1, AInvNothing DEF AInv
    <3>3. CASE Shown(k) /\ k # AlertsKey
      <4>1. UNCHANGED <<reply, dispatched, failed, before>> /\ fetch'[AlertsKey] = fetch[AlertsKey]
        BY <2>2, <3>3, KeysDiffer DEF Retry, TInv, RequestOK
      <4>2. QED
        BY <1>1, <4>1, AInvSame
    <3>4. QED
      BY <2>2, <3>1, <3>2, <3>3 DEF Retry
  <2>3. CASE Server(k)
    BY <1>1, <2>3, AInvServer
  <2>4. CASE Arrive(k)
    BY <1>1, <2>4, AInvEnded DEF Arrive
  <2>5. CASE ArriveUnauthorized(k)
    <3>1. CASE ToLogin(k)
      BY <3>1, AInvNothing, KeysDiffer DEF ToLogin, ForAllKeys
    <3>2. CASE Fails(k, "failed")
      BY <1>1, <3>2, AInvFails
    <3>3. QED
      BY <2>5, <3>1, <3>2 DEF ArriveUnauthorized
  <2>6. QED
    BY <1>2, <2>1, <2>2, <2>3, <2>4, <2>5 DEF Goes
<1>3. ASSUME NEW k \in Keys, RequestFails(k) PROVE AInv'
  <2>1. PICK why : Fails(k, why)
    BY <1>3 DEF RequestFails
  <2>2. QED
    BY <1>1, <2>1, AInvFails
<1>4. CASE (\E v \in Selections : Select(v)) \/ Login
  <2>1. PICK ks : Starts(ks) /\ \A k \in ks : fetch[k] = "idle"
    BY <1>4 DEF Select, Login, Enters, Mounts
  <2>2. QED
    BY <1>1, <2>1, AInvStarts
<1>5. CASE UNCHANGED request
  BY <1>1, <1>5, AInvSame DEF request
<1>6. CASE Logout \/ SessionEnds \/ DrawAgain \/ Tick \/ NewError \/ NewAlert \/ NewFailure
           \/ (\E s \in Services : Lock(s)) \/ UNCHANGED vars
  BY <1>5, <1>6 DEF Logout, SessionEnds, DrawAgain, Tick, NewError, NewAlert, NewFailure, Comes,
                    Lock, vars
<1>7. QED
  BY <1>2, <1>3, <1>4, <1>6 DEF Next

(* For every limit and all rows, however late they are committed and       *)
(* between whichever of the two finds: an alert that was there when the    *)
(* list was asked for is missing only from a full list of alerts that are  *)
(* no older (dashboard.service.ts:113-150).                                *)
THEOREM LatestAlertsAreShown == Spec => []LatestAlertsShown
<1>1. Init => AInv
  BY KeysDiffer, AInvNothing DEF Init, ForAllKeys, AInv, MissingAreBelow
<1>2. TInv /\ AInv => LatestAlertsShown
  <2> SUFFICES ASSUME TInv, AInv, reply[AlertsKey] \notin {None, Unauthorized},
                      NEW b \in before \ reply[AlertsKey].list
               PROVE  /\ Cardinality(reply[AlertsKey].list) = Limit
                      /\ \A a \in reply[AlertsKey].list : a.at >= b.at
    BY DEF LatestAlertsShown
  <2>1. b \in Alerts /\ reply[AlertsKey].list \subseteq Alerts
    BY KeysDiffer DEF TInv, WorldOK, RequestOK, AnswerOK
  <2>2. ASSUME NEW a \in reply[AlertsKey].list PROVE a.at >= b.at
    <3>1. Above(a, b) /\ a.at \in Int /\ b.at \in Int
      BY <2>1, RowTypes DEF AInv, MissingAreBelow
    <3>2. QED
      BY <3>1 DEF Above, Newer
  <2>3. QED
    BY <2>2 DEF AInv, MissingAreBelow
<1>3. QED
  BY <1>1, <1>2, AInvStep, TInvAlways, PTL DEF Spec
-----------------------------------------------------------------------------
(* The answers of /stats.  What is shown was asked for by the query of the *)
(* selection, so its range and service are those of the key, and `seen`    *)
(* has the rows it was made of.                                            *)

(* An answer comes into the cache as it was given, and is given by the     *)
(* server alone.                                                           *)
LEMMA CacheStep ==
    ASSUME TInv, [Next]_vars, NEW j \in Keys
    PROVE  /\ \/ data'[j] \in {data[j], None}
              \/ data'[j] = reply[j] /\ reply[j] \notin {None, Unauthorized}
           /\ reply'[j] \in {reply[j], None, Unauthorized} \/ Server(j)
<1> USE DEF TInv, QueryOK, RequestOK
<1>1. ASSUME UNCHANGED <<data, reply>> PROVE data'[j] = data[j] /\ reply'[j] = reply[j]
  BY <1>1
<1>2. ASSUME NEW k \in Keys, NEW why, Fails(k, why)
      PROVE  data'[j] = data[j] /\ reply'[j] \in {reply[j], None}
  BY <1>2 DEF Fails, Ended, query
<1>3. ASSUME NEW k \in Keys, Goes(k)
      PROVE  /\ \/ data'[j] \in {data[j], None}
                \/ data'[j] = reply[j] /\ reply[j] \notin {None, Unauthorized}
             /\ reply'[j] \in {reply[j], None, Unauthorized} \/ Server(j)
  <2>1. CASE Poll(k)
    BY <1>1, <2>1 DEF Poll, Starts
  <2>2. CASE Retry(k)
    BY <1>1, <1>2, <2>2 DEF Retry, query
  <2>3. CASE Server(k)
    <3>1. data' = data
      BY <2>3 DEF Server, Refuse, ServeStats, FindDispatched, FindFailed, ServeAlerts, ServeStatus,
                  ServeHealth, Serves, query
    <3>2. j # k => reply'[j] = reply[j]
      BY <2>3 DEF Server, Refuse, ServeStats, FindDispatched, FindFailed, ServeAlerts, ServeStatus,
                  ServeHealth, Answers
    <3>3. QED
      BY <2>3, <3>1, <3>2
  <2>4. CASE Arrive(k)
    BY <2>4 DEF Arrive, Ended
  <2>5. CASE ArriveUnauthorized(k)
    BY <1>2, <2>5 DEF ArriveUnauthorized, ToLogin, ForAllKeys
  <2>6. QED
    BY <1>3, <2>1, <2>2, <2>3, <2>4, <2>5 DEF Goes
<1>4. ASSUME NEW k \in Keys, RequestFails(k) PROVE data'[j] = data[j] /\ reply'[j] \in {reply[j], None}
  BY <1>2, <1>4 DEF RequestFails
<1>5. CASE (\E v \in Selections : Select(v)) \/ Login
  BY <1>1, <1>5 DEF Select, Login, Enters, Mounts, Starts
<1>6. CASE Logout \/ SessionEnds \/ DrawAgain \/ Tick \/ NewError \/ NewAlert \/ NewFailure
           \/ (\E s \in Services : Lock(s)) \/ UNCHANGED vars
  BY <1>1, <1>6 DEF Logout, SessionEnds, DrawAgain, Tick, NewError, NewAlert, NewFailure, Comes,
                    Lock, vars, query, request
<1>7. QED
  BY <1>3, <1>4, <1>5, <1>6 DEF Next

(* x is the statistics, for the selection of k, of what the log held when *)
(* x was asked for; every answer and every cache entry is.                 *)
OfLog(k, x) ==
    /\ IsFiniteSet(x.seen)
    /\ x.stats = Cells(InRange(x.seen, k.selection.service, x.asked - k.selection.range))

SInv ==
    \A k \in Keys : k.panel = "stats" =>
        /\ data[k] # None => OfLog(k, data[k])
        /\ reply[k] \notin {None, Unauthorized} => OfLog(k, reply[k])

LEMMA SInvStep == TInv /\ SInv /\ [Next]_vars => SInv'
<1> SUFFICES ASSUME TInv, SInv, [Next]_vars, NEW k \in Keys, k.panel = "stats"
             PROVE  /\ data'[k] # None => OfLog(k, data'[k])
                    /\ reply'[k] \notin {None, Unauthorized} => OfLog(k, reply'[k])
  BY DEF SInv, OfLog
<1>1. data'[k] # None => OfLog(k, data'[k])
  BY CacheStep DEF SInv
<1>2. ASSUME Server(k) PROVE reply'[k] = Unauthorized \/ OfLog(k, reply'[k])
  <2>1. k \notin {AlertsKey, StatusKey, HealthKey}
    BY KeysDiffer
  <2>2. CASE Refuse(k)
    BY <2>2 DEF Refuse, Answers, TInv, RequestOK
  <2>3. CASE ServeStats(k)
    <3>1. /\ reply'[k].seen = errorLog /\ reply'[k].asked = asked[k]
          /\ reply'[k].stats = Stats(errorLog, k.selection.service, asked[k] - k.selection.range, clock)
      BY <2>3 DEF ServeStats, Answers, TInv, RequestOK
    <3>2. QED
      BY <3>1 DEF OfLog, Stats, TInv, WorldOK
  <2>4. QED
    BY <1>2, <2>1, <2>2, <2>3 DEF Server
<1>3. reply'[k] \notin {None, Unauthorized} => OfLog(k, reply'[k])
  BY <1>2, CacheStep DEF SInv
<1>4. QED
  BY <1>1, <1>3

(* What is drawn of an answer of the query that is selected.               *)
LEMMA DrawnOfLog ==
    ASSUME TInv, SInv
    PROVE  ChartShowsTheLog
<1> DEFINE k == KeyOf("stats", selected)
           x == data[k]
           rows == {r \in x.seen : r.at >= x.asked - selected.range
                                   /\ selected.service \in {None, r.service}}
<1>1. SUFFICES ASSUME StatsShown # None
               PROVE  /\ Tile = Cardinality(rows)
                      /\ \A r \in rows : Floor(r.at) \in DOMAIN Chart
                      /\ \A t \in DOMAIN Chart : \A s \in DOMAIN Chart[t] :
                            Chart[t][s] = Cardinality({r \in rows : r.service = s /\ Floor(r.at) = t})
  BY DEF ChartShowsTheLog, StatsShown
<1>2. k \in Keys /\ k.panel = "stats" /\ k.selection = selected
  BY DEF TInv, ScreenOK, KeyOf, Keys
<1>3. OfLog(k, x)
  BY <1>1, <1>2 DEF SInv, StatsShown
<1>4. IsFiniteSet(rows) /\ rows = InRange(x.seen, selected.service, x.asked - selected.range)
  BY <1>2, <1>3, FS_Subset DEF OfLog, InRange
<1>5. x.stats = Stats(x.seen, selected.service, x.asked - selected.range, clock)
  BY <1>2, <1>3 DEF OfLog, Stats
<1>6. Tile = Cardinality(rows)
  BY <1>4, <1>5, TileOfAllRows DEF Tile, StatsShown, Stats
<1>7. Chart = PivotStats(Cells(rows))
  BY <1>4, <1>5 DEF Chart, StatsShown, Stats
<1> HIDE DEF rows, x, k
<1>8. /\ \A r \in rows : Floor(r.at) \in DOMAIN Chart
      /\ \A t \in DOMAIN Chart : \A s \in DOMAIN Chart[t] :
            Chart[t][s] = Cardinality({r \in rows : r.service = s /\ Floor(r.at) = t})
  BY <1>7, ChartOfCells
<1>9. QED
  BY <1>6, <1>8

(* For all rows, buckets, ranges and selections: the tile and the chart    *)
(* have the rows of what is selected now, whatever was selected while the  *)
(* answers were on their way (queries.ts:20-25, dashboard.service.ts:40-77,*)
(* chart.ts:13-31, derive.ts:18-23).                                       *)
THEOREM ChartIsTheLog == Spec => []ChartShowsTheLog
<1>1. Init => SInv
  BY DEF Init, ForAllKeys, SInv
<1>2. TInv /\ SInv => ChartShowsTheLog
  BY DrawnOfLog
<1>3. QED
  BY <1>1, <1>2, SInvStep, TInvAlways, PTL DEF Spec

-----------------------------------------------------------------------------
(* The announcement.  AlertsTable remembers the first alert of the list it *)
(* draws, and a request for a newer list sees all of that list.            *)

TopShown == IF data[AlertsKey] = None THEN None ELSE TopOf(data[AlertsKey].list)

NInv ==
    /\ Shown(AlertsKey) => prevTop = TopShown
    /\ fetch[AlertsKey] = "asking" /\ data[AlertsKey] # None => data[AlertsKey].list \subseteq before

LEMMA AlertsAreShown ==
    /\ Shown(AlertsKey) <=> page = "dashboard" /\ "alerts" \in panels
    /\ Shown(AlertsKey)' <=> page' = "dashboard" /\ "alerts" \in panels'
BY DEF Shown, Observed, AlertsKey, KeyOf

LEMMA NInvSame ==
    ASSUME NInv, data'[AlertsKey] = data[AlertsKey], UNCHANGED <<page, panels, prevTop>>,
           \/ fetch'[AlertsKey] # "asking"
           \/ fetch'[AlertsKey] = fetch[AlertsKey] /\ before' = before
           \/ data[AlertsKey] # None => data[AlertsKey].list \subseteq before'
    PROVE  NInv'
BY AlertsAreShown DEF NInv, TopShown, AlertsKey, KeyOf

LEMMA NInvStarts ==
    ASSUME TInv, NInv, NEW ks, Starts(ks)
    PROVE  /\ data'[AlertsKey] = data[AlertsKey]
           /\ \/ fetch'[AlertsKey] = fetch[AlertsKey] /\ before' = before
              \/ data[AlertsKey] # None => data[AlertsKey].list \subseteq before'
<1>1. data[AlertsKey] # None => data[AlertsKey].list \subseteq alertRows
  BY KeysDiffer DEF TInv, QueryOK, AnswerOK
<1>2. QED
  BY <1>1, KeysDiffer DEF Starts

LEMMA NInvEnded ==
    ASSUME TInv, NInv, NEW k \in Keys, NEW stage \in {"idle", "waiting"}, Ended(k, stage)
    PROVE  \/ fetch'[AlertsKey] # "asking"
           \/ fetch'[AlertsKey] = fetch[AlertsKey] /\ before' = before
BY KeysDiffer DEF Ended, TInv, RequestOK

LEMMA NInvFails ==
    ASSUME TInv, NInv, NEW k \in Keys, NEW why, Fails(k, why), UNCHANGED <<page, panels, prevTop>>
    PROVE  NInv'
<1>1. PICK stage \in {"idle", "waiting"} : Ended(k, stage)
  BY DEF Fails
<1>2. data' = data
  BY DEF Fails, query
<1>3. QED
  BY <1>1, <1>2, NInvEnded, NInvSame

LEMMA NInvStep == TInv /\ NInv /\ [Next]_vars => NInv'
<1> SUFFICES ASSUME TInv, NInv, [Next]_vars PROVE NInv'
  OBVIOUS
<1>1. ASSUME NEW k \in Keys, Goes(k) PROVE NInv'
  <2>1. CASE Poll(k)
    BY <2>1, NInvStarts, NInvSame DEF Poll, screen
  <2>2. CASE Retry(k)
    <3>0. UNCHANGED <<page, panels, prevTop>>
      BY <2>2 DEF Retry, screen
    <3>1. CASE Fails(k, "failed")
      BY <3>0, <3>1, NInvFails
    <3>2. CASE Shown(k)
      <4>1. /\ fetch' = [fetch EXCEPT ![k] = "asking"] /\ data' = data
            /\ before' = IF k = AlertsKey THEN alertRows ELSE before
        BY <2>2, <3>2 DEF Retry, query
      <4>2. data[AlertsKey] # None => data[AlertsKey].list \subseteq alertRows
        BY KeysDiffer DEF TInv, QueryOK, AnswerOK
      <4>3. k # AlertsKey => fetch'[AlertsKey] = fetch[AlertsKey]
        BY <4>1, KeysDiffer DEF TInv, RequestOK
      <4>4. QED
        BY <3>0, <4>1, <4>2, <4>3, NInvSame
    <3>3. QED
      BY <2>2, <3>1, <3>2 DEF Retry
  <2>3. CASE Server(k)
    <3>1. UNCHANGED <<page, panels, prevTop, data, fetch, before>>
      BY <2>3 DEF Server, Refuse, ServeStats, FindDispatched, FindFailed, ServeAlerts, ServeStatus,
                  ServeHealth, Serves, screen, query
    <3>2. QED
      BY <3>1, NInvSame
  <2>4. CASE Arrive(k)
    <3>1. Ended(k, "idle") /\ UNCHANGED <<page, panels>>
      BY <2>4 DEF Arrive
    <3>2. CASE k = AlertsKey
      <4>1. fetch'[AlertsKey] = "idle" /\ data'[AlertsKey] = reply[AlertsKey] /\ reply[AlertsKey] # None
        BY <2>4, <3>1, <3>2, KeysDiffer DEF Arrive, Ended, TInv, QueryOK, RequestOK
      <4>2. Shown(AlertsKey) => prevTop' = TopOf(reply[AlertsKey].list)
        BY <2>4, <3>2 DEF Arrive, Effect
      <4>3. QED
        BY <3>1, <4>1, <4>2, AlertsAreShown DEF NInv, TopShown, AlertsKey, KeyOf
    <3>3. CASE k # AlertsKey
      <4>1. prevTop' = prevTop /\ data'[AlertsKey] = data[AlertsKey]
        BY <2>4, <3>3, KeysDiffer DEF Arrive, TInv, QueryOK
      <4>2. QED
        BY <3>1, <4>1, NInvEnded, NInvSame
    <3>4. QED
      BY <3>2, <3>3
  <2>5. CASE ArriveUnauthorized(k)
    <3>1. CASE ToLogin(k)
      BY <3>1, KeysDiffer DEF ToLogin, ForAllKeys, NInv, Shown
    <3>2. CASE Fails(k, "failed") /\ UNCHANGED screen
      BY <3>2, NInvFails DEF screen
    <3>3. QED
      BY <2>5, <3>1, <3>2 DEF ArriveUnauthorized
  <2>6. QED
    BY <1>1, <2>1, <2>2, <2>3, <2>4, <2>5 DEF Goes
<1>2. ASSUME NEW k \in Keys, RequestFails(k) PROVE NInv'
  BY <1>2, NInvFails DEF RequestFails, screen
<1>3. ASSUME NEW v \in Selections, Select(v) PROVE NInv'
  <2>1. PICK ks : Starts(ks)
    BY <1>3 DEF Select, Mounts
  <2>2. QED
    BY <1>3, <2>1, NInvStarts, NInvSame DEF Select
<1>4. CASE Login
  <2>1. PICK ks : Starts(ks)
    BY <1>4 DEF Login, Enters, Mounts
  <2>2. prevTop' = TopShown
    BY <1>4 DEF Login, Enters, TopShown
  <2>3. QED
    BY <2>1, <2>2, NInvStarts DEF NInv, TopShown
<1>5. CASE Logout
  BY <1>5 DEF Logout, NInv, Shown, query, request
<1>6. CASE UNCHANGED <<page, panels, prevTop, query, request>>
  BY <1>6, NInvSame DEF query, request
<1>7. CASE SessionEnds \/ DrawAgain \/ Tick \/ NewError \/ NewAlert \/ NewFailure
           \/ (\E s \in Services : Lock(s)) \/ UNCHANGED vars
  BY <1>6, <1>7 DEF SessionEnds, DrawAgain, Tick, NewError, NewAlert, NewFailure, Comes, Lock,
                    screen, vars
<1>8. QED
  BY <1>1, <1>2, <1>3, <1>4, <1>5, <1>7 DEF Next

(* A list that was read later than another one, and saw all of it, begins  *)
(* with what the other began with or with an alert the other did not have. *)
LEMMA TopIsNews ==
    ASSUME NEW old, IsFiniteSet(old), Distinct(old), old # {},
           NEW new, IsFiniteSet(new), Distinct(new),
           \A b \in old \ new : Cardinality(new) = Limit /\ \A a \in new : Above(a, b),
           TopOf(new) # TopOf(old)
    PROVE  new # {} /\ TopOf(new) \in new \ old
<1>1. TopOf(old) \in old /\ \A b \in old \ {TopOf(old)} : Above(TopOf(old), b)
  BY HasHighest DEF TopOf
<1>2. new # {}
  <2>1. Cardinality({}) = 0 /\ Limit # 0
    BY FS_EmptySet, ReadAssumption
  <2>2. QED
    BY <1>1, <2>1
<1>3. TopOf(new) \in new /\ \A b \in new \ {TopOf(new)} : Above(TopOf(new), b)
  BY <1>2, HasHighest DEF TopOf
<1>4. ASSUME TopOf(new) \in old PROVE FALSE
  <2>1. Above(TopOf(old), TopOf(new))
    BY <1>1, <1>4
  <2>2. Above(TopOf(new), TopOf(old))
    BY <1>1, <1>3
  <2>3. TopOf(old) \in Alerts /\ TopOf(new) \in Alerts
    BY <1>1, <1>3 DEF Distinct
  <2>4. QED
    BY <2>1, <2>2, <2>3, AboveIsAsymmetric
<1>5. QED
  BY <1>2, <1>3, <1>4

LEMMA NewsStep ==
    ASSUME TInv, AInv, NInv, [Next]_vars
    PROVE  LET old == data[AlertsKey].list   new == data'[AlertsKey].list IN
           /\ announce' \notin {announce, None} =>
                 /\ data[AlertsKey] # None /\ old # {}
                 /\ TopOf(new) \notin old /\ announce' = TopOf(new)
           /\ Shown(AlertsKey) /\ page' = page /\ data[AlertsKey] # None =>
                 (old # {} /\ TopOf(new) # TopOf(old) => announce' = TopOf(new))
<1> DEFINE old == data[AlertsKey].list
           new == data'[AlertsKey].list
           Drawn == Arrive(AlertsKey) /\ Shown(AlertsKey)
(* Nothing else than a list that is drawn announces or changes the first.  *)
<1>1. CASE ~Drawn
  <2>1. announce' \in {announce, None}
    BY ZenonT(60), <1>1 DEF Next, Goes, Poll, Retry, Server, Refuse, ServeStats, FindDispatched, FindFailed,
       ServeAlerts, ServeStatus, ServeHealth, Serves, Arrive, ArriveUnauthorized, ToLogin,
       RequestFails, Select, Login, Enters, Logout, SessionEnds, DrawAgain, Tick, NewError, NewAlert,
       NewFailure, Comes, Lock, screen, vars
  <2>2. ~Shown(AlertsKey) \/ page' # page \/ data'[AlertsKey] = data[AlertsKey]
    <3>1. ASSUME NEW k \in Keys, Goes(k), Shown(AlertsKey), page' = page
          PROVE  data'[AlertsKey] = data[AlertsKey]
      <4>1. page = "dashboard"
        BY <3>1 DEF Shown
      <4>2. CASE Poll(k)
        BY <4>2 DEF Poll, Starts
      <4>3. CASE Retry(k)
        BY <4>3 DEF Retry, Fails, query
      <4>4. CASE Server(k)
        BY <4>4 DEF Server, Refuse, ServeStats, FindDispatched, FindFailed, ServeAlerts, ServeStatus,
                    ServeHealth, Serves, query
      <4>5. CASE Arrive(k)
        BY <1>1, <3>1, <4>5, KeysDiffer DEF Arrive, TInv, QueryOK
      <4>6. CASE ArriveUnauthorized(k)
        BY <3>1, <4>1, <4>6 DEF ArriveUnauthorized, ToLogin
      <4>7. QED
        BY <3>1, <4>2, <4>3, <4>4, <4>5, <4>6 DEF Goes
    <3>2. QED
      BY <3>1 DEF Next, RequestFails, Fails, Select, Login, Enters, Mounts, Starts, Logout, SessionEnds,
         DrawAgain, Tick, NewError, NewAlert, NewFailure, Comes, Lock, query, vars
  <2>3. QED
    BY <2>1, <2>2
<1>2. CASE Drawn
  <2>1. /\ fetch[AlertsKey] = "asking" /\ reply[AlertsKey] \notin {None, Unauthorized}
        /\ data'[AlertsKey] = reply[AlertsKey] /\ Effect(new)
    BY <1>2, KeysDiffer DEF Arrive, TInv, QueryOK
  <2>2. announce' = IF TopOf(new) # None /\ prevTop # None /\ TopOf(new) # prevTop
                    THEN TopOf(new) ELSE announce
    BY <2>1 DEF Effect
  <2>3. prevTop = TopShown
    BY <1>2 DEF NInv
  <2>4. TopOf({}) = None /\ None \notin Alerts
    BY NoRowAssumption DEF TopOf, Alerts
  <2>5. ASSUME data[AlertsKey] # None, old # {}, TopOf(new) # TopOf(old)
        PROVE  TopOf(new) \notin old /\ announce' = TopOf(new)
    <3>1. old \subseteq alertRows /\ new \subseteq alertRows /\ old \subseteq before
      BY <2>1, <2>5, KeysDiffer DEF TInv, QueryOK, RequestOK, AnswerOK, NInv
    <3>2. \A b \in old \ new : Cardinality(new) = Limit /\ \A a \in new : Above(a, b)
      BY <2>1, <3>1 DEF AInv, MissingAreBelow
    <3>3. /\ IsFiniteSet(old) /\ Distinct(old) /\ IsFiniteSet(new) /\ Distinct(new)
          /\ old \subseteq Alerts /\ new \subseteq Alerts
      BY <3>1, FS_Subset DEF TInv, WorldOK, Distinct
    <3> HIDE DEF old, new
    <3>4. TopOf(new) \in new \ old
      BY <2>5, <3>2, <3>3, TopIsNews
    <3>5. TopOf(old) \in old
      BY <2>5, <3>3, HasHighest DEF TopOf
    <3>6. prevTop = TopOf(old)
      BY <2>3, <2>5 DEF TopShown, old
    <3>7. QED
      BY <2>2, <2>4, <2>5, <3>3, <3>4, <3>5, <3>6
  <2>6. ASSUME announce' \notin {announce, None}
        PROVE  data[AlertsKey] # None /\ old # {} /\ TopOf(new) # TopOf(old)
    BY <2>2, <2>3, <2>4, <2>6 DEF TopShown
  <2>7. ASSUME announce' \notin {announce, None}
        PROVE  /\ data[AlertsKey] # None /\ old # {}
               /\ TopOf(new) \notin old /\ announce' = TopOf(new)
    BY <2>5, <2>6, <2>7
  <2> HIDE DEF old, new
  <2>8. QED
    BY <2>5, <2>7 DEF old, new
<1>3. QED
  BY <1>1, <1>2

(* For all lists, limits and orders of answers: whenever the screen reader *)
(* is told of an alert, it is the first of the list that is drawn and was  *)
(* not in the list before, and a new first alert never goes untold         *)
(* (alerts-table.tsx:15-25).                                               *)
THEOREM AnnouncementsAreNews == Spec => AnnouncesNews
<1>1. Init => NInv
  BY KeysDiffer DEF Init, ForAllKeys, NInv, Shown
<1>2. Init => AInv
  BY KeysDiffer, AInvNothing DEF Init, ForAllKeys, AInv, MissingAreBelow
<1>3. ASSUME TInv, AInv, NInv, [Next]_vars
      PROVE  [LET old == data[AlertsKey].list   new == data'[AlertsKey].list IN
       /\ announce' \notin {announce, None} =>
             /\ data[AlertsKey] # None /\ old # {}
             /\ TopOf(new) \notin old /\ announce' = TopOf(new)
       /\ Shown(AlertsKey) /\ page' = page /\ data[AlertsKey] # None =>
             (old # {} /\ TopOf(new) # TopOf(old) => announce' = TopOf(new))]_vars
  BY <1>3, NewsStep
<1>4. QED
  BY <1>1, <1>2, <1>3, NInvStep, AInvStep, TInvAlways, PTL DEF Spec, AnnouncesNews
=============================================================================
