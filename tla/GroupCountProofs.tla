-------------------------- MODULE GroupCountProofs --------------------------
(***************************************************************************)
(* memberCnt follows the relations of a group (MemberCntTracks), for every *)
(* set of users, threads, requests and stored tables and every bound.      *)
(***************************************************************************)
EXTENDS GroupManagerProofs

(* How far memberCnt and what is still to be added are off the number of   *)
(* active relations.                                                       *)
Drift(g) ==
  groups[g].memberCnt + Cardinality(ToAdd(g)) - Cardinality(ToTake(g)) - Cardinality(Active(g))

(* The same without what handlers of JoinGroup will take: that is the -1   *)
(* of their failed statements, which is an excess again if the UPDATE of   *)
(* memberCnt fails, too.                                                   *)
QuitCounting(g) == {t \in Counting(g) : pc[t] = "quit_count"}
QuitToTake(g) == Units(QuitCounting(g), [t \in Threads |-> - loc[t].count])
Excess(g) ==
  groups[g].memberCnt + Cardinality(ToAdd(g)) - Cardinality(QuitToTake(g))
    - Cardinality(Active(g))

(* What a handler will count are rows of its group.  While there was one   *)
(* removal, whoever it found to be a member is still one.                  *)
CountOK(t) ==
  /\ pc[t] = "join_insert" => \A k \in loc[t].missing : req[t].users[k] \notin loc[t].found
  /\ pc[t] = "join_update" =>
       loc[t].count <= Cardinality(RowsOf(loc[t].group, Users \ loc[t].found))
  /\ pc[t] = "join_count" => loc[t].count <= Cost(loc[t].group)
  /\ pc[t] = "quit_count" => loc[t].count <= 1 /\ - loc[t].count <= Cost(loc[t].group)
  /\ pc[t] = "quit_update" /\ quits = 1 =>
       \A u \in loc[t].found : \E i \in RowsOf(loc[t].group, {u}) : relations[i].status = 1

(* One removal is the work of one handler.                                 *)
Quitting(t) == pc[t] # "idle" /\ req[t].kind = "Quit"
QuitAlone == quits = 1 => \A t, o \in Threads : Quitting(t) /\ Quitting(o) => t = o

(* The one removal is still to come.                                       *)
MayQuit ==
  \/ quits = 0
  \/ quits = 1 /\ \E t \in Threads :
                    Quitting(t) /\ pc[t] \in {"get_group", "quit_select", "quit_update"}

(* A user has an active relation and one that is not, or is about to: a    *)
(* removal may count rows again that had left.                             *)
MixedRows(g) ==
  \E i, j \in DOMAIN relations :
    /\ relations[i].groupId = g /\ relations[j].groupId = g
    /\ relations[i].userId = relations[j].userId
    /\ relations[i].status = 1 /\ relations[j].status = 0
MixedSoon(t, g) ==
  /\ pc[t] = "join_insert" /\ loc[t].group = g
  /\ \E k \in loc[t].missing : \E i \in DOMAIN relations :
       /\ relations[i].groupId = g /\ relations[i].userId = req[t].users[k]
       /\ relations[i].status = 0
Risky(g) == MixedRows(g) \/ \E t \in Threads : MixedSoon(t, g)

UpperOK(g) == Excess(g) <= Lost(g)
LowerOK(g) == quits = 0 \/ (quits = 1 /\ StoredAlike) => Drift(g) >= - Lost(g)

(* Only a failed SELECT makes relations differ before the removal; what it *)
(* may cost is not used up until the removal comes.                        *)
SpareOK(g) ==
  StoredAlike /\ MayQuit /\ Risky(g) => faults > 0 /\ Drift(g) >= Cost(g) - Lost(g)

CountInv ==
  /\ QuitAlone
  /\ \A t \in Threads : CountOK(t)
  /\ \A g \in DOMAIN groups : UpperOK(g) /\ LowerOK(g) /\ SpareOK(g)

-----------------------------------------------------------------------------
(* Sums over the handlers, as numbers of units.                            *)

(* The number of units a count stands for.                                 *)
Above0(n) == IF n > 0 THEN n ELSE 0

(* A handler's own units.                                                  *)
LEMMA OwnUnits ==
  ASSUME NEW t, NEW n \in Int
  PROVE  IsFiniteSet({t} \X (1 .. n)) /\ Cardinality({t} \X (1 .. n)) = Above0(n)
  <1>1. IsFiniteSet(1 .. n) /\ Cardinality(1 .. n) = Above0(n)
    BY FS_Interval DEF Above0
  <1>2. IsFiniteSet({t}) /\ Cardinality({t}) = 1
    BY FS_Singleton
  <1>3. Above0(n) \in Nat
    BY DEF Above0
  <1>4. /\ IsFiniteSet({t} \X (1 .. n))
        /\ Cardinality({t} \X (1 .. n)) = Cardinality({t}) * Cardinality(1 .. n)
    BY <1>1, <1>2, FS_Product
  <1> QED BY <1>1, <1>2, <1>3, <1>4

(* The units of finitely many handlers are finitely many.                  *)
LEMMA UnitsFinite ==
  ASSUME NEW ts \in SUBSET Threads, NEW cnt \in [Threads -> Int]
  PROVE  IsFiniteSet(Units(ts, cnt)) /\ Cardinality(Units(ts, cnt)) \in Nat
  <1> DEFINE Own(t) == {t} \X (1 .. cnt[t])
             all == {Own(t) : t \in ts}
  <1>1. IsFiniteSet(ts)
    BY GroupThreadsAssumption, FS_Subset
  <1>2. IsFiniteSet(all)
    <2> DEFINE f == [t \in ts |-> Own(t)]
    <2>1. f \in Surjection(ts, all)
      BY DEF Surjection
    <2> HIDE DEF f, all
    <2> QED BY <1>1, <2>1, FS_Surjection
  <1>3. ASSUME NEW s \in all PROVE IsFiniteSet(s)
    <2>1. PICK t \in ts : s = {t} \X (1 .. cnt[t])
      OBVIOUS
    <2>2. cnt[t] \in Int
      OBVIOUS
    <2>3. IsFiniteSet({t} \X (1 .. cnt[t]))
      BY <2>2, OwnUnits
    <2> QED BY <2>1, <2>3
  <1>4. IsFiniteSet(UNION all)
    <2> HIDE DEF all
    <2> QED BY <1>2, <1>3, FS_UNION
  <1>5. Units(ts, cnt) = UNION all
    BY DEF Units
  <1> HIDE DEF all
  <1> QED BY <1>4, <1>5, FS_CardinalityType

(* What one handler has of the units.                                      *)
Share(ts, cnt, t) == IF t \in ts THEN Above0(cnt[t]) ELSE 0

(* The units are those of one handler and those of the others.             *)
LEMMA UnitsSplit ==
  ASSUME NEW ts \in SUBSET Threads, NEW cnt \in [Threads -> Int], NEW t \in Threads
  PROVE  Cardinality(Units(ts, cnt)) =
           Cardinality(Units(ts \ {t}, cnt)) + Share(ts, cnt, t)
  <1> DEFINE rest == Units(ts \ {t}, cnt)
             own  == {t} \X (1 .. cnt[t])
  <1>1. CASE t \notin ts
    <2>1. ts \ {t} = ts
      BY <1>1
    <2>2. Cardinality(Units(ts, cnt)) \in Nat
      BY UnitsFinite
    <2>3. Units(ts \ {t}, cnt) = Units(ts, cnt) /\ Share(ts, cnt, t) = 0
      BY <1>1, <2>1 DEF Share
    <2> QED BY <2>2, <2>3
  <1>2. CASE t \in ts
    <2>1. Units(ts, cnt) = rest \cup own
      BY <1>2 DEF Units
    <2>2. rest \cap own = {}
      BY DEF Units
    <2>3. IsFiniteSet(rest) /\ Cardinality(rest) \in Nat
      BY UnitsFinite
    <2>0. cnt[t] \in Int
      OBVIOUS
    <2>4. IsFiniteSet(own) /\ Cardinality(own) = Above0(cnt[t]) /\ Above0(cnt[t]) \in Nat
      <3>1. IsFiniteSet(own) /\ Cardinality(own) = Above0(cnt[t])
        BY <2>0, OwnUnits
      <3>2. Above0(cnt[t]) \in Nat
        BY <2>0 DEF Above0
      <3> QED BY <3>1, <3>2
    <2> HIDE DEF rest, own
    <2>5. Cardinality(rest \cup own) = Cardinality(rest) + Cardinality(own)
      <3>1. Cardinality(rest \cap own) = 0
        BY <2>2, FS_EmptySet
      <3>2. Cardinality(rest \cup own) =
              Cardinality(rest) + Cardinality(own) - Cardinality(rest \cap own)
        BY <2>3, <2>4, FS_Union
      <3> QED BY <2>3, <2>4, <3>1, <3>2
    <2> QED BY <1>2, <2>1, <2>4, <2>5 DEF Share, rest
  <1> QED BY <1>1, <1>2

(* When one handler moves the sum changes by what it has.                  *)
LEMMA UnitsMove ==
  ASSUME NEW t \in Threads,
         NEW ts \in SUBSET Threads, NEW cnt \in [Threads -> Int],
         NEW ts1 \in SUBSET Threads, NEW cnt1 \in [Threads -> Int],
         \A o \in Threads \ {t} : (o \in ts <=> o \in ts1) /\ cnt1[o] = cnt[o]
  PROVE  Cardinality(Units(ts1, cnt1)) =
           Cardinality(Units(ts, cnt)) - Share(ts, cnt, t) + Share(ts1, cnt1, t)
  <1>1. Units(ts \ {t}, cnt) = Units(ts1 \ {t}, cnt1)
    <2>1. ts \ {t} = ts1 \ {t}
      OBVIOUS
    <2>2. \A o \in ts \ {t} : {o} \X (1 .. cnt[o]) = {o} \X (1 .. cnt1[o])
      OBVIOUS
    <2> QED BY <2>1, <2>2 DEF Units
  <1>2. /\ Cardinality(Units(ts \ {t}, cnt)) \in Nat
        /\ Cardinality(Units(ts, cnt)) \in Nat /\ Cardinality(Units(ts1, cnt1)) \in Nat
    BY UnitsFinite
  <1>3. Share(ts, cnt, t) \in Nat /\ Share(ts1, cnt1, t) \in Nat
    BY DEF Share, Above0
  <1> QED BY <1>1, <1>2, <1>3, UnitsSplit

(* No handler has more than n: all have at most n each.                    *)
LEMMA UnitsBound ==
  ASSUME NEW ts \in SUBSET Threads, NEW cnt \in [Threads -> Int], NEW n \in Nat,
         \A t \in ts : cnt[t] <= n
  PROVE  Cardinality(Units(ts, cnt)) <= Cardinality(Threads) * n
  <1>1. Units(ts, cnt) \subseteq Threads \X (1 .. n)
    BY DEF Units
  <1>2. IsFiniteSet(1 .. n) /\ Cardinality(1 .. n) = n
    BY FS_Interval
  <1>3. /\ IsFiniteSet(Threads \X (1 .. n))
        /\ Cardinality(Threads \X (1 .. n)) = Cardinality(Threads) * n
    BY <1>2, GroupThreadsAssumption, FS_Product
  <1> QED BY <1>1, <1>3, FS_Subset

(* What is lost grows with the losses and with what each may cost.         *)
LEMMA LostGrows ==
  ASSUME NEW k \in Nat, NEW k1 \in Nat, NEW c \in Nat, NEW c1 \in Nat, k <= k1, c <= c1
  PROVE  /\ k * c \in Nat /\ k1 * c1 \in Nat
         /\ k * c <= k1 * c1
         /\ \A d \in Nat : k + d <= k1 => k * c + d * c1 <= k1 * c1
  <1>1. k * c \in Nat /\ k1 * c1 \in Nat /\ k * c1 \in Nat
    BY Z3
  <1>2. k * c <= k * c1
    BY Z3
  <1>3. k * c1 <= k1 * c1
    BY Z3
  <1>4. ASSUME NEW d \in Nat, k + d <= k1 PROVE k * c + d * c1 <= k1 * c1
    <2>1. (k + d) * c1 <= k1 * c1
      BY <1>4, Z3
    <2>2. (k + d) * c1 = k * c1 + d * c1
      BY Z3
    <2>3. d * c1 \in Nat
      BY Z3
    <2> QED BY <1>1, <1>2, <2>1, <2>2, <2>3
  <1> QED BY <1>1, <1>2, <1>3, <1>4

-----------------------------------------------------------------------------
(* The terms of the sums.                                                  *)

(* What a thread is still to add to, and to take from, a group.            *)
Adds(t, g)      == IF t \in Counting(g) THEN Above0(loc[t].count) ELSE 0
Takes(t, g)     == IF t \in Counting(g) THEN Above0(- loc[t].count) ELSE 0
QuitTakes(t, g) == IF t \in QuitCounting(g) THEN Above0(- loc[t].count) ELSE 0

(* The number of units of an integer is a number.                          *)
LEMMA ShareTypes ==
  ASSUME TypeOK, NEW t \in Threads, NEW g
  PROVE  /\ loc[t].count \in Int /\ - loc[t].count \in Int
         /\ Adds(t, g) \in Nat /\ Takes(t, g) \in Nat /\ QuitTakes(t, g) \in Nat
  <1>1. loc[t].count \in Int
    BY DEF TypeOK, Locals
  <1> DEFINE n == loc[t].count
             m == - loc[t].count
  <1>2. n \in Int /\ m \in Int
    BY <1>1
  <1> HIDE DEF n, m
  <1>3. Above0(n) \in Nat /\ Above0(m) \in Nat
    BY <1>2 DEF Above0
  <1> QED BY <1>2, <1>3 DEF Adds, Takes, QuitTakes, n, m

(* The larger of two numbers.                                              *)
LEMMA MaxOfTwo ==
  ASSUME NEW a \in Int, NEW b \in Int
  PROVE  Max({a, b}) \in {a, b} /\ Max({a, b}) >= a /\ Max({a, b}) >= b
  <1>1. \E x \in {a, b} : \A y \in {a, b} : x >= y
    <2>1. CASE a >= b
      BY <2>1
    <2>2. CASE b >= a
      BY <2>2
    <2> QED BY <2>1, <2>2
  <1>2. Max({a, b}) \in {a, b} /\ \A y \in {a, b} : Max({a, b}) >= y
    BY <1>1 DEF Max
  <1> QED BY <1>2

(* All terms are numbers, and the cost of a loss is at least 1 and at      *)
(* least any number of rows of the group.                                  *)
LEMMA TermTypes ==
  ASSUME TypeOK, NEW g
  PROVE  /\ Cardinality(ToAdd(g)) \in Nat /\ Cardinality(ToTake(g)) \in Nat
         /\ Cardinality(QuitToTake(g)) \in Nat
         /\ IsFiniteSet(Active(g)) /\ Cardinality(Active(g)) \in Nat
         /\ Losses \in Nat /\ Cost(g) \in Nat /\ Cost(g) >= 1
         /\ \A us : /\ IsFiniteSet(RowsOf(g, us)) /\ Cardinality(RowsOf(g, us)) \in Nat
                    /\ us \subseteq Users => Cardinality(RowsOf(g, us)) <= Cost(g)
  <1>1. /\ Counting(g) \in SUBSET Threads /\ QuitCounting(g) \in SUBSET Threads
        /\ [t \in Threads |-> loc[t].count] \in [Threads -> Int]
        /\ [t \in Threads |-> - loc[t].count] \in [Threads -> Int]
    BY ShareTypes DEF Counting, QuitCounting
  <1>2. /\ Cardinality(ToAdd(g)) \in Nat /\ Cardinality(ToTake(g)) \in Nat
        /\ Cardinality(QuitToTake(g)) \in Nat
    BY <1>1, UnitsFinite DEF ToAdd, ToTake, QuitToTake
  <1>3. IsFiniteSet(Active(g)) /\ Cardinality(Active(g)) \in Nat
    <2>1. Active(g) \in SUBSET DOMAIN relations
      BY DEF Active
    <2> QED BY <2>1, RowsFinite
  <1>4. ASSUME NEW us
        PROVE  IsFiniteSet(RowsOf(g, us)) /\ Cardinality(RowsOf(g, us)) \in Nat
    <2>1. RowsOf(g, us) \in SUBSET DOMAIN relations
      BY DEF RowsOf
    <2> QED BY <2>1, RowsFinite
  <1>5. Losses \in Nat
    <2>1. Cardinality(Threads) \in Nat
      BY GroupThreadsAssumption, FS_CardinalityType
    <2>2. boot \in Nat /\ faults \in Nat
      BY DEF TypeOK
    <2>3. boot * Cardinality(Threads) \in Nat
      BY <2>1, <2>2
    <2> QED BY <2>2, <2>3 DEF Losses
  <1>6. Cost(g) \in Nat /\ Cost(g) >= 1 /\ Cost(g) >= Cardinality(RowsOf(g, Users))
    <2> DEFINE n == Cardinality(RowsOf(g, Users))
    <2>1. n \in Nat /\ n \in Int /\ 1 \in Int
      BY <1>4
    <2> HIDE DEF n
    <2>2. Max({1, n}) \in {1, n} /\ Max({1, n}) >= 1 /\ Max({1, n}) >= n
      BY <2>1, MaxOfTwo
    <2> QED BY <2>1, <2>2 DEF Cost, n
  <1>7. ASSUME NEW us \in SUBSET Users
        PROVE  Cardinality(RowsOf(g, us)) <= Cost(g)
    <2>1. RowsOf(g, us) \subseteq RowsOf(g, Users)
      BY DEF RowsOf
    <2>2. Cardinality(RowsOf(g, us)) <= Cardinality(RowsOf(g, Users))
      BY <1>4, <2>1, FS_Subset
    <2> QED BY <1>4, <1>6, <2>2
  <1> QED BY <1>2, <1>3, <1>4, <1>5, <1>6, <1>7

(* When one thread moves, each sum changes by that thread's terms.         *)
LEMMA CountsMove ==
  ASSUME TypeOK, TypeOK', NEW t \in Threads, NEW g,
         \A o \in Threads \ {t} : pc'[o] = pc[o] /\ loc'[o] = loc[o]
  PROVE  /\ Cardinality(ToAdd(g)') = Cardinality(ToAdd(g)) - Adds(t, g) + Adds(t, g)'
         /\ Cardinality(ToTake(g)') = Cardinality(ToTake(g)) - Takes(t, g) + Takes(t, g)'
         /\ Cardinality(QuitToTake(g)') =
              Cardinality(QuitToTake(g)) - QuitTakes(t, g) + QuitTakes(t, g)'
  <1> DEFINE add  == [o \in Threads |-> loc[o].count]
             take == [o \in Threads |-> - loc[o].count]
             add1  == [o \in Threads |-> loc'[o].count]
             take1 == [o \in Threads |-> - loc'[o].count]
             ts == Counting(g)
             ts1 == Counting(g)'
             qs == QuitCounting(g)
             qs1 == QuitCounting(g)'
  <1>1. /\ ts \in SUBSET Threads /\ ts1 \in SUBSET Threads
        /\ qs \in SUBSET Threads /\ qs1 \in SUBSET Threads
    BY DEF Counting, QuitCounting
  <1>2. add \in [Threads -> Int] /\ take \in [Threads -> Int]
    BY ShareTypes
  <1>3. add1 \in [Threads -> Int] /\ take1 \in [Threads -> Int]
    <2>1. \A o \in Threads : loc'[o].count \in Int /\ - loc'[o].count \in Int
      BY DEF TypeOK, Locals
    <2> QED BY <2>1
  <1>4. \A o \in Threads \ {t} : /\ o \in ts <=> o \in ts1
                                 /\ o \in qs <=> o \in qs1
                                 /\ add1[o] = add[o] /\ take1[o] = take[o]
    BY DEF Counting, QuitCounting
  <1>5. /\ ToAdd(g) = Units(ts, add) /\ ToAdd(g)' = Units(ts1, add1)
        /\ ToTake(g) = Units(ts, take) /\ ToTake(g)' = Units(ts1, take1)
        /\ QuitToTake(g) = Units(qs, take) /\ QuitToTake(g)' = Units(qs1, take1)
    BY DEF ToAdd, ToTake, QuitToTake
  <1>6. /\ Adds(t, g) = Share(ts, add, t) /\ Adds(t, g)' = Share(ts1, add1, t)
        /\ Takes(t, g) = Share(ts, take, t) /\ Takes(t, g)' = Share(ts1, take1, t)
        /\ QuitTakes(t, g) = Share(qs, take, t) /\ QuitTakes(t, g)' = Share(qs1, take1, t)
    BY DEF Adds, Takes, QuitTakes, Share, Above0
  <1> HIDE DEF add, take, add1, take1, ts, ts1, qs, qs1
  <1>7. Cardinality(Units(ts1, add1)) =
          Cardinality(Units(ts, add)) - Share(ts, add, t) + Share(ts1, add1, t)
    BY <1>1, <1>2, <1>3, <1>4, UnitsMove
  <1>8. Cardinality(Units(ts1, take1)) =
          Cardinality(Units(ts, take)) - Share(ts, take, t) + Share(ts1, take1, t)
    BY <1>1, <1>2, <1>3, <1>4, UnitsMove
  <1>9. Cardinality(Units(qs1, take1)) =
          Cardinality(Units(qs, take)) - Share(qs, take, t) + Share(qs1, take1, t)
    BY <1>1, <1>2, <1>3, <1>4, UnitsMove
  <1> QED BY <1>5, <1>6, <1>7, <1>8, <1>9

(* The rows of a group never become fewer, so a loss never costs less.     *)
LEMMA CostGrows ==
  ASSUME Grown, NEW g
  PROVE  /\ \A us : Cardinality(RowsOf(g, us)) <= Cardinality(RowsOf(g, us)')
         /\ Cost(g) <= Cost(g)'
  <1>1. ASSUME NEW us PROVE Cardinality(RowsOf(g, us)) <= Cardinality(RowsOf(g, us)')
    <2>1. RowsOf(g, us) \subseteq RowsOf(g, us)'
      BY TablesGrow DEF RowsOf, Grown, RowsKept
    <2>2. IsFiniteSet(RowsOf(g, us)')
      <3>1. DOMAIN relations' = 1 .. Len(relations') /\ Len(relations') \in Nat
        BY LenProperties DEF Grown, TypeOK
      <3>2. RowsOf(g, us)' \subseteq DOMAIN relations' /\ IsFiniteSet(1 .. Len(relations'))
        BY <3>1, FS_Interval DEF RowsOf
      <3> QED BY <3>1, <3>2, FS_Subset
    <2> QED BY <2>1, <2>2, FS_Subset
  <1>2. Cost(g) <= Cost(g)'
    <2> DEFINE n == Cardinality(RowsOf(g, Users))
               m == Cardinality(RowsOf(g, Users)')
    <2>1. n \in Nat /\ m \in Nat /\ n <= m
      <3>1. n \in Nat
        BY TermTypes DEF Grown
      <3>2. RowsOf(g, Users)' \subseteq DOMAIN relations' /\ IsFiniteSet(DOMAIN relations')
        <4>1. DOMAIN relations' = 1 .. Len(relations') /\ Len(relations') \in Nat
          BY LenProperties DEF Grown, TypeOK
        <4> QED BY <4>1, FS_Interval DEF RowsOf
      <3> QED BY <1>1, <3>1, <3>2, FS_Subset, FS_CardinalityType
    <2>2. Cost(g) = Max({1, n}) /\ Cost(g)' = Max({1, m})
      BY DEF Cost
    <2> HIDE DEF n, m
    <2>3. /\ Max({1, n}) \in {1, n} /\ Max({1, n}) >= 1 /\ Max({1, n}) >= n
          /\ Max({1, m}) \in {1, m} /\ Max({1, m}) >= 1 /\ Max({1, m}) >= m
      BY <2>1, MaxOfTwo
    <2> QED BY <2>1, <2>2, <2>3
  <1> QED BY <1>1, <1>2

(* What a loss costs is a number after a step, too, and no less.           *)
LEMMA CostAfter ==
  ASSUME Grown, NEW g
  PROVE  /\ Cost(g) \in Nat /\ Cost(g)' \in Nat /\ Cost(g) >= 1 /\ Cost(g) <= Cost(g)'
         /\ Losses \in Nat /\ Losses' \in Nat
  <1>1. Cost(g) \in Nat /\ Cost(g) >= 1 /\ Cost(g) <= Cost(g)' /\ Losses \in Nat
    BY TermTypes, CostGrows DEF Grown
  <1>2. Cost(g)' \in Nat
    <2> DEFINE m == Cardinality(RowsOf(g, Users)')
    <2>1. m \in Nat
      <3>1. DOMAIN relations' = 1 .. Len(relations') /\ Len(relations') \in Nat
        BY LenProperties DEF Grown, TypeOK
      <3>2. RowsOf(g, Users)' \subseteq DOMAIN relations' /\ IsFiniteSet(DOMAIN relations')
        BY <3>1, FS_Interval DEF RowsOf
      <3> QED BY <3>2, FS_Subset, FS_CardinalityType
    <2>2. Cost(g)' = Max({1, m})
      BY DEF Cost
    <2> HIDE DEF m
    <2>3. Max({1, m}) \in {1, m}
      BY <2>1, MaxOfTwo
    <2> QED BY <2>1, <2>2, <2>3
  <1>3. Losses' \in Nat
    <2>1. Cardinality(Threads) \in Nat
      BY GroupThreadsAssumption, FS_CardinalityType
    <2>2. boot' \in Nat /\ faults' \in Nat
      BY DEF Grown, TypeOK
    <2>3. boot' * Cardinality(Threads) \in Nat
      BY <2>1, <2>2
    <2> QED BY <2>2, <2>3 DEF Losses
  <1> QED BY <1>1, <1>2, <1>3

-----------------------------------------------------------------------------
(* What the statements do to the rows that are counted.                    *)

(* The INSERT of JoinGroup counts the rows it adds, or one less for a      *)
(* failure.                                                                *)
LEMMA JoinInsertCounts ==
  ASSUME TypeOK, NEW t \in Threads, WorkOK(t), CountOK(t), JoinInsert(t)
  PROVE  \/ /\ faults' = faults /\ loc'[t].count \in Nat
            /\ \A g : Cardinality(Active(g)') =
                 Cardinality(Active(g)) + (IF g = loc[t].group THEN loc'[t].count ELSE 0)
            /\ loc'[t].count <= Cardinality(RowsOf(loc[t].group, Users \ loc[t].found)')
            /\ \A i \in DOMAIN relations : relations'[i] = relations[i]
            /\ \A i \in DOMAIN relations' \ DOMAIN relations :
                 /\ relations'[i].groupId = loc[t].group /\ relations'[i].status = 1
                 /\ \E k \in loc[t].missing : relations'[i].userId = req[t].users[k]
         \/ faults' = faults + 1 /\ loc'[t].count \in {-1, 0} /\ relations' = relations
  <1> DEFINE m == Cardinality(loc[t].missing)
             new == DOMAIN relations' \ DOMAIN relations
             h == loc[t].group
  <1>0. pc[t] = "join_insert"
    BY DEF JoinInsert
  <1>1. CASE /\ Sound /\ loc' = [loc EXCEPT ![t].count = m]
             /\ \E p \in InOrder(loc[t].missing) : relations' = relations \o NewRelations(t, p)
    <2>0. PICK p \in InOrder(loc[t].missing) : relations' = relations \o NewRelations(t, p)
      BY <1>1
    <2>1. /\ relations' \in Seq(RelationRows) /\ m \in Nat
          /\ Len(relations') = Len(relations) + m
          /\ \A i \in DOMAIN relations : relations'[i] = relations[i]
          /\ \A i \in new :
               /\ relations'[i].groupId = loc[t].group
               /\ relations'[i].status = 1
               /\ \E k \in loc[t].missing : relations'[i].userId = req[t].users[k]
      BY <1>0, <2>0, InsertShape
    <2>2. DOMAIN relations = 1 .. Len(relations) /\ Len(relations) \in Nat
      BY TableTypes
    <2>3. DOMAIN relations' = 1 .. Len(relations) + m
      BY <2>1, LenProperties
    <2>4. new = Len(relations) + 1 .. Len(relations) + m
      BY <2>1, <2>2, <2>3
    <2>5. IsFiniteSet(new) /\ Cardinality(new) = m
      <3>1. /\ Len(relations) + 1 \in Int /\ Len(relations) + m \in Int
            /\ (Len(relations) + m) - (Len(relations) + 1) + 1 = m
            /\ Len(relations) + 1 > Len(relations) + m <=> m = 0
        BY <2>1, <2>2
      <3> HIDE DEF m, new
      <3>2. /\ IsFiniteSet(Len(relations) + 1 .. Len(relations) + m)
            /\ Cardinality(Len(relations) + 1 .. Len(relations) + m) =
                 IF Len(relations) + 1 > Len(relations) + m THEN 0
                 ELSE (Len(relations) + m) - (Len(relations) + 1) + 1
        BY <3>1, FS_Interval
      <3> QED BY <2>4, <3>1, <3>2
    <2>6. loc'[t].count = m /\ faults' = faults
      <3>1. loc' = WithCount(t, m) /\ m \in Int
        BY <1>1, <2>1 DEF WithCount
      <3> HIDE DEF m
      <3> QED BY <1>1, <3>1, CountUpdate DEF Sound
    <2> HIDE DEF new
    <2>7. ASSUME NEW g
          PROVE  Cardinality(Active(g)') =
                   Cardinality(Active(g)) + (IF g = h THEN m ELSE 0)
      <3>1. IsFiniteSet(Active(g)) /\ Cardinality(Active(g)) \in Nat
        BY TermTypes
      <3>2. CASE g = h
        <4>1. Active(g)' = Active(g) \cup new
          BY <2>1, <2>2, <2>3, <3>2 DEF Active, new
        <4>2. Active(g) \cap new = {}
          BY DEF Active, new
        <4>3. Cardinality(Active(g) \cap new) = 0
          BY <4>2, FS_EmptySet
        <4>4. Cardinality(Active(g) \cup new) =
                Cardinality(Active(g)) + Cardinality(new) - Cardinality(Active(g) \cap new)
          BY <2>5, <3>1, FS_Union
        <4> HIDE DEF m
        <4> QED BY <2>1, <2>5, <3>1, <3>2, <4>1, <4>3, <4>4
      <3>3. CASE g # h
        <4>1. Active(g)' = Active(g)
          BY <2>1, <2>2, <2>3, <3>3 DEF Active, new
        <4> QED BY <3>1, <3>3, <4>1
      <3> QED BY <3>2, <3>3
    <2>8. m <= Cardinality(RowsOf(h, Users \ loc[t].found)')
      <3>1. req[t].users \in Seq(Users) /\ loc[t].missing \subseteq DOMAIN req[t].users
        BY <1>0, UserListsAssumption DEF WorkOK, TypeOK, Requests
      <3>2. \A k \in loc[t].missing : req[t].users[k] \in Users \ loc[t].found
        BY <1>0, <3>1, ElementOfSeq, LenProperties DEF CountOK
      <3>3. \A i \in new : relations'[i].groupId = h /\ relations'[i].userId \in Users \ loc[t].found
        BY <2>1, <3>2 DEF new
      <3>4. new \subseteq RowsOf(h, Users \ loc[t].found)'
        <4>1. loc'[t].found = loc[t].found /\ loc'[t].group = h
          BY WriteStep
        <4> QED BY <3>3, <4>1 DEF RowsOf, new
      <3>5. IsFiniteSet(RowsOf(h, Users \ loc[t].found)')
        <4>1. RowsOf(h, Users \ loc[t].found)' \subseteq DOMAIN relations'
          BY DEF RowsOf
        <4>2. PICK n \in Int : DOMAIN relations' = 1 .. n
          BY <2>1, <2>2, <2>3
        <4>3. IsFiniteSet(DOMAIN relations')
          BY <4>2, FS_Interval
        <4> QED BY <4>1, <4>3, FS_Subset
      <3> QED BY <2>5, <3>4, <3>5, FS_Subset
    <2> QED BY <2>1, <2>6, <2>7, <2>8 DEF new
  <1>2. CASE /\ Fault(t) /\ UNCHANGED relations
             /\ \E e \in ExecErrors : loc' = [loc EXCEPT ![t].count = e]
    <2>1. PICK e \in {-1, 0} : loc' = WithCount(t, e)
      BY <1>2 DEF ExecErrors, WithCount
    <2>2. loc'[t].count = e
      BY <2>1, CountUpdate
    <2> QED BY <1>2, <2>2 DEF Fault
  <1> QED BY <1>1, <1>2 DEF JoinInsert

(* An UPDATE of the status of rows of one group adds the rows that had     *)
(* left to the active ones, or takes those that had not from them.         *)
LEMMA StatusCounts ==
  ASSUME TypeOK, NEW h, NEW us, NEW s \in {0, 1},
         relations' = SetStatus(RowsOf(h, us), s)
  PROVE  /\ \A g : Cardinality(Active(g)') = Cardinality(Active(g)) +
              (IF g # h THEN 0
               ELSE IF s = 1 THEN Cardinality({i \in RowsOf(h, us) : relations[i].status = 0})
               ELSE - Cardinality({i \in RowsOf(h, us) : relations[i].status = 1}))
         /\ DOMAIN relations' = DOMAIN relations
         /\ \A i \in DOMAIN relations :
              /\ relations'[i].groupId = relations[i].groupId
              /\ relations'[i].userId = relations[i].userId
              /\ relations'[i].status = IF i \in RowsOf(h, us) THEN s ELSE relations[i].status
  <1> DEFINE rows == RowsOf(h, us)
             gone == {i \in rows : relations[i].status = 0}
             here == {i \in rows : relations[i].status = 1}
  <1>1. /\ DOMAIN relations = 1 .. Len(relations) /\ Len(relations) \in Nat
        /\ \A i \in DOMAIN relations : relations[i].status \in {0, 1}
    BY TableTypes DEF RelationRows
  <1>2. /\ rows \in SUBSET DOMAIN relations /\ gone \in SUBSET DOMAIN relations
        /\ here \in SUBSET DOMAIN relations /\ \A i \in rows : relations[i].groupId = h
    BY DEF RowsOf
  <1>3. /\ IsFiniteSet(gone) /\ Cardinality(gone) \in Nat
        /\ IsFiniteSet(here) /\ Cardinality(here) \in Nat
    BY <1>2, RowsFinite
  <1> HIDE DEF rows
  <1>4. /\ relations' \in Seq(RelationRows) /\ Len(relations') = Len(relations)
        /\ \A i \in DOMAIN relations :
             /\ relations'[i].groupId = relations[i].groupId
             /\ relations'[i].userId = relations[i].userId
             /\ relations'[i].status = IF i \in rows THEN s ELSE relations[i].status
    <2>1. relations' = SetStatus(rows, s)
      BY DEF rows
    <2> QED BY <2>1, SetStatusShape
  <1>5. DOMAIN relations' = DOMAIN relations
    BY <1>1, <1>4, LenProperties
  <1>6. ASSUME NEW g
        PROVE  Cardinality(Active(g)') = Cardinality(Active(g)) +
                 (IF g # h THEN 0 ELSE IF s = 1 THEN Cardinality(gone) ELSE - Cardinality(here))
    <2>1. IsFiniteSet(Active(g)) /\ Cardinality(Active(g)) \in Nat
      BY TermTypes
    <2>2. CASE g # h
      <3>1. Active(g)' = Active(g)
        BY <1>2, <1>4, <1>5, <2>2 DEF Active
      <3> QED BY <2>1, <2>2, <3>1
    <2>3. CASE g = h /\ s = 1
      <3>1. Active(g)' = Active(g) \cup gone
        BY <1>1, <1>2, <1>4, <1>5, <2>3 DEF Active
      <3>2. Active(g) \cap gone = {}
        BY DEF Active
      <3>3. Cardinality(Active(g) \cap gone) = 0
        BY <3>2, FS_EmptySet
      <3> HIDE DEF gone
      <3>4. Cardinality(Active(g) \cup gone) =
              Cardinality(Active(g)) + Cardinality(gone) - Cardinality(Active(g) \cap gone)
        BY <1>3, <2>1, FS_Union
      <3> QED BY <1>3, <2>1, <2>3, <3>1, <3>3, <3>4
    <2>4. CASE g = h /\ s = 0
      <3>1. Active(g)' = Active(g) \ here
        BY <1>1, <1>2, <1>4, <1>5, <2>4 DEF Active
      <3>2. Active(g) \cap here = here
        BY <1>2, <2>4 DEF Active
      <3> HIDE DEF here
      <3>3. Cardinality(Active(g) \ here) =
              Cardinality(Active(g)) - Cardinality(Active(g) \cap here)
        BY <2>1, FS_Difference
      <3>4. s # 1
        BY <2>4
      <3> QED BY <1>3, <2>1, <2>4, <3>1, <3>2, <3>3, <3>4
    <2> QED BY <2>2, <2>3, <2>4
  <1> QED BY <1>4, <1>5, <1>6 DEF rows

(* The UPDATE of JoinGroup counts the rows that come back, or one less for *)
(* a failure; what it has counted are rows of the group.                   *)
LEMMA JoinUpdateCounts ==
  ASSUME TypeOK, NEW t \in Threads, WorkOK(t), CountOK(t), JoinUpdate(t)
  PROVE  /\ loc'[t].count <= Cost(loc[t].group)
         /\ \/ /\ faults' = faults /\ loc'[t].count - loc[t].count \in Nat
               /\ \A g : Cardinality(Active(g)') = Cardinality(Active(g)) +
                    (IF g = loc[t].group THEN loc'[t].count - loc[t].count ELSE 0)
               /\ relations' = SetStatus(RowsOf(loc[t].group, loc[t].found), 1)
            \/ /\ faults' = faults + 1 /\ loc'[t].count - loc[t].count \in {-1, 0}
               /\ relations' = relations
  <1> DEFINE h    == loc[t].group
             rows == RowsOf(h, loc[t].found)
             back == {i \in rows : relations[i].status = 0}
             rest == RowsOf(h, Users \ loc[t].found)
  <1>0. /\ pc[t] = "join_update" /\ loc[t].count \in Int
        /\ loc[t].count <= Cardinality(rest) /\ loc[t].found \subseteq Users
    BY ShareTypes DEF JoinUpdate, CountOK, TypeOK, Locals
  <1>1. /\ IsFiniteSet(back) /\ Cardinality(back) \in Nat
        /\ IsFiniteSet(rest) /\ Cardinality(rest) \in Nat
        /\ Cost(h) \in Nat /\ Cardinality(rest) <= Cost(h)
    <2>1. back \in SUBSET DOMAIN relations
      BY DEF RowsOf
    <2> QED BY <2>1, RowsFinite, TermTypes
  <1>2. loc[t].count + Cardinality(back) <= Cost(h)
    <2>1. back \cap rest = {}
      BY DEF RowsOf
    <2>2. back \cup rest \subseteq RowsOf(h, Users)
      BY <1>0 DEF RowsOf
    <2>3. Cardinality(back \cap rest) = 0
      BY <2>1, FS_EmptySet
    <2>4. IsFiniteSet(RowsOf(h, Users)) /\ Cardinality(RowsOf(h, Users)) <= Cost(h)
          /\ Cardinality(RowsOf(h, Users)) \in Nat
      BY TermTypes
    <2> HIDE DEF back, rest
    <2>5. Cardinality(back \cup rest) =
            Cardinality(back) + Cardinality(rest) - Cardinality(back \cap rest)
      BY <1>1, FS_Union
    <2>6. Cardinality(back \cup rest) <= Cardinality(RowsOf(h, Users))
      BY <2>2, <2>4, FS_Subset
    <2> QED BY <1>0, <1>1, <2>3, <2>4, <2>5, <2>6
  <1>3. CASE /\ Sound /\ relations' = SetStatus(rows, 1)
             /\ loc' = [loc EXCEPT ![t].count = @ + Cardinality(back)]
    <2>1. loc'[t].count = loc[t].count + Cardinality(back)
      <3>1. loc' = WithCount(t, loc[t].count + Cardinality(back))
        BY <1>3 DEF WithCount
      <3>2. loc[t].count + Cardinality(back) \in Int
        BY <1>0, <1>1
      <3> HIDE DEF back
      <3> QED BY <3>1, <3>2, CountUpdate
    <2>2. \A g : Cardinality(Active(g)') =
                   Cardinality(Active(g)) + (IF g = h THEN Cardinality(back) ELSE 0)
      <3> DEFINE us == loc[t].found
      <3>1. relations' = SetStatus(RowsOf(h, us), 1)
        BY <1>3
      <3> HIDE DEF us
      <3>2. \A g : Cardinality(Active(g)') = Cardinality(Active(g)) +
              (IF g # h THEN 0 ELSE Cardinality({i \in RowsOf(h, us) : relations[i].status = 0}))
        BY <3>1, StatusCounts
      <3> QED BY <3>2 DEF us
    <2>3. loc'[t].count - loc[t].count = Cardinality(back)
      <3> HIDE DEF back
      <3> QED BY <1>0, <1>1, <2>1
    <2> HIDE DEF back
    <2>4. loc'[t].count <= Cost(h)
      BY <1>2, <2>1
    <2> QED BY <1>1, <1>3, <2>2, <2>3, <2>4 DEF Sound
  <1>4. CASE /\ Fault(t) /\ UNCHANGED relations
             /\ \E e \in ExecErrors : loc' = [loc EXCEPT ![t].count = @ + e]
    <2>1. PICK e \in {-1, 0} : loc' = WithCount(t, loc[t].count + e)
      BY <1>4 DEF ExecErrors, WithCount
    <2>2. loc'[t].count = loc[t].count + e
      <3>1. loc[t].count + e \in Int
        BY <1>0
      <3> QED BY <2>1, <3>1, CountUpdate
    <2>3. loc'[t].count - loc[t].count = e
      BY <1>0, <2>2
    <2>4. loc'[t].count <= Cost(h)
      BY <1>0, <1>1, <2>2
    <2> QED BY <1>4, <2>3, <2>4 DEF Fault
  <1> QED BY <1>3, <1>4 DEF JoinUpdate

(* The UPDATE of QuitGroup counts all rows of the users it found, at least *)
(* those that were active; or one for a failure.                           *)
LEMMA QuitUpdateCounts ==
  ASSUME TypeOK, NEW t \in Threads, WorkOK(t), QuitUpdate(t)
  PROVE  LET left == {i \in RowsOf(loc[t].group, loc[t].found) : relations[i].status = 1}
         IN  \/ /\ faults' = faults
                /\ Cardinality(left) \in Nat /\ Cardinality(left) <= - loc'[t].count
                /\ - loc'[t].count <= Cost(loc[t].group)
                /\ left = RowsOf(loc[t].group, loc[t].found) => - loc'[t].count = Cardinality(left)
                /\ \A g : Cardinality(Active(g)') = Cardinality(Active(g)) -
                     (IF g = loc[t].group THEN Cardinality(left) ELSE 0)
             \/ faults' = faults + 1 /\ loc'[t].count \in {0, 1} /\ relations' = relations
  <1> DEFINE h    == loc[t].group
             rows == RowsOf(h, loc[t].found)
             left == {i \in rows : relations[i].status = 1}
  <1>0. loc[t].found \subseteq Users
    BY DEF TypeOK, Locals
  <1>1. /\ IsFiniteSet(left) /\ Cardinality(left) \in Nat
        /\ Cardinality(rows) \in Nat /\ Cardinality(rows) <= Cost(h) /\ Cost(h) \in Nat
    <2>1. left \in SUBSET DOMAIN relations
      BY DEF RowsOf
    <2> QED BY <1>0, <2>1, RowsFinite, TermTypes
  <1>2. CASE /\ Sound /\ relations' = SetStatus(rows, 0)
             /\ \E n \in Cardinality(left) .. Cardinality(rows) :
                  loc' = [loc EXCEPT ![t].count = - n]
    <2>1. PICK n \in Cardinality(left) .. Cardinality(rows) : loc' = WithCount(t, - n)
      BY <1>2 DEF WithCount
    <2>2. n \in Int /\ Cardinality(left) <= n /\ n <= Cardinality(rows) /\ - n \in Int
      BY <1>1, <2>1
    <2>3. loc'[t].count = - n
      BY <2>1, <2>2, CountUpdate
    <2>4. \A g : Cardinality(Active(g)') = Cardinality(Active(g)) +
                   (IF g # h THEN 0 ELSE - Cardinality(left))
      BY <1>2, StatusCounts
    <2>5. \A g : Cardinality(Active(g)) \in Nat
      BY TermTypes
    <2> HIDE DEF left, rows
    <2>6. left = rows => n = Cardinality(left)
      BY <1>1, <2>2
    <2>7. \A g : Cardinality(Active(g)') =
                   Cardinality(Active(g)) - (IF g = h THEN Cardinality(left) ELSE 0)
      BY <1>1, <2>4, <2>5
    <2>8. - loc'[t].count = n
      BY <2>2, <2>3
    <2>9. - loc'[t].count <= Cost(h) /\ Cardinality(left) <= - loc'[t].count
      BY <1>1, <2>2, <2>8
    <2> QED BY <1>1, <1>2, <2>6, <2>7, <2>8, <2>9 DEF Sound, left, rows
  <1>3. CASE /\ Fault(t) /\ UNCHANGED relations
             /\ \E e \in ExecErrors : loc' = [loc EXCEPT ![t].count = - e]
    <2>1. PICK e \in {-1, 0} : loc' = WithCount(t, - e)
      BY <1>3 DEF ExecErrors, WithCount
    <2>2. loc'[t].count = - e
      BY <2>1, CountUpdate
    <2> QED BY <1>3, <2>2 DEF Fault
  <1> QED BY <1>2, <1>3 DEF QuitUpdate

-----------------------------------------------------------------------------
(* What the steps of a thread do to memberCnt and what is to be added.     *)

(* What a thread's count contributes to Drift and to Excess.               *)
Net(t, g) == IF t \in Counting(g) THEN loc[t].count ELSE 0
Gross(t, g) ==
  IF t \notin Counting(g) THEN 0
  ELSE IF pc[t] = "quit_count" THEN loc[t].count ELSE Above0(loc[t].count)

(* An integer is what it stands for on either side.                        *)
LEMMA Above0Facts ==
  ASSUME NEW n \in Int
  PROVE  /\ Above0(n) \in Nat /\ Above0(- n) \in Nat /\ Above0(n) - Above0(- n) = n
         /\ Above0(n) >= n
  BY DEF Above0

(* A thread's terms, before a step.                                        *)
LEMMA OwnTerms ==
  ASSUME TypeOK, NEW t \in Threads, NEW g
  PROVE  /\ Adds(t, g) - Takes(t, g) = Net(t, g) /\ Adds(t, g) - QuitTakes(t, g) = Gross(t, g)
         /\ Adds(t, g) \in Nat /\ Takes(t, g) \in Nat /\ QuitTakes(t, g) \in Nat
  <1> DEFINE n == loc[t].count
  <1>1. n \in Int
    BY ShareTypes
  <1>2. QuitTakes(t, g) = IF t \in Counting(g) /\ pc[t] = "quit_count" THEN Above0(- n) ELSE 0
    BY DEF QuitTakes, QuitCounting
  <1> HIDE DEF n
  <1>3. /\ Above0(n) \in Nat /\ Above0(- n) \in Nat /\ Above0(n) - Above0(- n) = n
    BY <1>1, Above0Facts
  <1>4. /\ Adds(t, g) = IF t \in Counting(g) THEN Above0(n) ELSE 0
        /\ Takes(t, g) = IF t \in Counting(g) THEN Above0(- n) ELSE 0
        /\ Net(t, g) = IF t \in Counting(g) THEN n ELSE 0
        /\ Gross(t, g) = IF t \notin Counting(g) THEN 0
                         ELSE IF pc[t] = "quit_count" THEN n ELSE Above0(n)
    BY DEF Adds, Takes, Net, Gross, n
  <1> QED BY <1>2, <1>3, <1>4

(* A thread's terms, after it.                                             *)
LEMMA OwnTermsAfter ==
  ASSUME TypeOK', NEW t \in Threads, NEW g
  PROVE  /\ Adds(t, g)' - Takes(t, g)' = Net(t, g)'
         /\ Adds(t, g)' - QuitTakes(t, g)' = Gross(t, g)'
         /\ Adds(t, g)' \in Nat /\ Takes(t, g)' \in Nat /\ QuitTakes(t, g)' \in Nat
  <1> DEFINE n == loc'[t].count
             c == t \in Counting(g)'
  <1>1. n \in Int
    BY DEF TypeOK, Locals
  <1>2. QuitTakes(t, g)' = IF c /\ pc'[t] = "quit_count" THEN Above0(- n) ELSE 0
    BY DEF QuitTakes, QuitCounting, Above0
  <1>4. /\ Adds(t, g)' = IF c THEN Above0(n) ELSE 0
        /\ Takes(t, g)' = IF c THEN Above0(- n) ELSE 0
        /\ Net(t, g)' = IF c THEN n ELSE 0
        /\ Gross(t, g)' = IF ~ c THEN 0 ELSE IF pc'[t] = "quit_count" THEN n ELSE Above0(n)
    BY DEF Adds, Takes, Net, Gross, Above0
  <1> HIDE DEF n, c
  <1>3. /\ Above0(n) \in Nat /\ Above0(- n) \in Nat /\ Above0(n) - Above0(- n) = n
    BY <1>1, Above0Facts
  <1> QED BY <1>2, <1>3, <1>4

(* Drift and Excess are integers.                                          *)
LEMMA DriftTypes ==
  ASSUME TypeOK, NEW g \in DOMAIN groups
  PROVE  Drift(g) \in Int /\ Excess(g) \in Int /\ groups[g].memberCnt \in Int
  <1>1. groups[g].memberCnt \in Int
    BY TableTypes DEF GroupRows
  <1> QED BY <1>1, TermTypes DEF Drift, Excess

(* Drift and Excess change by what the step does to memberCnt, to the      *)
(* active relations and to the count of the thread that takes it.          *)
LEMMA DriftMoves ==
  ASSUME Grown, NEW t \in Threads, NEW g \in DOMAIN groups,
         \A o \in Threads \ {t} : pc'[o] = pc[o] /\ loc'[o] = loc[o]
  PROVE  /\ Drift(g) \in Int /\ Excess(g) \in Int
         /\ Cardinality(Active(g)) \in Nat /\ Cardinality(Active(g)') \in Nat
         /\ groups[g].memberCnt \in Int /\ groups'[g].memberCnt \in Int
         /\ Net(t, g) \in Int /\ Net(t, g)' \in Int /\ Gross(t, g) \in Int /\ Gross(t, g)' \in Int
         /\ Drift(g)' = Drift(g) + (groups'[g].memberCnt - groups[g].memberCnt)
                          + (Net(t, g)' - Net(t, g))
                          - (Cardinality(Active(g)') - Cardinality(Active(g)))
         /\ Excess(g)' = Excess(g) + (groups'[g].memberCnt - groups[g].memberCnt)
                           + (Gross(t, g)' - Gross(t, g))
                           - (Cardinality(Active(g)') - Cardinality(Active(g)))
  <1> USE DEF Grown
  <1>1. /\ Cardinality(ToAdd(g)') = Cardinality(ToAdd(g)) - Adds(t, g) + Adds(t, g)'
        /\ Cardinality(ToTake(g)') = Cardinality(ToTake(g)) - Takes(t, g) + Takes(t, g)'
        /\ Cardinality(QuitToTake(g)') =
             Cardinality(QuitToTake(g)) - QuitTakes(t, g) + QuitTakes(t, g)'
    BY CountsMove
  <1>2. /\ Adds(t, g) - Takes(t, g) = Net(t, g) /\ Adds(t, g) - QuitTakes(t, g) = Gross(t, g)
        /\ Adds(t, g) \in Nat /\ Takes(t, g) \in Nat /\ QuitTakes(t, g) \in Nat
    BY OwnTerms
  <1>3. /\ Adds(t, g)' - Takes(t, g)' = Net(t, g)'
        /\ Adds(t, g)' - QuitTakes(t, g)' = Gross(t, g)'
        /\ Adds(t, g)' \in Nat /\ Takes(t, g)' \in Nat /\ QuitTakes(t, g)' \in Nat
    BY OwnTermsAfter
  <1>4. /\ Cardinality(ToAdd(g)) \in Nat /\ Cardinality(ToTake(g)) \in Nat
        /\ Cardinality(QuitToTake(g)) \in Nat /\ Cardinality(Active(g)) \in Nat
        /\ groups[g].memberCnt \in Int
    BY TermTypes, DriftTypes
  <1>5. groups'[g].memberCnt \in Int
    <2>1. g \in DOMAIN groups'
      BY TablesGrow
    <2>2. groups'[g] \in GroupRows
      BY <2>1, LenProperties, ElementOfSeq DEF TypeOK
    <2> QED BY <2>2 DEF GroupRows
  <1>6. Cardinality(Active(g)') \in Nat
    <2>1. DOMAIN relations' = 1 .. Len(relations') /\ Len(relations') \in Nat
      BY LenProperties DEF TypeOK
    <2>2. Active(g)' \subseteq DOMAIN relations' /\ IsFiniteSet(DOMAIN relations')
      BY <2>1, FS_Interval DEF Active
    <2> QED BY <2>2, FS_Subset, FS_CardinalityType
  <1>7. Drift(g)' = groups'[g].memberCnt + Cardinality(ToAdd(g)') - Cardinality(ToTake(g)')
                      - Cardinality(Active(g)')
    BY DEF Drift
  <1>8. Excess(g)' = groups'[g].memberCnt + Cardinality(ToAdd(g)') - Cardinality(QuitToTake(g)')
                       - Cardinality(Active(g)')
    BY DEF Excess
  <1>9. Drift(g) = groups[g].memberCnt + Cardinality(ToAdd(g)) - Cardinality(ToTake(g))
                     - Cardinality(Active(g))
    BY DEF Drift
  <1>10. Excess(g) = groups[g].memberCnt + Cardinality(ToAdd(g)) - Cardinality(QuitToTake(g))
                       - Cardinality(Active(g))
    BY DEF Excess
  <1>11. /\ Net(t, g) \in Int /\ Net(t, g)' \in Int
         /\ Gross(t, g) \in Int /\ Gross(t, g)' \in Int
    BY <1>2, <1>3
  <1>12. Drift(g) \in Int /\ Excess(g) \in Int
    BY <1>4, <1>9, <1>10
  <1>13. Drift(g)' = Drift(g) + (groups'[g].memberCnt - groups[g].memberCnt)
                          + (Net(t, g)' - Net(t, g))
                          - (Cardinality(Active(g)') - Cardinality(Active(g)))
    BY <1>1, <1>2, <1>3, <1>4, <1>5, <1>6, <1>7, <1>9
  <1>14. Excess(g)' = Excess(g) + (groups'[g].memberCnt - groups[g].memberCnt)
                           + (Gross(t, g)' - Gross(t, g))
                           - (Cardinality(Active(g)') - Cardinality(Active(g)))
    BY <1>1, <1>2, <1>3, <1>4, <1>5, <1>6, <1>8, <1>10
  <1> QED BY <1>4, <1>5, <1>6, <1>11, <1>12, <1>13, <1>14

(* The labels of a thread that counts, and of a thread that may change the *)
(* rows that are counted or the number of them.                            *)
CountLabels == {"join_update", "join_count", "quit_count"}
WriteLabels == CountLabels \cup {"join_insert", "quit_update"}

(* The SELECTs start with nothing counted.  JoinGroup's tells the users it *)
(* found to have left from those it will insert, and unless it fails the   *)
(* latter have no relation.                                                *)
LEMMA JoinSelectFinds ==
  ASSUME TypeOK, NEW t \in Threads, JoinSelect(t)
  PROVE  /\ loc'[t].count = 0
         /\ \A k \in loc'[t].missing : req[t].users[k] \notin loc'[t].found
         /\ \/ faults' = faults + 1
            \/ \A k \in loc'[t].missing : ~ Related(loc[t].group, req[t].users[k])
  <1>1. PICK f \in Statuses(loc[t].group, UsersIn(req[t].users)) \cup {<<>>} :
          /\ IF f \in Statuses(loc[t].group, UsersIn(req[t].users)) THEN Sound ELSE Fault(t)
          /\ loc' = [loc EXCEPT
                ![t].missing = {k \in DOMAIN req[t].users : req[t].users[k] \notin DOMAIN f},
                ![t].found = {u \in DOMAIN f : f[u] = 0}, ![t].count = 0]
    BY DEF JoinSelect
  <1> DEFINE missing == {k \in DOMAIN req[t].users : req[t].users[k] \notin DOMAIN f}
             found == {u \in DOMAIN f : f[u] = 0}
  <1>2. req[t].users \in Seq(Users)
    BY UserListsAssumption DEF TypeOK, Requests
  <1>3. DOMAIN req[t].users \subseteq Nat /\ found \subseteq Users
    <2>1. UsersIn(req[t].users) \subseteq Users
      BY <1>2, LenProperties, ElementOfSeq DEF UsersIn
    <2> QED BY <1>2, <2>1, LenProperties, StatusesFound
  <1>4. loc'[t].count = 0 /\ loc'[t].missing = missing /\ loc'[t].found = found
    <2>1. missing \in SUBSET Nat /\ found \in SUBSET Users
      BY <1>3
    <2>2. loc' = WithMissing(t, missing, found)
      BY <1>1 DEF WithMissing
    <2> HIDE DEF missing, found
    <2> QED BY <2>1, <2>2, MissingUpdate
  <1>5. \A k \in missing : req[t].users[k] \notin found
    OBVIOUS
  <1>6. CASE f \notin Statuses(loc[t].group, UsersIn(req[t].users))
    BY <1>1, <1>4, <1>5, <1>6 DEF Fault
  <1>7. CASE f \in Statuses(loc[t].group, UsersIn(req[t].users))
    <2>1. DOMAIN f = {u \in UsersIn(req[t].users) : RowsOf(loc[t].group, {u}) # {}}
      BY <1>7 DEF Statuses
    <2>2. \A k \in missing : ~ Related(loc[t].group, req[t].users[k])
      BY <2>1, RelatedRows DEF UsersIn
    <2> QED BY <1>4, <1>5, <2>2
  <1> QED BY <1>6, <1>7

(* Whoever QuitGroup's SELECT finds has an active relation.                *)
LEMMA QuitSelectFinds ==
  ASSUME TypeOK, NEW t \in Threads, QuitSelect(t)
  PROVE  /\ loc'[t].count = 0
         /\ \A u \in loc'[t].found :
              \E i \in RowsOf(loc[t].group, {u}) : relations[i].status = 1
  <1>1. PICK f \in Statuses(loc[t].group, UsersIn(req[t].users)) \cup {<<>>} :
          loc' = [loc EXCEPT ![t].found = {u \in DOMAIN f : f[u] # 0}, ![t].count = 0]
    BY DEF QuitSelect
  <1> DEFINE found == {u \in DOMAIN f : f[u] # 0}
  <1>2. found \subseteq Users
    <2>1. req[t].users \in Seq(Users)
      BY UserListsAssumption DEF TypeOK, Requests
    <2>2. UsersIn(req[t].users) \subseteq Users
      BY <2>1, LenProperties, ElementOfSeq DEF UsersIn
    <2> QED BY <2>2, StatusesFound
  <1>3. loc'[t].count = 0 /\ loc'[t].found = found
    <2>1. found \in SUBSET Users
      BY <1>2
    <2>2. loc' = WithFound(t, found)
      BY <1>1 DEF WithFound
    <2> HIDE DEF found
    <2> QED BY <2>1, <2>2, FoundUpdate
  <1>4. ASSUME NEW u \in found
        PROVE  \E i \in RowsOf(loc[t].group, {u}) : relations[i].status = 1
    <2>1. CASE f = <<>>
      BY <2>1
    <2>2. CASE f \in Statuses(loc[t].group, UsersIn(req[t].users))
      <3>1. \E i \in RowsOf(loc[t].group, {u}) : relations[i].status = f[u]
        BY <2>2 DEF Statuses
      <3>2. f[u] \in {0, 1} /\ f[u] # 0
        BY <2>2 DEF Statuses
      <3> QED BY <3>1, <3>2
    <2> QED BY <2>1, <2>2
  <1> HIDE DEF found
  <1> QED BY <1>3, <1>4

(* A step at any other label leaves relations and memberCnt alone, and     *)
(* what the thread counts is nothing before and after it.                  *)
LEMMA QuietStep ==
  ASSUME TypeOK, NEW t \in Threads, WorkOK(t), Accept(t) \/ Work(t), pc[t] \notin WriteLabels
  PROVE  /\ relations' = relations
         /\ \A g \in DOMAIN groups : groups'[g].memberCnt = groups[g].memberCnt
         /\ pc'[t] \in CountLabels => loc'[t].count = 0
  <1> USE DEF WriteLabels, CountLabels
  <1>1. CASE Accept(t)
    BY <1>1, AcceptShape
  <1>2. CASE CreateInsert(t)
    BY <1>2, CreateStep, CreateShape
  <1>3. CASE GetGroupInfo(t)
    BY <1>3, GetGroupStep
  <1>4. CASE JoinSelect(t)
    BY <1>4, JoinSelectStep, JoinSelectFinds
  <1>5. CASE QuitSelect(t)
    BY <1>5, QuitSelectStep, QuitSelectFinds
  <1>6. CASE ListGroups(t)
    BY <1>6, ListGroupsStep
  <1>7. CASE GetGroupMembers(t)
    BY <1>7, MembersStep
  <1>8. CASE SendSessionData(t)
    BY <1>8, SendStep
  <1>9. CASE JoinInsert(t) \/ JoinUpdate(t) \/ JoinCount(t) \/ QuitUpdate(t) \/ QuitCount(t)
    BY <1>9 DEF JoinInsert, JoinUpdate, JoinCount, QuitUpdate, QuitCount
  <1> QED BY <1>1, <1>2, <1>3, <1>4, <1>5, <1>6, <1>7, <1>8, <1>9 DEF Work

(* What a step may do to a group: nothing that shows, a failed statement's *)
(* damage, or rows that are counted again.                                 *)
Settled(g) == Drift(g)' = Drift(g) /\ Excess(g)' <= Excess(g)
Hurt(g) ==
  /\ faults' = faults + 1
  /\ Drift(g)' >= Drift(g) - Cost(g)' /\ Excess(g)' <= Excess(g) + Cost(g)'
Recounted(t, g) ==
  /\ pc[t] = "quit_update" /\ g = loc[t].group
  /\ Drift(g)' >= Drift(g) - Cost(g)' /\ Excess(g)' <= Excess(g)
  /\ (\A i \in RowsOf(g, loc[t].found) : relations[i].status = 1) => Drift(g)' = Drift(g)

(* Above0 grows with its argument, and not faster.                         *)
LEMMA Above0Grows ==
  ASSUME NEW m \in Int, NEW n \in Int
  PROVE  /\ Above0(m) \in Nat /\ Above0(n) \in Nat
         /\ m <= n => Above0(n) - Above0(m) <= n - m
         /\ n <= m => Above0(n) <= Above0(m)
  BY DEF Above0

(* The statements that write relations leave memberCnt alone.              *)
LEMMA WriteMoves ==
  ASSUME Grown, NEW t \in Threads, WorkOK(t), NEW g \in DOMAIN groups,
         JoinInsert(t) \/ JoinUpdate(t) \/ QuitUpdate(t)
  PROVE  /\ Drift(g) \in Int /\ Excess(g) \in Int
         /\ Cardinality(Active(g)) \in Nat /\ Cardinality(Active(g)') \in Nat
         /\ Drift(g)' = Drift(g) + (Net(t, g)' - Net(t, g))
                          - (Cardinality(Active(g)') - Cardinality(Active(g)))
         /\ Excess(g)' = Excess(g) + (Gross(t, g)' - Gross(t, g))
                           - (Cardinality(Active(g)') - Cardinality(Active(g)))
         /\ Cost(g)' \in Nat /\ Cost(g)' >= 1 /\ Cost(g)' >= Cost(g) /\ Cost(g) \in Nat
         /\ pc[t] \in {"join_insert", "join_update", "quit_update"}
         /\ pc'[t] \in CountLabels /\ loc'[t].group = loc[t].group
         /\ loc[t].count \in Int /\ loc'[t].count \in Int
         /\ Net(t, g)' = IF g = loc[t].group THEN loc'[t].count ELSE 0
  <1>0. TypeOK /\ TypeOK'
    BY DEF Grown
  <1>1. /\ groups' = groups /\ loc'[t].group = loc[t].group
        /\ pc[t] \in {"join_insert", "join_update", "quit_update"} /\ pc'[t] \in CountLabels
    BY <1>0, WriteStep DEF CountLabels
  <1>2. \A o \in Threads \ {t} : pc'[o] = pc[o] /\ loc'[o] = loc[o]
    BY <1>0, Frame DEF Work
  <1>3. groups'[g].memberCnt - groups[g].memberCnt = 0
    BY <1>0, <1>1, DriftTypes
  <1>4. /\ Drift(g) \in Int /\ Excess(g) \in Int
        /\ Cardinality(Active(g)) \in Nat /\ Cardinality(Active(g)') \in Nat
        /\ Net(t, g) \in Int /\ Net(t, g)' \in Int
        /\ Gross(t, g) \in Int /\ Gross(t, g)' \in Int
        /\ Drift(g)' = Drift(g) + (groups'[g].memberCnt - groups[g].memberCnt)
                         + (Net(t, g)' - Net(t, g))
                         - (Cardinality(Active(g)') - Cardinality(Active(g)))
        /\ Excess(g)' = Excess(g) + (groups'[g].memberCnt - groups[g].memberCnt)
                          + (Gross(t, g)' - Gross(t, g))
                          - (Cardinality(Active(g)') - Cardinality(Active(g)))
    BY <1>2, DriftMoves
  <1>5. /\ Drift(g)' = Drift(g) + (Net(t, g)' - Net(t, g))
                          - (Cardinality(Active(g)') - Cardinality(Active(g)))
        /\ Excess(g)' = Excess(g) + (Gross(t, g)' - Gross(t, g))
                           - (Cardinality(Active(g)') - Cardinality(Active(g)))
    BY <1>3, <1>4
  <1>6. loc[t].count \in Int /\ loc'[t].count \in Int
    BY <1>0 DEF TypeOK, Locals
  <1>7. Net(t, g)' = IF g = loc[t].group THEN loc'[t].count ELSE 0
    BY <1>1 DEF Net, Counting, CountLabels
  <1>8. Cost(g)' \in Nat /\ Cost(g)' >= 1 /\ Cost(g)' >= Cost(g) /\ Cost(g) \in Nat
    BY CostAfter
  <1> QED BY <1>1, <1>4, <1>5, <1>6, <1>7, <1>8

(* The INSERT of JoinGroup: what it adds it counts.                        *)
LEMMA JoinInsertBalance ==
  ASSUME Grown, NEW t \in Threads, WorkOK(t), CountOK(t), JoinInsert(t), NEW g \in DOMAIN groups
  PROVE  Settled(g) \/ Hurt(g)
  <1> DEFINE h == loc[t].group
             c == loc'[t].count
  <1>1. /\ Drift(g) \in Int /\ Excess(g) \in Int /\ c \in Int
        /\ Cardinality(Active(g)) \in Nat /\ Cardinality(Active(g)') \in Nat
        /\ Drift(g)' = Drift(g) + (Net(t, g)' - Net(t, g))
                         - (Cardinality(Active(g)') - Cardinality(Active(g)))
        /\ Excess(g)' = Excess(g) + (Gross(t, g)' - Gross(t, g))
                          - (Cardinality(Active(g)') - Cardinality(Active(g)))
        /\ Cost(g)' \in Nat /\ Cost(g)' >= 1
        /\ Net(t, g)' = IF g = h THEN c ELSE 0
    BY WriteMoves
  <1>2. Net(t, g) = 0 /\ Gross(t, g) = 0 /\ Gross(t, g)' = IF g = h THEN Above0(c) ELSE 0
    <2>1. pc[t] = "join_insert" /\ pc'[t] \in {"join_update", "join_count"} /\ loc'[t].group = h
      BY WriteStep DEF Grown, JoinInsert
    <2> QED BY <2>1 DEF Net, Gross, Counting, Above0
  <1>3. CASE /\ faults' = faults /\ c \in Nat
             /\ Cardinality(Active(g)') = Cardinality(Active(g)) + (IF g = h THEN c ELSE 0)
    <2>1. Above0(c) = c
      BY <1>3 DEF Above0
    <2>2. Drift(g)' = Drift(g) /\ Excess(g)' <= Excess(g)
      <3> HIDE DEF c, h
      <3>1. CASE g = h
        BY <1>1, <1>2, <1>3, <2>1, <3>1
      <3>2. CASE g # h
        BY <1>1, <1>2, <1>3, <3>2
      <3> QED BY <3>1, <3>2
    <2> QED BY <2>2 DEF Settled
  <1>4. CASE faults' = faults + 1 /\ c \in {-1, 0} /\ relations' = relations
    <2>1. Above0(c) = 0
      BY <1>4 DEF Above0
    <2>2. Active(g)' = Active(g)
      BY <1>4 DEF Active
    <2>3. Drift(g)' >= Drift(g) - Cost(g)' /\ Excess(g)' <= Excess(g) + Cost(g)'
      <3> HIDE DEF c, h
      <3>1. CASE g = h
        BY <1>1, <1>2, <1>4, <2>1, <2>2, <3>1
      <3>2. CASE g # h
        BY <1>1, <1>2, <1>4, <2>2, <3>2
      <3> QED BY <3>1, <3>2
    <2> QED BY <1>4, <2>3 DEF Hurt
  <1> QED BY <1>3, <1>4, JoinInsertCounts DEF Grown

(* The UPDATE of JoinGroup: so does it with the rows that come back.       *)
LEMMA JoinUpdateBalance ==
  ASSUME Grown, NEW t \in Threads, WorkOK(t), CountOK(t), JoinUpdate(t), NEW g \in DOMAIN groups
  PROVE  Settled(g) \/ Hurt(g)
  <1> DEFINE h == loc[t].group
             m == loc[t].count
             c == loc'[t].count
  <1>1. /\ Drift(g) \in Int /\ Excess(g) \in Int /\ m \in Int /\ c \in Int
        /\ Cardinality(Active(g)) \in Nat /\ Cardinality(Active(g)') \in Nat
        /\ Drift(g)' = Drift(g) + (Net(t, g)' - Net(t, g))
                         - (Cardinality(Active(g)') - Cardinality(Active(g)))
        /\ Excess(g)' = Excess(g) + (Gross(t, g)' - Gross(t, g))
                          - (Cardinality(Active(g)') - Cardinality(Active(g)))
        /\ Cost(g)' \in Nat /\ Cost(g)' >= 1
        /\ Net(t, g)' = IF g = h THEN c ELSE 0
    BY WriteMoves
  <1>2. /\ Net(t, g) = IF g = h THEN m ELSE 0
        /\ Gross(t, g) = IF g = h THEN Above0(m) ELSE 0
        /\ Gross(t, g)' = IF g = h THEN Above0(c) ELSE 0
    <2>1. pc[t] = "join_update" /\ pc'[t] = "join_count" /\ loc'[t].group = h
      BY WriteStep DEF Grown, JoinUpdate
    <2> QED BY <2>1 DEF Net, Gross, Counting, Above0
  <1> HIDE DEF m, c, h
  <1>3. /\ Above0(m) \in Nat /\ Above0(c) \in Nat
        /\ m <= c => Above0(c) - Above0(m) <= c - m
        /\ c <= m => Above0(c) <= Above0(m)
    BY <1>1, Above0Grows
  <1>4. CASE /\ faults' = faults /\ c - m \in Nat
             /\ Cardinality(Active(g)') = Cardinality(Active(g)) + (IF g = h THEN c - m ELSE 0)
    <2>1. m <= c
      BY <1>1, <1>4
    <2>2. CASE g = h
      BY <1>1, <1>2, <1>3, <1>4, <2>1, <2>2 DEF Settled
    <2>3. CASE g # h
      BY <1>1, <1>2, <1>4, <2>3 DEF Settled
    <2> QED BY <2>2, <2>3
  <1>5. CASE faults' = faults + 1 /\ c - m \in {-1, 0} /\ relations' = relations
    <2>1. c <= m
      BY <1>1, <1>5
    <2>2. Active(g)' = Active(g)
      BY <1>5 DEF Active
    <2>3. CASE g = h
      BY <1>1, <1>2, <1>3, <1>5, <2>1, <2>2, <2>3 DEF Hurt
    <2>4. CASE g # h
      BY <1>1, <1>2, <1>5, <2>2, <2>4 DEF Hurt
    <2> QED BY <2>3, <2>4
  <1> QED BY <1>4, <1>5, JoinUpdateCounts DEF Grown, h, m, c

(* The UPDATE of QuitGroup counts all rows it takes from the active ones,  *)
(* and perhaps more.                                                       *)
LEMMA QuitUpdateBalance ==
  ASSUME Grown, NEW t \in Threads, WorkOK(t), QuitUpdate(t), NEW g \in DOMAIN groups
  PROVE  Settled(g) \/ Hurt(g) \/ (faults' = faults /\ Recounted(t, g))
  <1> DEFINE h == loc[t].group
             c == loc'[t].count
             rows == RowsOf(h, loc[t].found)
             left == {i \in rows : relations[i].status = 1}
             lost == Cardinality(left)
  <1>1. /\ Drift(g) \in Int /\ Excess(g) \in Int /\ c \in Int
        /\ Cardinality(Active(g)) \in Nat /\ Cardinality(Active(g)') \in Nat
        /\ Drift(g)' = Drift(g) + (Net(t, g)' - Net(t, g))
                         - (Cardinality(Active(g)') - Cardinality(Active(g)))
        /\ Excess(g)' = Excess(g) + (Gross(t, g)' - Gross(t, g))
                          - (Cardinality(Active(g)') - Cardinality(Active(g)))
        /\ Cost(g)' \in Nat /\ Cost(g)' >= 1 /\ Cost(g) \in Nat /\ Cost(g)' >= Cost(g)
        /\ Net(t, g)' = IF g = h THEN c ELSE 0
    BY WriteMoves
  <1>2. /\ Net(t, g) = 0 /\ Gross(t, g) = 0 /\ Gross(t, g)' = IF g = h THEN c ELSE 0
        /\ pc[t] = "quit_update"
    <2>1. pc[t] = "quit_update" /\ pc'[t] = "quit_count" /\ loc'[t].group = h
      BY WriteStep DEF Grown, QuitUpdate
    <2> QED BY <2>1 DEF Net, Gross, Counting
  <1>3. CASE /\ faults' = faults /\ lost \in Nat /\ lost <= - c /\ - c <= Cost(h)
             /\ left = rows => - c = lost
             /\ Cardinality(Active(g)') = Cardinality(Active(g)) - (IF g = h THEN lost ELSE 0)
    <2> HIDE DEF lost, c
    <2>1. CASE g = h
      <3>1. /\ Drift(g)' >= Drift(g) - Cost(g)' /\ Excess(g)' <= Excess(g)
            /\ - c = lost => Drift(g)' = Drift(g)
        <4> HIDE DEF h, left, rows
        <4> QED BY <1>1, <1>2, <1>3, <2>1
      <3>2. (\A i \in rows : relations[i].status = 1) => left = rows
        OBVIOUS
      <3>3. (\A i \in RowsOf(g, loc[t].found) : relations[i].status = 1) => Drift(g)' = Drift(g)
        BY <1>3, <2>1, <3>1, <3>2
      <3> HIDE DEF left, rows
      <3> QED BY <1>2, <1>3, <2>1, <3>1, <3>3 DEF Recounted
    <2>2. CASE g # h
      <3> HIDE DEF h, left, rows
      <3> QED BY <1>1, <1>2, <1>3, <2>2 DEF Settled
    <2> QED BY <2>1, <2>2
  <1>4. CASE faults' = faults + 1 /\ c \in {0, 1} /\ relations' = relations
    <2>1. Active(g)' = Active(g)
      BY <1>4 DEF Active
    <2> HIDE DEF h, c, left, rows
    <2>2. CASE g = h
      BY <1>1, <1>2, <1>4, <2>1, <2>2 DEF Hurt
    <2>3. CASE g # h
      BY <1>1, <1>2, <1>4, <2>1, <2>3 DEF Hurt
    <2> QED BY <2>2, <2>3
  <1> QED BY <1>3, <1>4, QuitUpdateCounts DEF Grown

(* The last UPDATE of JoinGroup and QuitGroup: what is added to memberCnt  *)
(* is no longer to be added, unless the UPDATE fails.                      *)
LEMMA CountBalance ==
  ASSUME Grown, NEW t \in Threads, WorkOK(t), CountOK(t), JoinCount(t) \/ QuitCount(t),
         NEW g \in DOMAIN groups
  PROVE  Settled(g) \/ Hurt(g)
  <1> DEFINE h == loc[t].group
             n == loc[t].count
  <1>0. TypeOK
    BY DEF Grown
  <1>1. /\ relations' = relations /\ loc' = loc /\ pc'[t] = "reply" /\ n \in Int
        /\ pc[t] \in {"join_count", "quit_count"} /\ h \in DOMAIN groups
        /\ \/ faults' = faults /\ groups' = AddCount(h, n)
           \/ faults' = faults + 1 /\ groups' = groups
    <2>1. pc[t] \in {"join_count", "quit_count"}
      BY DEF JoinCount, QuitCount
    <2>2. h \in DOMAIN groups
      BY <2>1 DEF WorkOK, JoinLabels, QuitLabels
    <2>3. relations' = relations /\ loc' = loc /\ pc'[t] = "reply"
      BY <1>0, CountStep
    <2>4. n \in Int
      BY <1>0, ShareTypes
    <2> QED BY <2>1, <2>2, <2>3, <2>4 DEF JoinCount, QuitCount, Sound, Fault
  <1>2. \A o \in Threads \ {t} : pc'[o] = pc[o] /\ loc'[o] = loc[o]
    BY <1>0, Frame DEF Work
  <1>3. /\ Net(t, g) = IF g = h THEN n ELSE 0
        /\ Gross(t, g) = IF g # h THEN 0 ELSE IF pc[t] = "quit_count" THEN n ELSE Above0(n)
        /\ Net(t, g)' = 0 /\ Gross(t, g)' = 0
    BY <1>1 DEF Net, Gross, Counting
  <1>4. /\ Above0(n) \in Nat /\ Above0(n) >= n
        /\ pc[t] = "join_count" => n <= Cost(h)
        /\ pc[t] = "quit_count" => n <= 1 /\ - n <= Cost(h)
    <2>1. /\ pc[t] = "join_count" => n <= Cost(h)
          /\ pc[t] = "quit_count" => n <= 1 /\ - n <= Cost(h)
      BY DEF CountOK
    <2> HIDE DEF n
    <2> QED BY <1>1, <2>1, Above0Facts
  <1>5. /\ Drift(g) \in Int /\ Excess(g) \in Int
        /\ groups[g].memberCnt \in Int /\ groups'[g].memberCnt \in Int
        /\ Cardinality(Active(g)) \in Nat /\ Cardinality(Active(g)') \in Nat
        /\ Drift(g)' = Drift(g) + (groups'[g].memberCnt - groups[g].memberCnt)
                         + (Net(t, g)' - Net(t, g))
                         - (Cardinality(Active(g)') - Cardinality(Active(g)))
        /\ Excess(g)' = Excess(g) + (groups'[g].memberCnt - groups[g].memberCnt)
                          + (Gross(t, g)' - Gross(t, g))
                          - (Cardinality(Active(g)') - Cardinality(Active(g)))
    BY <1>2, DriftMoves
  <1>6. Active(g)' = Active(g)
    BY <1>1 DEF Active
  <1>7. Cost(g)' \in Nat /\ Cost(g)' >= 1 /\ Cost(g) \in Nat /\ Cost(g)' >= Cost(g)
    BY CostAfter
  <1>8. CASE faults' = faults /\ groups' = AddCount(h, n)
    <2>1. groups'[g].memberCnt = groups[g].memberCnt + (IF g = h THEN n ELSE 0)
      <3> HIDE DEF h, n
      <3> QED BY <1>0, <1>1, <1>8, AddCountShape
    <2> HIDE DEF h, n
    <2>2. CASE g = h
      BY <1>1, <1>3, <1>4, <1>5, <1>6, <2>1, <2>2 DEF Settled
    <2>3. CASE g # h
      BY <1>1, <1>3, <1>5, <1>6, <2>1, <2>3 DEF Settled
    <2> QED BY <2>2, <2>3
  <1>9. CASE faults' = faults + 1 /\ groups' = groups
    <2>1. groups'[g].memberCnt - groups[g].memberCnt = 0
      BY <1>5, <1>9
    <2> HIDE DEF h, n
    <2>2. CASE g = h
      BY <1>1, <1>3, <1>4, <1>5, <1>6, <1>7, <1>9, <2>1, <2>2 DEF Hurt
    <2>3. CASE g # h
      BY <1>3, <1>5, <1>6, <1>7, <1>9, <2>1, <2>3 DEF Hurt
    <2> QED BY <2>2, <2>3
  <1> QED BY <1>1, <1>8, <1>9

(* Every step of a thread, for a group that exists.                        *)
LEMMA StepBalance ==
  ASSUME Grown, NEW t \in Threads, WorkOK(t), CountOK(t), Accept(t) \/ Work(t),
         NEW g \in DOMAIN groups
  PROVE  \/ Settled(g)
         \/ Hurt(g) /\ pc[t] \in WriteLabels
         \/ QuitUpdate(t) /\ faults' = faults /\ Recounted(t, g)
  <1>1. CASE pc[t] \notin WriteLabels
    <2>1. \A o \in Threads \ {t} : pc'[o] = pc[o] /\ loc'[o] = loc[o]
      BY Frame DEF Grown, Work
    <2>2. /\ relations' = relations /\ groups'[g].memberCnt = groups[g].memberCnt
          /\ pc'[t] \in CountLabels => loc'[t].count = 0
      BY <1>1, QuietStep DEF Grown
    <2>3. Net(t, g) = 0 /\ Gross(t, g) = 0 /\ Net(t, g)' = 0 /\ Gross(t, g)' = 0
      <3>1. Net(t, g) = 0 /\ Gross(t, g) = 0
        BY <1>1 DEF Net, Gross, Counting, WriteLabels, CountLabels
      <3>2. CASE pc'[t] \in CountLabels
        BY <2>2, <3>1, <3>2 DEF Net, Gross, Counting, Above0
      <3>3. CASE pc'[t] \notin CountLabels
        BY <3>1, <3>3 DEF Net, Gross, Counting, CountLabels
      <3> QED BY <3>2, <3>3
    <2>4. /\ Drift(g) \in Int /\ Excess(g) \in Int
          /\ groups[g].memberCnt \in Int
          /\ Cardinality(Active(g)) \in Nat /\ Cardinality(Active(g)') \in Nat
          /\ Drift(g)' = Drift(g) + (groups'[g].memberCnt - groups[g].memberCnt)
                           + (Net(t, g)' - Net(t, g))
                           - (Cardinality(Active(g)') - Cardinality(Active(g)))
          /\ Excess(g)' = Excess(g) + (groups'[g].memberCnt - groups[g].memberCnt)
                            + (Gross(t, g)' - Gross(t, g))
                            - (Cardinality(Active(g)') - Cardinality(Active(g)))
      BY <2>1, DriftMoves
    <2>5. Active(g)' = Active(g)
      BY <2>2 DEF Active
    <2>6. groups'[g].memberCnt - groups[g].memberCnt = 0
      BY <2>2, <2>4
    <2> QED BY <2>3, <2>4, <2>5, <2>6 DEF Settled
  <1>2. CASE pc[t] \in WriteLabels
    <2>1. JoinInsert(t) \/ JoinUpdate(t) \/ QuitUpdate(t) \/ JoinCount(t) \/ QuitCount(t)
      BY <1>2 DEF WriteLabels, CountLabels, Work, Accept, CreateInsert, GetGroupInfo, JoinSelect,
                  QuitSelect, ListGroups, GetGroupMembers, SendSessionData
    <2> QED BY <1>2, <2>1, JoinInsertBalance, JoinUpdateBalance, QuitUpdateBalance, CountBalance
  <1> QED BY <1>1, <1>2

-----------------------------------------------------------------------------
(* CountInv, part by part: what the handlers have found.                   *)

(* The rows of a group after a step are finitely many, no more than a loss *)
(* may cost.                                                               *)
LEMMA RowsAfter ==
  ASSUME Grown, NEW g, NEW us \in SUBSET Users
  PROVE  Cardinality(RowsOf(g, us)') \in Nat /\ Cardinality(RowsOf(g, us)') <= Cost(g)'
  <1>1. DOMAIN relations' = 1 .. Len(relations') /\ Len(relations') \in Nat
    BY LenProperties DEF Grown, TypeOK
  <1>2. /\ RowsOf(g, us)' \subseteq RowsOf(g, Users)'
        /\ RowsOf(g, Users)' \subseteq DOMAIN relations' /\ IsFiniteSet(DOMAIN relations')
    <2>1. RowsOf(g, us)' \subseteq RowsOf(g, Users)'
      BY DEF RowsOf
    <2>2. RowsOf(g, Users)' \subseteq DOMAIN relations'
      BY DEF RowsOf
    <2> QED BY <1>1, <2>1, <2>2, FS_Interval
  <1> DEFINE m == Cardinality(RowsOf(g, us)')
             n == Cardinality(RowsOf(g, Users)')
  <1>3. m \in Nat /\ n \in Nat /\ n \in Int /\ 1 \in Int /\ m <= n
    <2>1. m \in Nat /\ n \in Nat /\ m <= n
      BY <1>2, FS_Subset, FS_CardinalityType
    <2> QED BY <2>1
  <1>4. Cost(g)' = Max({1, n})
    BY DEF Cost
  <1> HIDE DEF m, n
  <1>5. Max({1, n}) \in {1, n} /\ Max({1, n}) >= n
    BY <1>3, MaxOfTwo
  <1> QED BY <1>3, <1>4, <1>5 DEF m

(* A thread that does not move keeps what it has found.                    *)
LEMMA CountStays ==
  ASSUME Grown, NEW o \in Threads, WorkOK(o), CountOK(o),
         pc'[o] = pc[o], req'[o] = req[o], loc'[o] = loc[o],
         pc[o] = "quit_update" /\ quits = 1 /\ quits' = 1 =>
           \A i \in DOMAIN relations : relations[i].status = 1 => relations'[i].status = 1
  PROVE  CountOK(o)'
  <1> PICK h : h = loc[o].group
    OBVIOUS
  <1> PICK us : us = loc[o].found
    OBVIOUS
  <1>0. loc'[o].group = h /\ loc'[o].found = us /\ loc'[o].count = loc[o].count
    OBVIOUS
  <1>1. /\ Cost(h) <= Cost(h)' /\ Cost(h) \in Nat /\ Cost(h)' \in Nat
        /\ loc[o].count \in Int
    BY CostAfter, ShareTypes DEF Grown
  <1>2. pc'[o] = "join_insert" =>
          \A k \in loc'[o].missing : req'[o].users[k] \notin us
    BY DEF CountOK
  <1>3. ASSUME pc'[o] = "join_update"
        PROVE  loc[o].count <= Cardinality(RowsOf(h, Users \ us)')
    <2>1. loc[o].count <= Cardinality(RowsOf(h, Users \ us))
      BY <1>3 DEF CountOK
    <2>2. /\ Cardinality(RowsOf(h, Users \ us)) \in Nat
          /\ Cardinality(RowsOf(h, Users \ us)') \in Nat
      BY TermTypes, RowsAfter DEF Grown
    <2>3. Cardinality(RowsOf(h, Users \ us)) <= Cardinality(RowsOf(h, Users \ us)')
      BY CostGrows
    <2> QED BY <1>1, <2>1, <2>2, <2>3
  <1>4. /\ pc'[o] = "join_count" => loc[o].count <= Cost(h)'
        /\ pc'[o] = "quit_count" => loc[o].count <= 1 /\ - loc[o].count <= Cost(h)'
    <2>1. /\ pc'[o] = "join_count" => loc[o].count <= Cost(h)
          /\ pc'[o] = "quit_count" => loc[o].count <= 1 /\ - loc[o].count <= Cost(h)
      BY DEF CountOK
    <2> QED BY <1>1, <2>1
  <1>5. ASSUME pc'[o] = "quit_update", quits' = 1, NEW u \in us
        PROVE  \E i \in RowsOf(h, {u})' : relations'[i].status = 1
    <2>1. quits = 1
      <3>1. quits > 0
        BY <1>5 DEF WorkOK, QuitLabels
      <3> QED BY <1>5, <3>1 DEF Grown, TypeOK
    <2>2. PICK i \in RowsOf(h, {u}) : relations[i].status = 1
      BY <1>5, <2>1 DEF CountOK
    <2>3. i \in RowsOf(h, {u})'
      BY <2>2, TablesGrow DEF RowsOf, Grown, RowsKept
    <2>4. relations'[i].status = 1
      BY <1>5, <2>1, <2>2 DEF RowsOf
    <2> QED BY <2>3, <2>4
  <1> QED BY <1>0, <1>2, <1>3, <1>4, <1>5 DEF CountOK

(* A thread that moves has found it, statement by statement.               *)
LEMMA CountMoves ==
  ASSUME Grown, NEW t \in Threads, WorkOK(t), CountOK(t), Accept(t) \/ Work(t)
  PROVE  CountOK(t)'
  <1> PICK h : h = loc'[t].group
    OBVIOUS
  <1> PICK us : us = loc'[t].found
    OBVIOUS
  <1> PICK c : c = loc'[t].count
    OBVIOUS
  <1>0. TypeOK /\ TypeOK'
    BY DEF Grown
  <1>1. /\ c \in Int /\ us \subseteq Users
        /\ Cost(h)' \in Nat /\ Cost(h)' >= 1 /\ Cost(h) <= Cost(h)' /\ Cost(h) \in Nat
        /\ Cardinality(RowsOf(h, Users \ us)') \in Nat
        /\ Cardinality(RowsOf(h, Users \ us)') <= Cost(h)'
    <2>1. c \in Int /\ us \subseteq Users
      BY <1>0 DEF TypeOK, Locals
    <2>2. Cost(h)' \in Nat /\ Cost(h)' >= 1 /\ Cost(h) <= Cost(h)' /\ Cost(h) \in Nat
      BY CostAfter
    <2> QED BY <2>1, <2>2, RowsAfter
  <1>2. ASSUME pc'[t] = "join_insert" => \A k \in loc'[t].missing : req'[t].users[k] \notin us,
               pc'[t] = "join_update" => c <= Cardinality(RowsOf(h, Users \ us)'),
               pc'[t] = "join_count" => c <= Cost(h)',
               pc'[t] = "quit_count" => c <= 1 /\ - c <= Cost(h)',
               pc'[t] = "quit_update" /\ quits' = 1 =>
                 \A u \in us : \E i \in RowsOf(h, {u})' : relations'[i].status = 1
        PROVE  CountOK(t)'
    BY <1>2 DEF CountOK
  <1>3. CASE pc'[t] \notin {"join_insert", "join_update", "join_count", "quit_count", "quit_update"}
    BY <1>3, <1>2
  <1>4. CASE JoinSelect(t)
    <2>1. /\ pc'[t] \in {"join_insert", "join_update", "join_count"} /\ req' = req /\ c = 0
          /\ \A k \in loc'[t].missing : req[t].users[k] \notin us
      BY <1>0, <1>4, JoinSelectStep, JoinSelectFinds
    <2> QED BY <1>1, <1>2, <2>1
  <1>5. CASE JoinInsert(t)
    <2>1. /\ pc'[t] \in {"join_update", "join_count"} /\ h = loc[t].group /\ us = loc[t].found
      BY <1>0, <1>5, WriteStep DEF JoinInsert
    <2>2. c <= Cardinality(RowsOf(h, Users \ us)')
      <3>1. \/ c \in {-1, 0}
            \/ c <= Cardinality(RowsOf(loc[t].group, Users \ loc[t].found)')
        BY <1>0, <1>5, JoinInsertCounts
      <3>2. RowsOf(loc[t].group, Users \ loc[t].found)' = RowsOf(h, Users \ us)'
        BY <2>1 DEF RowsOf
      <3> QED BY <1>1, <3>1, <3>2
    <2> QED BY <1>1, <1>2, <2>1, <2>2
  <1>6. CASE JoinUpdate(t)
    <2>1. pc'[t] = "join_count" /\ h = loc[t].group
      BY <1>0, <1>6, WriteStep DEF JoinUpdate
    <2>2. c <= Cost(h)
      BY <1>0, <1>6, <2>1, JoinUpdateCounts
    <2> QED BY <1>1, <1>2, <2>1, <2>2
  <1>7. CASE QuitUpdate(t)
    <2>1. pc'[t] = "quit_count" /\ h = loc[t].group
      BY <1>0, <1>7, WriteStep DEF QuitUpdate
    <2>2. \/ c \in {0, 1}
          \/ \E n \in Nat : n <= - c /\ - c <= Cost(h)
      BY <1>0, <1>7, <2>1, QuitUpdateCounts
    <2> QED BY <1>1, <1>2, <2>1, <2>2
  <1>8. CASE QuitSelect(t)
    <2>1. /\ pc'[t] \in {"quit_update", "quit_count"} /\ h = loc[t].group /\ c = 0
          /\ relations' = relations
          /\ \A u \in us : \E i \in RowsOf(h, {u}) : relations[i].status = 1
      BY <1>0, <1>8, QuitSelectStep, QuitSelectFinds
    <2>2. \A u : RowsOf(h, {u})' = RowsOf(h, {u})
      BY <2>1 DEF RowsOf
    <2> QED BY <1>1, <1>2, <2>1, <2>2
  <1>9. CASE Accept(t)
    <2>1. pc'[t] \in {"create_insert", "get_group", "list_groups", "reply"}
      BY <1>0, <1>9, AcceptShape
    <2> QED BY <1>3, <2>1
  <1>10. CASE CreateInsert(t) \/ GetGroupInfo(t)
    <2>1. pc'[t] \in {"list_members", "join_select", "quit_select", "reply"}
      BY <1>0, <1>10, CreateStep, GetGroupStep
    <2> QED BY <1>3, <2>1
  <1>11. CASE JoinCount(t) \/ QuitCount(t) \/ GetGroupMembers(t) \/ SendSessionData(t)
    <2>1. pc'[t] \in {"idle", "reply"}
      BY <1>0, <1>11, CountStep, MembersStep, SendStep
    <2> QED BY <1>3, <2>1
  <1>12. CASE ListGroups(t)
    <2>1. pc'[t] \in {"list_members", "reply"}
      BY <1>0, <1>12, ListGroupsStep
    <2> QED BY <1>3, <2>1
  <1> QED BY <1>4, <1>5, <1>6, <1>7, <1>8, <1>9, <1>10, <1>11, <1>12 DEF Work

(* A handler treats its request as a removal from Accept on, which counts  *)
(* it.                                                                     *)
LEMMA QuittingStep ==
  ASSUME TypeOK, NEW t \in Threads, WorkOK(t), Accept(t) \/ Work(t),
         NEW o \in Threads, Quitting(o)'
  PROVE  Quitting(o) \/ (o = t /\ quits' = quits + 1)
  <1>1. CASE o # t
    <2>1. pc'[o] = pc[o] /\ req'[o] = req[o]
      BY <1>1, Frame
    <2> QED BY <2>1 DEF Quitting
  <1>2. CASE o = t /\ Accept(t)
    <2>0. PICK r \in Inputs : \E kind \in ParsedKinds(r) :
            /\ req' = [req EXCEPT ![t] = [id |-> nextReq, asked |-> r.kind, kind |-> kind,
                                          user |-> r.user, users |-> r.users, group |-> r.group]]
            /\ quits' = IF kind = "Quit" THEN quits + 1 ELSE quits
      BY <1>2 DEF Accept
    <2>1. PICK kind \in ParsedKinds(r) :
            /\ req' = [req EXCEPT ![t] = [id |-> nextReq, asked |-> r.kind, kind |-> kind,
                                          user |-> r.user, users |-> r.users, group |-> r.group]]
            /\ quits' = IF kind = "Quit" THEN quits + 1 ELSE quits
      BY <2>0
    <2>2. req'[t].kind = kind
      BY <2>1 DEF TypeOK
    <2> QED BY <1>2, <2>1, <2>2 DEF Quitting
  <1>3. CASE o = t /\ Work(t)
    <2>1. pc[t] # "idle"
      BY <1>3 DEF Work, CreateInsert, GetGroupInfo, JoinSelect, JoinInsert, JoinUpdate, JoinCount,
                  QuitSelect, QuitUpdate, QuitCount, ListGroups, GetGroupMembers, SendSessionData
    <2>2. CASE SendSessionData(t)
      BY <1>3, <2>2, SendStep DEF Quitting
    <2>3. CASE ~ SendSessionData(t)
      <3>1. req' = req
        BY <1>3, <2>3 DEF Work, CreateInsert, GetGroupInfo, JoinSelect, JoinInsert, JoinUpdate,
             JoinCount, QuitSelect, QuitUpdate, QuitCount, ListGroups, GetGroupMembers
      <3> QED BY <1>3, <2>1, <3>1 DEF Quitting
    <2> QED BY <2>2, <2>3
  <1> QED BY <1>1, <1>2, <1>3

(* One removal stays the work of one handler.                              *)
LEMMA QuitAloneStep ==
  ASSUME Grown, \A o \in Threads : WorkOK(o), QuitAlone, NEW t \in Threads, Accept(t) \/ Work(t)
  PROVE  QuitAlone'
  <1>0. TypeOK /\ quits \in Nat /\ quits' \in Nat /\ quits <= quits'
    BY DEF Grown, TypeOK
  <1>1. SUFFICES ASSUME quits' = 1, NEW a \in Threads, NEW b \in Threads,
                        Quitting(a)', Quitting(b)'
                 PROVE  a = b
    BY DEF QuitAlone, Quitting
  <1>2. /\ Quitting(a) \/ (a = t /\ quits' = quits + 1)
        /\ Quitting(b) \/ (b = t /\ quits' = quits + 1)
    BY <1>0, <1>1, QuittingStep
  <1>3. CASE quits = 1
    BY <1>0, <1>1, <1>2, <1>3 DEF QuitAlone
  <1>4. CASE quits = 0
    <2>1. ~ Quitting(a) /\ ~ Quitting(b)
      BY <1>4 DEF WorkOK, Quitting
    <2> QED BY <1>2, <2>1
  <1> QED BY <1>0, <1>1, <1>3, <1>4

(* The one removal comes but once, and after its UPDATE no more.           *)
LEMMA MayQuitStep ==
  ASSUME Grown, \A o \in Threads : WorkOK(o), QuitAlone, NEW t \in Threads, Accept(t) \/ Work(t),
         MayQuit'
  PROVE  MayQuit /\ ~ QuitUpdate(t)
  <1>0. TypeOK /\ quits \in Nat /\ quits' \in Nat /\ quits <= quits'
    BY DEF Grown, TypeOK
  <1>1. CASE quits' = 0
    <2>1. quits = 0
      BY <1>0, <1>1
    <2>2. pc[t] # "quit_update"
      BY <2>1, <1>0 DEF WorkOK, QuitLabels
    <2> QED BY <2>1, <2>2 DEF MayQuit, QuitUpdate
  <1>2. CASE quits' # 0
    <2>1. PICK o \in Threads :
            Quitting(o)' /\ pc'[o] \in {"get_group", "quit_select", "quit_update"}
      BY <1>2 DEF MayQuit, Quitting
    <2>2. quits' = 1
      BY <1>2 DEF MayQuit
    <2>3. Quitting(o) \/ (o = t /\ quits' = quits + 1)
      BY <1>0, <2>1, QuittingStep
    <2>4. CASE quits = 0
      <3>1. pc[t] # "quit_update"
        BY <2>4, <1>0 DEF WorkOK, QuitLabels
      <3> QED BY <2>4, <3>1 DEF MayQuit, QuitUpdate
    <2>5. CASE quits = 1
      <3>1. Quitting(o)
        BY <1>0, <2>2, <2>3, <2>5
      <3>2. pc[o] \in {"get_group", "quit_select", "quit_update"}
        <4>1. CASE o # t
          <5>1. pc'[o] = pc[o]
            BY <1>0, <4>1, Frame
          <5> QED BY <2>1, <5>1
        <4>2. CASE o = t
          <5>1. CASE Accept(t)
            BY <1>0, <3>1, <4>2, <5>1, AcceptShape DEF Quitting
          <5>2. CASE GetGroupInfo(t) \/ QuitSelect(t)
            BY <4>2, <5>2 DEF GetGroupInfo, QuitSelect
          <5>3. CASE CreateInsert(t) \/ JoinSelect(t)
            <6>1. pc'[t] \notin {"get_group", "quit_select", "quit_update"}
              BY <1>0, <5>3, CreateStep, JoinSelectStep
            <6> QED BY <2>1, <4>2, <6>1
          <5>4. CASE JoinInsert(t) \/ JoinUpdate(t) \/ QuitUpdate(t) \/ JoinCount(t) \/ QuitCount(t)
            <6>1. pc'[t] \notin {"get_group", "quit_select", "quit_update"}
              BY <1>0, <5>4, WriteStep, CountStep
            <6> QED BY <2>1, <4>2, <6>1
          <5>5. CASE ListGroups(t) \/ GetGroupMembers(t) \/ SendSessionData(t)
            <6>1. pc'[t] \notin {"get_group", "quit_select", "quit_update"}
              BY <1>0, <5>5, ListGroupsStep, MembersStep, SendStep
            <6> QED BY <2>1, <4>2, <6>1
          <5> QED BY <5>1, <5>2, <5>3, <5>4, <5>5 DEF Work
        <4> QED BY <4>1, <4>2
      <3>3. ASSUME QuitUpdate(t) PROVE FALSE
        <4>1. pc[t] = "quit_update" /\ pc'[t] = "quit_count"
          BY <1>0, <3>3, WriteStep DEF QuitUpdate
        <4>2. Quitting(t)
          BY <4>1 DEF WorkOK, QuitLabels, Quitting
        <4>3. o = t
          BY <2>5, <3>1, <4>2 DEF QuitAlone
        <4> QED BY <2>1, <4>1, <4>3
      <3> QED BY <2>5, <3>1, <3>2, <3>3 DEF MayQuit
    <2> QED BY <1>0, <2>2, <2>4, <2>5
  <1> QED BY <1>1, <1>2

-----------------------------------------------------------------------------
(* CountInv, part by part: the rows of a user that are not alike.          *)

(* While the removal is still to come, only a failed SELECT of JoinGroup   *)
(* makes them differ: it inserts users that have left the group.           *)
LEMMA RiskStep ==
  ASSUME Grown, NEW t \in Threads, WorkOK(t), Accept(t) \/ Work(t), ~ QuitUpdate(t),
         NEW g, Risky(g)'
  PROVE  Risky(g) \/ (JoinSelect(t) /\ faults' = faults + 1)
  <1>0. TypeOK
    BY DEF Grown
  <1>1. /\ \A i \in DOMAIN relations :
             /\ i \in DOMAIN relations'
             /\ relations'[i].groupId = relations[i].groupId
             /\ relations'[i].userId = relations[i].userId
             /\ relations'[i].status = 0 => relations[i].status = 0
        /\ \A i \in DOMAIN relations' \ DOMAIN relations :
             /\ relations'[i].status = 1 /\ pc[t] = "join_insert"
             /\ relations'[i].groupId = loc[t].group
             /\ \E k \in loc[t].missing : relations'[i].userId = req[t].users[k]
    <2>1. CASE relations' = relations
      BY <2>1
    <2>2. CASE JoinInsert(t)
      <3>1. pc[t] = "join_insert"
        BY <2>2 DEF JoinInsert
      <3>2. CASE \E p \in InOrder(loc[t].missing) : relations' = relations \o NewRelations(t, p)
        <4>1. /\ \A i \in DOMAIN relations : relations'[i] = relations[i]
              /\ \A i \in DOMAIN relations' \ DOMAIN relations :
                   /\ relations'[i].groupId = loc[t].group /\ relations'[i].status = 1
                   /\ \E k \in loc[t].missing : relations'[i].userId = req[t].users[k]
          BY <1>0, <3>1, <3>2, InsertShape
        <4> QED BY <3>1, <4>1, TablesGrow
      <3>3. CASE relations' = relations
        BY <3>3
      <3> QED BY <2>2, <3>2, <3>3 DEF JoinInsert
    <2>3. CASE JoinUpdate(t)
      <3>1. CASE relations' = SetStatus(RowsOf(loc[t].group, loc[t].found), 1)
        <4>1. /\ DOMAIN relations' = DOMAIN relations
              /\ \A i \in DOMAIN relations :
                   /\ relations'[i].groupId = relations[i].groupId
                   /\ relations'[i].userId = relations[i].userId
                   /\ \/ relations'[i].status = 1
                      \/ relations'[i].status = relations[i].status
          BY <1>0, <3>1, StatusCounts
        <4> QED BY <4>1
      <3>2. CASE relations' = relations
        BY <3>2
      <3> QED BY <2>3, <3>1, <3>2 DEF JoinUpdate
    <2> QED BY <1>0, <2>1, <2>2, <2>3, Frame
  <1>2. CASE MixedRows(g)'
    <2>1. PICK i \in DOMAIN relations', j \in DOMAIN relations' :
            /\ relations'[i].groupId = g /\ relations'[j].groupId = g
            /\ relations'[i].userId = relations'[j].userId
            /\ relations'[i].status = 1 /\ relations'[j].status = 0
      BY <1>2 DEF MixedRows
    <2>2. /\ j \in DOMAIN relations /\ relations[j].status = 0
          /\ relations[j].groupId = g /\ relations[j].userId = relations'[i].userId
      BY <1>1, <2>1
    <2>3. CASE i \notin DOMAIN relations
      <3>1. PICK k \in loc[t].missing : relations'[i].userId = req[t].users[k]
        BY <1>1, <2>1, <2>3
      <3>2. pc[t] = "join_insert" /\ loc[t].group = g
        BY <1>1, <2>1, <2>3
      <3>3. MixedSoon(t, g)
        BY <2>2, <3>1, <3>2 DEF MixedSoon
      <3> QED BY <3>3 DEF Risky
    <2>4. CASE i \in DOMAIN relations /\ relations[i].status = 1
      <3>1. MixedRows(g)
        BY <1>1, <2>1, <2>2, <2>4 DEF MixedRows
      <3> QED BY <3>1 DEF Risky
    <2>5. CASE i \in DOMAIN relations /\ relations[i].status # 1
      <3>1. relations' # relations
        BY <2>1, <2>5
      <3>2. ~ JoinInsert(t)
        <4>1. ASSUME JoinInsert(t) PROVE FALSE
          <5>1. PICK p \in InOrder(loc[t].missing) : relations' = relations \o NewRelations(t, p)
            BY <3>1, <4>1 DEF JoinInsert
          <5>2. relations'[i] = relations[i]
            BY <1>0, <2>5, <4>1, <5>1, InsertShape DEF JoinInsert
          <5> QED BY <2>1, <2>5, <5>2
        <4> QED BY <4>1
      <3>3. JoinUpdate(t)
        BY <1>0, <3>1, <3>2, Frame
      <3>4. relations' = SetStatus(RowsOf(loc[t].group, loc[t].found), 1)
        BY <3>1, <3>3 DEF JoinUpdate
      <3>5. \A n \in DOMAIN relations :
              relations'[n].status =
                IF n \in RowsOf(loc[t].group, loc[t].found) THEN 1 ELSE relations[n].status
        BY <1>0, <3>4, StatusCounts
      <3>6. i \in RowsOf(loc[t].group, loc[t].found)
        BY <2>1, <2>5, <3>5
      <3>7. j \in RowsOf(loc[t].group, loc[t].found)
        BY <1>1, <2>1, <2>2, <2>5, <3>6 DEF RowsOf
      <3> QED BY <2>1, <2>2, <3>5, <3>7
    <2> QED BY <2>3, <2>4, <2>5
  <1>3. ASSUME NEW o \in Threads, MixedSoon(o, g)'
        PROVE  Risky(g) \/ (JoinSelect(t) /\ faults' = faults + 1)
    <2>1. PICK k \in loc'[o].missing : \E i \in DOMAIN relations' :
            /\ relations'[i].groupId = g /\ relations'[i].userId = req'[o].users[k]
            /\ relations'[i].status = 0
      BY <1>3 DEF MixedSoon
    <2>2. PICK i \in DOMAIN relations' :
            /\ relations'[i].groupId = g /\ relations'[i].userId = req'[o].users[k]
            /\ relations'[i].status = 0
      BY <2>1
    <2>3. /\ i \in DOMAIN relations /\ relations[i].status = 0
          /\ relations[i].groupId = g /\ relations[i].userId = req'[o].users[k]
      BY <1>1, <2>2
    <2>4. pc'[o] = "join_insert" /\ loc'[o].group = g
      BY <1>3 DEF MixedSoon
    <2>5. CASE o # t
      <3>1. pc'[o] = pc[o] /\ req'[o] = req[o] /\ loc'[o] = loc[o]
        BY <1>0, <2>5, Frame
      <3>2. MixedSoon(o, g)
        BY <2>1, <2>3, <2>4, <3>1 DEF MixedSoon
      <3> QED BY <3>2 DEF Risky
    <2>6. CASE o = t
      <3>1. JoinSelect(t)
        <4>1. CASE Accept(t)
          BY <1>0, <2>4, <2>6, <4>1, AcceptShape
        <4>2. CASE CreateInsert(t) \/ GetGroupInfo(t)
          BY <1>0, <2>4, <2>6, <4>2, CreateStep, GetGroupStep
        <4>3. CASE JoinInsert(t) \/ JoinUpdate(t) \/ JoinCount(t) \/ QuitCount(t)
          BY <1>0, <2>4, <2>6, <4>3, WriteStep, CountStep
        <4>4. CASE QuitSelect(t) \/ ListGroups(t)
          BY <1>0, <2>4, <2>6, <4>4, QuitSelectStep, ListGroupsStep
        <4>5. CASE GetGroupMembers(t) \/ SendSessionData(t)
          BY <1>0, <2>4, <2>6, <4>5, MembersStep, SendStep
        <4> QED BY <4>1, <4>2, <4>3, <4>4, <4>5 DEF Work
      <3>2. /\ req' = req /\ loc'[t].group = loc[t].group
            /\ \/ faults' = faults + 1
               \/ \A n \in loc'[t].missing : ~ Related(loc[t].group, req[t].users[n])
        BY <1>0, <3>1, JoinSelectStep, JoinSelectFinds
      <3>3. Related(g, req[t].users[k])
        BY <2>3, <2>6, <3>2 DEF Related
      <3> QED BY <2>1, <2>4, <2>6, <3>1, <3>2, <3>3
    <2> QED BY <2>5, <2>6
  <1>4. Risky(g)' => MixedRows(g)' \/ \E o \in Threads : MixedSoon(o, g)'
    BY DEF Risky
  <1> QED BY <1>2, <1>3, <1>4

-----------------------------------------------------------------------------
(* CountInv, part by part: the sums.                                       *)

(* A step of a thread loses nothing but what a failed statement costs.     *)
LEMMA LossesStep ==
  ASSUME TypeOK, NEW t \in Threads, Accept(t) \/ Work(t)
  PROVE  boot' = boot /\ Losses' = Losses + (faults' - faults) /\ Losses >= faults
  <1>1. boot' = boot /\ faults' \in Nat
    <2>1. boot' = boot
      BY DEF Accept, Work, CreateInsert, GetGroupInfo, JoinSelect, JoinInsert, JoinUpdate,
             JoinCount, QuitSelect, QuitUpdate, QuitCount, ListGroups, GetGroupMembers,
             SendSessionData
    <2> QED BY <2>1, Frame
  <1>2. Cardinality(Threads) \in Nat /\ boot \in Nat /\ faults \in Nat
    BY GroupThreadsAssumption, FS_CardinalityType DEF TypeOK
  <1> DEFINE b == boot * Cardinality(Threads)
  <1>3. b \in Nat
    BY <1>2
  <1>4. Losses = faults + b /\ Losses' = faults' + b
    BY <1>1 DEF Losses
  <1> HIDE DEF b
  <1> QED BY <1>1, <1>2, <1>3, <1>4

(* With at least one loss, what one of them may cost is spare.             *)
LEMMA SpareGrows ==
  ASSUME NEW k \in Nat, NEW k1 \in Nat, NEW c \in Nat, NEW c1 \in Nat, c <= c1, k > 0
  PROVE  /\ k * c \in Int /\ k1 * c1 \in Int
         /\ k <= k1 => c - k * c >= c1 - k1 * c1
         /\ k <= k1 => c - k * c - c1 >= - (k1 * c1)
  <1> DEFINE j == k - 1
             j1 == k1 - 1
  <1>1. j \in Nat /\ k = j + 1 /\ k * c = j * c + c
    BY Z3
  <1>2. k * c \in Int /\ k1 * c1 \in Int
    BY Z3
  <1>3. ASSUME k <= k1
        PROVE  c - k * c >= c1 - k1 * c1 /\ c - k * c - c1 >= - (k1 * c1)
    <2>1. j1 \in Nat /\ j <= j1 /\ k1 = j1 + 1 /\ k1 * c1 = j1 * c1 + c1
      BY <1>3, Z3
    <2> HIDE DEF j, j1
    <2>2. j * c \in Nat /\ j1 * c1 \in Nat /\ j * c <= j1 * c1
      BY <1>1, <2>1, LostGrows
    <2> QED BY <1>1, <2>1, <2>2
  <1> QED BY <1>2, <1>3

(* A removal that finds a group's users alike counts the rows it takes.    *)
LEMMA AlikeCounted ==
  ASSUME TypeOK, NEW t \in Threads, CountOK(t), pc[t] = "quit_update", quits = 1,
         ~ MixedRows(loc[t].group)
  PROVE  \A i \in RowsOf(loc[t].group, loc[t].found) : relations[i].status = 1
  <1> SUFFICES ASSUME NEW i \in RowsOf(loc[t].group, loc[t].found)
               PROVE  relations[i].status = 1
    OBVIOUS
  <1>1. /\ i \in DOMAIN relations /\ relations[i].groupId = loc[t].group
        /\ relations[i].userId \in loc[t].found
    BY DEF RowsOf
  <1>2. PICK j \in RowsOf(loc[t].group, {relations[i].userId}) : relations[j].status = 1
    BY <1>1 DEF CountOK
  <1>3. /\ j \in DOMAIN relations /\ relations[j].groupId = loc[t].group
        /\ relations[j].userId = relations[i].userId
    BY <1>2 DEF RowsOf
  <1>4. relations[i].status \in {0, 1}
    BY <1>1, TableTypes DEF RelationRows
  <1>5. relations[i].status # 0
    BY <1>1, <1>2, <1>3 DEF MixedRows
  <1> QED BY <1>4, <1>5

(* A step of a thread, for a group that exists.                            *)
LEMMA SumsStep ==
  ASSUME Grown, CountInv, \A o \in Threads : WorkOK(o),
         NEW t \in Threads, Accept(t) \/ Work(t), NEW g \in DOMAIN groups
  PROVE  UpperOK(g)' /\ LowerOK(g)' /\ SpareOK(g)'
  <1> DEFINE k  == Losses
             k1 == Losses'
             c  == Cost(g)
             c1 == Cost(g)'
  <1>0. /\ TypeOK /\ TypeOK' /\ CountOK(t) /\ QuitAlone
        /\ UpperOK(g) /\ LowerOK(g) /\ SpareOK(g)
        /\ quits \in Nat /\ quits' \in Nat /\ quits <= quits'
        /\ faults \in Nat /\ faults' \in Nat /\ faults <= faults'
    BY Frame DEF CountInv, Grown, TypeOK
  <1>1. /\ k \in Nat /\ k1 \in Nat /\ c \in Nat /\ c1 \in Nat /\ c >= 1 /\ c <= c1
        /\ k1 = k + (faults' - faults) /\ k >= faults
    BY <1>0, CostAfter, LossesStep
  <1>11. /\ k <= k1 /\ (faults' = faults + 1 => k1 = k + 1 /\ k + 1 <= k1)
         /\ faults > 0 => k > 0
    <2>1. PICK f \in Nat : f = faults
      BY <1>0
    <2>2. PICK f1 \in Nat : f1 = faults'
      BY <1>0
    <2>3. /\ k \in Nat /\ k1 \in Nat /\ k1 = k + (f1 - f) /\ k >= f /\ f <= f1
      BY <1>0, <1>1, <2>1, <2>2
    <2> HIDE DEF k, k1
    <2>4. k <= k1 /\ (f1 = f + 1 => k1 = k + 1 /\ k + 1 <= k1) /\ (f > 0 => k > 0)
      BY <2>3
    <2> QED BY <2>1, <2>2, <2>4
  <1>2. /\ Drift(g) \in Int /\ Excess(g) \in Int
        /\ Drift(g)' \in Int /\ Excess(g)' \in Int
    <2>1. \A o \in Threads \ {t} : pc'[o] = pc[o] /\ loc'[o] = loc[o]
      BY <1>0, Frame
    <2>2. /\ Drift(g) \in Int /\ Excess(g) \in Int
          /\ Cardinality(Active(g)) \in Nat /\ Cardinality(Active(g)') \in Nat
          /\ groups[g].memberCnt \in Int /\ groups'[g].memberCnt \in Int
          /\ Net(t, g) \in Int /\ Net(t, g)' \in Int
          /\ Gross(t, g) \in Int /\ Gross(t, g)' \in Int
          /\ Drift(g)' = Drift(g) + (groups'[g].memberCnt - groups[g].memberCnt)
                           + (Net(t, g)' - Net(t, g))
                           - (Cardinality(Active(g)') - Cardinality(Active(g)))
          /\ Excess(g)' = Excess(g) + (groups'[g].memberCnt - groups[g].memberCnt)
                            + (Gross(t, g)' - Gross(t, g))
                            - (Cardinality(Active(g)') - Cardinality(Active(g)))
      BY <2>1, DriftMoves
    <2> QED BY <2>2
  <1>3. /\ k * c \in Nat /\ k1 * c1 \in Nat /\ k * c <= k1 * c1
        /\ faults' = faults + 1 => k * c + c1 <= k1 * c1
    <2>1. k <= k1 /\ (faults' = faults + 1 => k + 1 <= k1)
      BY <1>11
    <2> HIDE DEF k, k1, c, c1
    <2>2. /\ k * c \in Nat /\ k1 * c1 \in Nat /\ k * c <= k1 * c1
          /\ \A d \in Nat : k + d <= k1 => k * c + d * c1 <= k1 * c1
      BY <1>1, <2>1, LostGrows
    <2>3. 1 * c1 = c1
      BY <1>1
    <2> QED BY <2>1, <2>2, <2>3
  <1>4. /\ Excess(g) <= k * c
        /\ quits = 0 \/ (quits = 1 /\ StoredAlike) => Drift(g) >= - (k * c)
        /\ StoredAlike /\ MayQuit /\ Risky(g) => faults > 0 /\ Drift(g) >= c - k * c
    BY <1>0 DEF UpperOK, LowerOK, SpareOK, Lost
  <1>5. SUFFICES
          /\ Excess(g)' <= k1 * c1
          /\ quits' = 0 \/ (quits' = 1 /\ StoredAlike) => Drift(g)' >= - (k1 * c1)
          /\ StoredAlike /\ MayQuit' /\ Risky(g)' => faults' > 0 /\ Drift(g)' >= c1 - k1 * c1
    BY DEF UpperOK, LowerOK, SpareOK, Lost
  <1>6. \/ Drift(g)' = Drift(g) /\ Excess(g)' <= Excess(g)
        \/ /\ faults' = faults + 1 /\ pc[t] \in WriteLabels
           /\ Drift(g)' >= Drift(g) - c1 /\ Excess(g)' <= Excess(g) + c1
        \/ /\ QuitUpdate(t) /\ faults' = faults /\ pc[t] = "quit_update" /\ g = loc[t].group
           /\ Drift(g)' >= Drift(g) - c1 /\ Excess(g)' <= Excess(g)
           /\ (\A i \in RowsOf(g, loc[t].found) : relations[i].status = 1) => Drift(g)' = Drift(g)
    BY <1>0, StepBalance DEF Settled, Hurt, Recounted
  <1>7. ASSUME StoredAlike, MayQuit', Risky(g)'
        PROVE  /\ faults' > 0 /\ ~ QuitUpdate(t)
               /\ \/ faults > 0 /\ Drift(g) >= c - k * c
                  \/ faults' = faults + 1 /\ pc[t] \notin WriteLabels /\ c1 = c
                     /\ Drift(g) >= - (k * c)
    <2>1. MayQuit /\ ~ QuitUpdate(t)
      BY <1>0, <1>7, MayQuitStep
    <2>2. CASE Risky(g)
      BY <1>0, <1>4, <1>7, <2>1, <2>2
    <2>3. CASE JoinSelect(t) /\ faults' = faults + 1
      <3>1. pc[t] \notin WriteLabels /\ relations' = relations
        BY <2>3 DEF JoinSelect, WriteLabels, CountLabels
      <3>2. c1 = c
        BY <3>1 DEF Cost, RowsOf
      <3>3. Drift(g) >= - (k * c)
        BY <1>4, <1>7, <2>1 DEF MayQuit
      <3> QED BY <1>0, <2>1, <2>3, <3>1, <3>2, <3>3
    <2> QED BY <1>7, <2>1, <2>2, <2>3, RiskStep
  <1>8. Excess(g)' <= k1 * c1
    <2> HIDE DEF k, k1, c, c1
    <2> QED BY <1>1, <1>2, <1>3, <1>4, <1>6
  <1>9. ASSUME quits' = 0 \/ (quits' = 1 /\ StoredAlike)
        PROVE  Drift(g)' >= - (k1 * c1)
    <2>1. quits = 0 \/ (quits = 1 /\ StoredAlike)
      BY <1>0, <1>9
    <2>2. Drift(g) >= - (k * c)
      BY <1>4, <2>1
    <2>3. CASE Drift(g)' = Drift(g)
      <3> HIDE DEF k, k1, c, c1
      <3> QED BY <1>1, <1>2, <1>3, <2>2, <2>3
    <2>4. CASE faults' = faults + 1 /\ Drift(g)' >= Drift(g) - c1
      <3> HIDE DEF k, k1, c, c1
      <3> QED BY <1>1, <1>2, <1>3, <2>2, <2>4
    <2>5. CASE /\ QuitUpdate(t) /\ faults' = faults /\ pc[t] = "quit_update" /\ g = loc[t].group
               /\ Drift(g)' >= Drift(g) - c1
               /\ (\A i \in RowsOf(g, loc[t].found) : relations[i].status = 1)
                    => Drift(g)' = Drift(g)
      <3>1. Quitting(t) /\ quits > 0
        BY <2>5 DEF WorkOK, QuitLabels, Quitting
      <3>2. quits = 1 /\ StoredAlike /\ MayQuit
        BY <1>0, <2>1, <2>5, <3>1 DEF MayQuit
      <3>3. CASE Risky(g)
        <4>1. faults > 0 /\ Drift(g) >= c - k * c
          BY <1>4, <3>2, <3>3
        <4>2. k > 0 /\ k <= k1
          BY <1>11, <4>1
        <4> HIDE DEF k, k1, c, c1
        <4>3. c - k * c - c1 >= - (k1 * c1)
          BY <1>1, <4>2, SpareGrows
        <4> QED BY <1>1, <1>2, <1>3, <2>5, <4>1, <4>3
      <3>4. CASE ~ Risky(g)
        <4>1. ~ MixedRows(loc[t].group)
          BY <2>5, <3>4 DEF Risky
        <4>2. \A i \in RowsOf(g, loc[t].found) : relations[i].status = 1
          BY <1>0, <2>5, <3>2, <4>1, AlikeCounted
        <4>3. Drift(g)' = Drift(g)
          BY <2>5, <4>2
        <4> QED BY <2>3, <4>3
      <3> QED BY <3>3, <3>4
    <2> QED BY <1>6, <2>3, <2>4, <2>5
  <1>10. ASSUME StoredAlike, MayQuit', Risky(g)'
         PROVE  faults' > 0 /\ Drift(g)' >= c1 - k1 * c1
    <2>1. /\ faults' > 0 /\ ~ QuitUpdate(t)
          /\ \/ faults > 0 /\ Drift(g) >= c - k * c
             \/ faults' = faults + 1 /\ pc[t] \notin WriteLabels /\ c1 = c
                /\ Drift(g) >= - (k * c)
      BY <1>7, <1>10
    <2>2. CASE faults > 0 /\ Drift(g) >= c - k * c
      <3>1. k > 0 /\ k <= k1
        BY <1>11, <2>2
      <3>2. CASE Drift(g)' = Drift(g)
        <4> HIDE DEF k, k1, c, c1
        <4>1. c - k * c >= c1 - k1 * c1
          BY <1>1, <3>1, SpareGrows
        <4> QED BY <1>1, <1>2, <1>3, <2>1, <2>2, <3>2, <4>1
      <3>3. CASE faults' = faults + 1 /\ Drift(g)' >= Drift(g) - c1
        <4>1. k1 = k + 1
          BY <1>11, <3>3
        <4> HIDE DEF k, k1, c, c1
        <4>2. c - k * c - c1 >= - (k * c1) /\ k1 * c1 = k * c1 + c1 /\ k * c1 \in Int
          <5>1. c - k * c - c1 >= - (k * c1) /\ k * c1 \in Int
            BY <1>1, <3>1, SpareGrows
          <5>2. k1 * c1 = k * c1 + c1
            BY <1>1, <4>1, Z3
          <5> QED BY <5>1, <5>2
        <4> QED BY <1>1, <1>2, <1>3, <2>1, <2>2, <3>3, <4>2
      <3> QED BY <1>6, <2>1, <3>2, <3>3
    <2>3. CASE /\ faults' = faults + 1 /\ pc[t] \notin WriteLabels /\ c1 = c
               /\ Drift(g) >= - (k * c)
      <3>1. Drift(g)' = Drift(g) /\ k1 = k + 1
        BY <1>0, <1>6, <1>11, <2>1, <2>3
      <3> HIDE DEF k, k1, c, c1
      <3>2. k1 * c1 = k * c + c
        BY <1>1, <2>3, <3>1, Z3
      <3> QED BY <1>1, <1>2, <1>3, <2>1, <2>3, <3>1, <3>2
    <2> QED BY <2>1, <2>2, <2>3
  <1> QED BY <1>8, <1>9, <1>10

(* A group that was just created has no members, and nobody counts any.    *)
LEMMA NewGroupStep ==
  ASSUME Grown, \A o \in Threads : WorkOK(o), NEW t \in Threads, Accept(t) \/ Work(t),
         NEW g \in DOMAIN groups' \ DOMAIN groups
  PROVE  UpperOK(g)' /\ LowerOK(g)' /\ SpareOK(g)'
  <1>0. TypeOK /\ TypeOK' /\ RelationsOK
    BY DEF Grown
  <1>1. /\ CreateInsert(t) /\ relations' = relations
        /\ groups'[g].memberCnt = 0 /\ pc'[t] \in {"join_select", "reply"}
    <2>1. groups' # groups
      OBVIOUS
    <2>2. CreateInsert(t)
      <3>1. CASE JoinCount(t) \/ QuitCount(t)
        <4>1. pc[t] \in {"join_count", "quit_count"}
          BY <3>1 DEF JoinCount, QuitCount
        <4>2. loc[t].group \in DOMAIN groups
          BY <4>1 DEF WorkOK, JoinLabels, QuitLabels
        <4>3. groups' = AddCount(loc[t].group, loc[t].count)
          BY <2>1, <3>1 DEF JoinCount, QuitCount
        <4>4. DOMAIN groups' = DOMAIN groups
          BY <4>3 DEF AddCount
        <4> QED BY <4>4
      <3> QED BY <1>0, <2>1, <3>1, Frame
    <2>3. /\ Len(groups') = Len(groups) + 1 /\ groups'[Len(groups) + 1].memberCnt = 0
          /\ groups' \in Seq(GroupRows)
      BY <1>0, <2>1, <2>2, CreateShape
    <2>4. DOMAIN groups = 1 .. Len(groups) /\ Len(groups) \in Nat
      BY <1>0, TableTypes
    <2>5. g = Len(groups) + 1
      BY <2>3, <2>4, LenProperties
    <2>6. relations' = relations /\ pc'[t] \in {"join_select", "reply"}
      BY <1>0, <2>2, CreateStep
    <2> QED BY <2>2, <2>3, <2>5, <2>6
  <1>2. \A i \in DOMAIN relations' : relations'[i].groupId # g
    BY <1>0, <1>1 DEF RelationsOK
  <1>3. Counting(g)' = {} /\ QuitCounting(g)' = {}
    <2>1. ASSUME NEW o \in Threads, o \in Counting(g)' PROVE FALSE
      <3>1. pc'[o] \in {"join_update", "join_count", "quit_count"} /\ loc'[o].group = g
        BY <2>1 DEF Counting
      <3>2. o # t
        BY <1>1, <3>1
      <3>3. pc'[o] = pc[o] /\ loc'[o] = loc[o]
        BY <1>0, <3>2, Frame
      <3>4. loc[o].group \in DOMAIN groups
        BY <3>1, <3>3 DEF WorkOK, JoinLabels, QuitLabels
      <3> QED BY <3>1, <3>3, <3>4
    <2> QED BY <2>1 DEF Counting, QuitCounting
  <1>4. Active(g)' = {}
    BY <1>2 DEF Active
  <1>5. Drift(g)' = 0 /\ Excess(g)' = 0
    <2>1. ToAdd(g)' = {} /\ ToTake(g)' = {} /\ QuitToTake(g)' = {}
      BY <1>3 DEF ToAdd, ToTake, QuitToTake, Units
    <2>2. /\ Cardinality(ToAdd(g)') = 0 /\ Cardinality(ToTake(g)') = 0
          /\ Cardinality(QuitToTake(g)') = 0 /\ Cardinality(Active(g)') = 0
      BY <1>4, <2>1, FS_EmptySet
    <2>3. Drift(g)' = groups'[g].memberCnt + Cardinality(ToAdd(g)') - Cardinality(ToTake(g)')
                        - Cardinality(Active(g)')
      BY DEF Drift
    <2>4. Excess(g)' = groups'[g].memberCnt + Cardinality(ToAdd(g)') - Cardinality(QuitToTake(g)')
                         - Cardinality(Active(g)')
      BY DEF Excess
    <2> QED BY <1>1, <2>2, <2>3, <2>4
  <1>6. ~ Risky(g)'
    BY <1>2 DEF Risky, MixedRows, MixedSoon
  <1>7. Lost(g)' \in Nat
    <2> DEFINE k == Losses'
               c == Cost(g)'
    <2>1. k \in Nat /\ c \in Nat
      BY CostAfter
    <2>2. Lost(g)' = k * c
      BY DEF Lost
    <2> HIDE DEF k, c
    <2> QED BY <2>1, <2>2, LostGrows
  <1> DEFINE l == Lost(g)'
  <1>8. l >= 0 /\ - l <= 0
    <2> HIDE DEF l
    <2> QED BY <1>7 DEF l
  <1> QED BY <1>5, <1>6, <1>8 DEF UpperOK, LowerOK, SpareOK

(* What dies with the handlers are at most as many counts as there are     *)
(* threads, each at most what a loss may cost.                             *)
LEMMA RestartCounts ==
  ASSUME TypeOK, CountInv, Restart, NEW g \in DOMAIN groups
  PROVE  UpperOK(g)' /\ LowerOK(g)' /\ SpareOK(g)'
  <1> DEFINE n  == Cardinality(Threads)
             k  == Losses
             k1 == Losses'
             c  == Cost(g)
             add  == [t \in Threads |-> loc[t].count]
             take == [t \in Threads |-> - loc[t].count]
  <1>1. /\ UNCHANGED <<groups, relations, quits, faults>> /\ boot' = boot + 1
        /\ \A t \in Threads : pc'[t] = "idle"
    BY RestartShape DEF Restart
  <1>2. /\ UpperOK(g) /\ LowerOK(g) /\ SpareOK(g) /\ \A t \in Threads : CountOK(t)
        /\ groups[g].memberCnt \in Int
    BY DriftTypes DEF CountInv
  <1>3. /\ Cardinality(ToAdd(g)) \in Nat /\ Cardinality(ToTake(g)) \in Nat
        /\ Cardinality(QuitToTake(g)) \in Nat /\ Cardinality(Active(g)) \in Nat
        /\ k \in Nat /\ c \in Nat /\ c >= 1
    BY TermTypes
  <1>4. /\ Counting(g) \in SUBSET Threads /\ QuitCounting(g) \in SUBSET Threads
        /\ add \in [Threads -> Int] /\ take \in [Threads -> Int]
    BY ShareTypes DEF Counting, QuitCounting
  <1>5. ASSUME NEW t \in Counting(g)
        PROVE  add[t] <= c /\ (t \in QuitCounting(g) => take[t] <= c)
    <2>1. /\ t \in Threads /\ loc[t].group = g /\ loc[t].count \in Int
          /\ pc[t] \in {"join_update", "join_count", "quit_count"}
      BY ShareTypes DEF Counting
    <2>2. Cardinality(RowsOf(g, Users \ loc[t].found)) <= c
          /\ Cardinality(RowsOf(g, Users \ loc[t].found)) \in Nat
      BY TermTypes
    <2>3. /\ pc[t] = "join_update" => loc[t].count <= Cardinality(RowsOf(g, Users \ loc[t].found))
          /\ pc[t] = "join_count" => loc[t].count <= c
          /\ pc[t] = "quit_count" => loc[t].count <= 1 /\ - loc[t].count <= c
      BY <1>2, <2>1 DEF CountOK
    <2>4. add[t] = loc[t].count /\ take[t] = - loc[t].count
      BY <2>1
    <2>5. loc[t].count <= c
      BY <1>3, <2>1, <2>2, <2>3
    <2> QED BY <2>3, <2>4, <2>5 DEF QuitCounting
  <1>6. Cardinality(ToAdd(g)) <= n * c /\ Cardinality(QuitToTake(g)) <= n * c
    <2>1. ToAdd(g) = Units(Counting(g), add) /\ QuitToTake(g) = Units(QuitCounting(g), take)
      BY DEF ToAdd, QuitToTake
    <2>2. \A t \in QuitCounting(g) : t \in Counting(g)
      BY DEF QuitCounting
    <2> HIDE DEF add, take, c
    <2> QED BY <1>3, <1>4, <1>5, <2>1, <2>2, UnitsBound
  <1>7. Drift(g)' = groups[g].memberCnt - Cardinality(Active(g)) /\ Excess(g)' = Drift(g)'
    <2>1. Counting(g)' = {} /\ QuitCounting(g)' = {}
      BY <1>1 DEF Counting, QuitCounting
    <2>2. ToAdd(g)' = {} /\ ToTake(g)' = {} /\ QuitToTake(g)' = {}
      BY <2>1 DEF ToAdd, ToTake, QuitToTake, Units
    <2>3. /\ Cardinality(ToAdd(g)') = 0 /\ Cardinality(ToTake(g)') = 0
          /\ Cardinality(QuitToTake(g)') = 0
      BY <2>2, FS_EmptySet
    <2>4. Drift(g)' = groups'[g].memberCnt + Cardinality(ToAdd(g)') - Cardinality(ToTake(g)')
                        - Cardinality(Active(g)')
      BY DEF Drift
    <2>5. Excess(g)' = groups'[g].memberCnt + Cardinality(ToAdd(g)') - Cardinality(QuitToTake(g)')
                         - Cardinality(Active(g)')
      BY DEF Excess
    <2>6. Active(g)' = Active(g)
      BY <1>1 DEF Active
    <2> QED BY <1>1, <1>2, <1>3, <2>3, <2>4, <2>5, <2>6
  <1>8. /\ Drift(g) = groups[g].memberCnt + Cardinality(ToAdd(g)) - Cardinality(ToTake(g))
                        - Cardinality(Active(g))
        /\ Excess(g) = groups[g].memberCnt + Cardinality(ToAdd(g)) - Cardinality(QuitToTake(g))
                         - Cardinality(Active(g))
    BY DEF Drift, Excess
  <1>9. /\ n \in Nat /\ n * c \in Nat /\ k * c \in Nat /\ k1 * c = k * c + n * c
    <2>1. n \in Nat /\ boot \in Nat /\ faults \in Nat
      BY GroupThreadsAssumption, FS_CardinalityType DEF TypeOK
    <2>2. k = faults + boot * n /\ k1 = faults + (boot + 1) * n
      BY <1>1 DEF Losses
    <2>3. PICK b \in Nat : b = boot
      BY <2>1
    <2>4. PICK f \in Nat : f = faults
      BY <2>1
    <2>5. k = f + b * n /\ k1 = f + (b + 1) * n
      BY <2>2, <2>3, <2>4
    <2> HIDE DEF n, k, k1, c
    <2>6. k1 = k + n
      <3>1. b * n \in Nat /\ (b + 1) * n = b * n + n
        BY <2>1, Z3
      <3> QED BY <2>1, <2>5, <3>1
    <2>7. (k + n) * c = k * c + n * c /\ k * c \in Nat /\ n * c \in Nat
      BY <1>3, <2>1, Z3
    <2> QED BY <2>1, <2>6, <2>7
  <1>10. /\ Excess(g) <= k * c
         /\ quits = 0 \/ (quits = 1 /\ StoredAlike) => Drift(g) >= - (k * c)
         /\ StoredAlike /\ MayQuit /\ Risky(g) => faults > 0 /\ Drift(g) >= c - k * c
    BY <1>2 DEF UpperOK, LowerOK, SpareOK, Lost
  <1>11. /\ Excess(g)' <= k1 * c
         /\ Drift(g) >= - (k * c) => Drift(g)' >= - (k1 * c)
         /\ Drift(g) >= c - k * c => Drift(g)' >= c - k1 * c
    <2> HIDE DEF n, k, k1, c
    <2> QED BY <1>2, <1>3, <1>6, <1>7, <1>8, <1>9, <1>10
  <1>12. Cost(g)' = c /\ Lost(g)' = k1 * c
    <2>1. Cost(g)' = c
      BY <1>1 DEF Cost, RowsOf
    <2> QED BY <2>1 DEF Lost
  <1>13. MayQuit' => MayQuit
    BY <1>1 DEF MayQuit, Quitting
  <1>14. Risky(g)' => Risky(g)
    BY <1>1 DEF Risky, MixedRows, MixedSoon
  <1> HIDE DEF k, k1, c
  <1> QED BY <1>1, <1>10, <1>11, <1>12, <1>13, <1>14 DEF UpperOK, LowerOK, SpareOK

-----------------------------------------------------------------------------
(* The theorem.                                                            *)

(* memberCnt of what the tables held at the first start is exact.          *)
LEMMA InitCountInv == Init => CountInv
  <1> SUFFICES ASSUME Init PROVE CountInv
    OBVIOUS
  <1>0. TypeOK
    BY InitIInv DEF IInv
  <1>1. /\ pc = [t \in Threads |-> "idle"] /\ quits = 0
    BY DEF Init
  <1>2. QuitAlone /\ \A t \in Threads : CountOK(t)
    BY <1>1 DEF QuitAlone, CountOK
  <1>3. ASSUME NEW g \in DOMAIN groups
        PROVE  UpperOK(g) /\ LowerOK(g) /\ SpareOK(g)
    <2>1. groups[g].memberCnt = Cardinality(Active(g))
      <3>1. PICK s \in Stored : groups = s.groups /\ relations = s.relations
        BY DEF Init
      <3>2. s.groups[g].memberCnt =
              Cardinality({i \in DOMAIN s.relations :
                             s.relations[i].groupId = g /\ s.relations[i].status = 1})
        BY <3>1, GroupStoredAssumption
      <3> QED BY <3>1, <3>2 DEF Active
    <2>2. Counting(g) = {} /\ QuitCounting(g) = {}
      BY <1>1 DEF Counting, QuitCounting
    <2>3. ToAdd(g) = {} /\ ToTake(g) = {} /\ QuitToTake(g) = {}
      BY <2>2 DEF ToAdd, ToTake, QuitToTake, Units
    <2>4. /\ Cardinality(ToAdd(g)) = 0 /\ Cardinality(ToTake(g)) = 0
          /\ Cardinality(QuitToTake(g)) = 0 /\ Cardinality(Active(g)) \in Nat
      BY <1>0, <2>3, FS_EmptySet, TermTypes
    <2>5. Drift(g) = 0 /\ Excess(g) = 0
      BY <2>1, <2>4 DEF Drift, Excess
    <2>6. Lost(g) \in Nat
      <3> DEFINE k == Losses
                 c == Cost(g)
      <3>1. k \in Nat /\ c \in Nat
        BY <1>0, TermTypes
      <3> HIDE DEF k, c
      <3>2. k * c \in Nat
        BY <3>1, LostGrows
      <3> QED BY <3>2 DEF Lost, k, c
    <2>7. StoredAlike => ~ Risky(g)
      <3>1. StoredAlike => ~ MixedRows(g)
        BY DEF StoredAlike, MixedRows, Init
      <3>2. \A t \in Threads : ~ MixedSoon(t, g)
        BY <1>1 DEF MixedSoon
      <3> QED BY <3>1, <3>2 DEF Risky
    <2> QED BY <2>5, <2>6, <2>7 DEF UpperOK, LowerOK, SpareOK
  <1> QED BY <1>2, <1>3 DEF CountInv

(* Every step of the system keeps CountInv.                                *)
LEMMA CountInvStep ==
  ASSUME IInv, CountInv, [Next]_vars
  PROVE  CountInv'
  <1>0. Grown /\ TypeOK /\ \A o \in Threads : WorkOK(o)
    BY GrownStep DEF IInv
  <1>1. CASE UNCHANGED vars
    <2>1. QuitAlone' /\ \A o \in Threads : CountOK(o)'
      <3>1. QuitAlone'
        BY <1>1 DEF vars, CountInv, QuitAlone, Quitting
      <3>2. ASSUME NEW o \in Threads PROVE CountOK(o)'
        BY <1>0, <1>1, CountStays DEF vars, CountInv
      <3> QED BY <3>1, <3>2
    <2>2. ASSUME NEW g \in DOMAIN groups'
          PROVE  UpperOK(g)' /\ LowerOK(g)' /\ SpareOK(g)'
      <3>1. g \in DOMAIN groups /\ UpperOK(g) /\ LowerOK(g) /\ SpareOK(g)
        BY <1>1 DEF vars, CountInv
      <3>2. /\ Counting(g)' = Counting(g) /\ QuitCounting(g)' = QuitCounting(g)
            /\ Active(g)' = Active(g)
        BY <1>1 DEF vars, Counting, QuitCounting, Active
      <3>3. /\ ToAdd(g)' = ToAdd(g) /\ ToTake(g)' = ToTake(g) /\ QuitToTake(g)' = QuitToTake(g)
        BY <1>1, <3>2 DEF vars, ToAdd, ToTake, QuitToTake
      <3>4. Drift(g)' = Drift(g) /\ Excess(g)' = Excess(g)
        BY <1>1, <3>2, <3>3 DEF vars, Drift, Excess
      <3>5. Cost(g)' = Cost(g) /\ Lost(g)' = Lost(g)
        BY <1>1 DEF vars, Cost, RowsOf, Lost, Losses
      <3>6. MayQuit' = MayQuit /\ Risky(g)' = Risky(g)
        BY <1>1 DEF vars, MayQuit, Quitting, Risky, MixedRows, MixedSoon
      <3>7. quits' = quits /\ faults' = faults
        BY <1>1 DEF vars
      <3> QED BY <3>1, <3>4, <3>5, <3>6, <3>7 DEF UpperOK, LowerOK, SpareOK
    <2> QED BY <2>1, <2>2 DEF CountInv
  <1>2. CASE Restart
    <2>1. groups' = groups /\ \A t \in Threads : pc'[t] = "idle"
      BY <1>0, <1>2, RestartShape
    <2>2. QuitAlone' /\ \A o \in Threads : CountOK(o)'
      BY <2>1 DEF QuitAlone, Quitting, CountOK
    <2>3. \A g \in DOMAIN groups' : UpperOK(g)' /\ LowerOK(g)' /\ SpareOK(g)'
      BY <1>0, <1>2, <2>1, RestartCounts
    <2> QED BY <2>2, <2>3 DEF CountInv
  <1>3. ASSUME NEW t \in Threads, Accept(t) \/ Work(t) PROVE CountInv'
    <2>1. QuitAlone'
      BY <1>0, <1>3, QuitAloneStep DEF CountInv
    <2>2. ASSUME NEW o \in Threads PROVE CountOK(o)'
      <3>1. CASE o = t
        BY <1>0, <1>3, <3>1, CountMoves DEF CountInv
      <3>2. CASE o # t
        <4>1. /\ pc'[o] = pc[o] /\ req'[o] = req[o] /\ loc'[o] = loc[o]
          BY <1>0, <1>3, <3>2, Frame
        <4>2. ASSUME pc[o] = "quit_update", quits = 1, NEW i \in DOMAIN relations,
                     relations[i].status = 1
              PROVE  relations'[i].status = 1
          <5>1. pc[t] # "quit_update"
            <6>1. Quitting(o) /\ (pc[t] = "quit_update" => Quitting(t))
              BY <1>0, <4>2 DEF Quitting, WorkOK, QuitLabels
            <6> QED BY <3>2, <4>2, <6>1 DEF CountInv, QuitAlone
          <5> QED BY <1>0, <1>3, <4>2, <5>1, RelationsStep
        <4> QED BY <1>0, <4>1, <4>2, CountStays DEF CountInv
      <3> QED BY <3>1, <3>2
    <2>3. ASSUME NEW g \in DOMAIN groups'
          PROVE  UpperOK(g)' /\ LowerOK(g)' /\ SpareOK(g)'
      <3>1. CASE g \in DOMAIN groups
        BY <1>0, <1>3, <3>1, SumsStep
      <3>2. CASE g \notin DOMAIN groups
        BY <1>0, <1>3, <3>2, NewGroupStep
      <3> QED BY <3>1, <3>2
    <2> QED BY <2>1, <2>2, <2>3 DEF CountInv
  <1> QED BY <1>1, <1>2, <1>3 DEF Next

(* JoinGroup and QuitGroup change relations in one statement and memberCnt *)
(* in a later one: however the handlers interleave, what is counted and    *)
(* what is still to be counted stay within what failed statements and      *)
(* deaths of the process may cost a group; without any, joins are counted  *)
(* exactly.                                                                *)
THEOREM MembersCounted == Spec => []MemberCntTracks
  <1>1. ASSUME TypeOK, CountInv PROVE MemberCntTracks
    <2>1. ASSUME NEW g \in DOMAIN groups
          PROVE  LET counted == groups[g].memberCnt + Cardinality(ToAdd(g))
                                  - Cardinality(ToTake(g))
                     active  == Cardinality(Active(g))
                 IN  /\ counted <= active + Lost(g)
                     /\ quits = 0 \/ (quits = 1 /\ StoredAlike) => counted >= active - Lost(g)
      <3> DEFINE l == Lost(g)
                 m == groups[g].memberCnt
                 add == Cardinality(ToAdd(g))
                 take == Cardinality(ToTake(g))
                 quit == Cardinality(QuitToTake(g))
                 act == Cardinality(Active(g))
      <3>1. /\ m + add - quit - act <= l
            /\ quits = 0 \/ (quits = 1 /\ StoredAlike) => m + add - take - act >= - l
        BY <1>1, <2>1 DEF CountInv, UpperOK, LowerOK, Drift, Excess
      <3>2. m \in Int /\ add \in Nat /\ take \in Nat /\ quit \in Nat /\ act \in Nat /\ l \in Nat
        <4>1. m \in Int /\ add \in Nat /\ take \in Nat /\ quit \in Nat /\ act \in Nat
              /\ Losses \in Nat /\ Cost(g) \in Nat
          BY <1>1, <2>1, TermTypes, DriftTypes
        <4>2. Losses * Cost(g) \in Nat
          BY <4>1, LostGrows
        <4> QED BY <4>1, <4>2 DEF Lost
      <3>3. quit <= take
        <4>1. QuitToTake(g) \subseteq ToTake(g)
          BY DEF QuitToTake, ToTake, Units, QuitCounting
        <4>2. IsFiniteSet(ToTake(g))
          <5>1. /\ Counting(g) \in SUBSET Threads
                /\ [t \in Threads |-> - loc[t].count] \in [Threads -> Int]
            BY <1>1, ShareTypes DEF Counting
          <5> QED BY <5>1, UnitsFinite DEF ToTake
        <4> QED BY <4>1, <4>2, FS_Subset
      <3> HIDE DEF l, m, add, take, quit, act
      <3>4. /\ m + add - take <= act + l
            /\ quits = 0 \/ (quits = 1 /\ StoredAlike) => m + add - take >= act - l
        BY <3>1, <3>2, <3>3
      <3> QED BY <3>4 DEF l, m, add, take, act
    <2> QED BY <2>1 DEF MemberCntTracks
  <1>2. IInv => TypeOK
    BY DEF IInv
  <1>3. IInv /\ CountInv /\ [Next]_vars => CountInv'
    BY CountInvStep
  <1>4. TypeOK /\ CountInv => MemberCntTracks
    BY <1>1
  <1> QED BY <1>2, <1>3, <1>4, InitCountInv, Inductive, PTL DEF Spec
=============================================================================
