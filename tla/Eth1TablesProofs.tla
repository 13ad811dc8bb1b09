-------------------------- MODULE Eth1TablesProofs --------------------------
(***************************************************************************)
(* Proofs about the components of MCEth1Index beside the loop of the       *)
(* indexer, for every value of their constants.                            *)
(***************************************************************************)
EXTENDS MCEth1Index, NumberLemmas

-----------------------------------------------------------------------------
(* The deposits *)

\* The last block that was fetched or has a row.
Frontier == IF lastFetched >= D!LastRow THEN lastFetched ELSE D!LastRow
\* By how much a reorganisation may reach below a head that was read.
Reaches == MaxReorgs + Depth
\* The blocks no reorganisation has changed since they were fetched.
Firm(b) == b <= Frontier /\ (b <= reach - Reaches \/ b <= Frontier - Reaches)

\* The head, what was read of it and what is in the rows differ by little.
HeadsFit ==
  /\ FirstHead <= chainHead + reorgs /\ reach <= chainHead + reorgs
  /\ Frontier <= chainHead + reorgs /\ Frontier <= reach + MaxReorgs
  /\ chainHead <= reach + MaxReorgs + Spurt

\* The blocks of a pass, which goes on after the last one that was fetched.
RangeFits ==
  /\ range.from > 0 /\ range.to <= range.height /\ LookBack < range.height
  /\ range.from - 1 <= Frontier \/ range.from <= FirstBlock
  /\ range.from <= range.to =>
       /\ range.from <= range.height - LookBack
       /\ D!LastRow <= range.to /\ D!LastRow <= range.from + Short
  /\ range.from > range.to => range.to = range.height
  /\ range.height <= chainHead + reorgs /\ chainHead <= range.height + MaxReorgs + Spurt
  /\ range.height <= reach + MaxReorgs + Spurt
  /\ reach <= range.height + MaxReorgs /\ Frontier <= range.height + MaxReorgs

\* What was fetched, and what was not, is in the rows or going to be.
ViewFits ==
  /\ \A d \in Deposits : view[d] <= chainHead + reorgs
  /\ range.from <= range.to =>
       \A d \in Deposits : view[d] \in FirstBlock .. range.from - 1 => depositRows[d] = view[d]
  /\ \A d \in Deposits : at[d] >= FirstBlock /\ at[d] <= range.height - Reaches => view[d] = at[d]

DepositsInv ==
  /\ D!TypeOK /\ HeadsFit
  /\ \A d \in Deposits : at[d] >= FirstBlock /\ Firm(at[d]) => depositRows[d] = at[d]
  /\ stage # "asleep" => RangeFits
  /\ stage = "fetched" => ViewFits

\* The numbers are as the code and the bounds have them.
LEMMA DepositConstants ==
    /\ FirstBlock \in Nat /\ LookBack \in Nat /\ MaxFetch \in Nat /\ Short \in Nat
    /\ FirstHead \in Nat /\ MaxHead \in Nat /\ Depth \in Nat /\ Spurt \in Nat
    /\ MaxReorgs \in Nat /\ MaxMishaps \in Nat /\ FirstHead <= MaxHead
    /\ FirstBlock \in 1 .. MaxHead /\ Spurt > 0 /\ LookBack <= MaxFetch /\ LookBack <= Short
    /\ LookBack + MaxReorgs < FirstHead
    /\ Depth + Spurt + 2 * MaxReorgs <= LookBack + 1
  <1>1. D!DepositAssumption
    BY ConstantsFit
  <1> QED
    BY <1>1 DEF D!DepositAssumption

\* The operator Max of the component is the one of the lemmas.
LEMMA LastOfRows ==
    ASSUME NEW f \in [Deposits -> 0 .. MaxHead], NEW m, m = D!Max({0} \cup {f[d] : d \in Deposits})
    PROVE  m \in 0 .. MaxHead /\ (\A d \in Deposits : f[d] <= m)
           /\ (m = 0 \/ \E d \in Deposits : f[d] = m)
  <1> DEFINE S == {0} \cup {f[d] : d \in Deposits}
  <1>1. S \subseteq 0 .. MaxHead /\ S # {} /\ MaxHead \in Nat
    BY DepositConstants
  <1>2. D!Max(S) = Max(S)
    BY DEF D!Max, Max
  <1>3. Max(S) \in S /\ \A y \in S : Max(S) >= y
    <2> HIDE DEF S
    <2> QED
      BY <1>1, MaxOfInterval
  <1>4. m \in S /\ \A y \in S : m >= y
    <2> HIDE DEF S
    <2>1. m = D!Max(S)
      BY DEF S
    <2> QED
      BY <1>2, <1>3, <2>1
  <1> QED
    BY <1>1, <1>4

\* The greater of two numbers, and of three.
LEMMA MaxOfSome ==
    ASSUME NEW a \in Nat, NEW b \in Nat, NEW c \in Nat
    PROVE  /\ D!Max({a, b, c}) \in {a, b, c}
           /\ D!Max({a, b, c}) >= a /\ D!Max({a, b, c}) >= b /\ D!Max({a, b, c}) >= c
           /\ D!Max({a, b}) \in {a, b} /\ D!Max({a, b}) >= a /\ D!Max({a, b}) >= b
  <1>1. \E x \in {a, b, c} : \A y \in {a, b, c} : x >= y
    OBVIOUS
  <1>2. \E x \in {a, b} : \A y \in {a, b} : x >= y
    OBVIOUS
  <1>3. D!Max({a, b, c}) \in {a, b, c} /\ \A y \in {a, b, c} : D!Max({a, b, c}) >= y
    BY <1>1 DEF D!Max
  <1>4. D!Max({a, b}) \in {a, b} /\ \A y \in {a, b} : D!Max({a, b}) >= y
    BY <1>2 DEF D!Max
  <1> QED
    BY <1>3, <1>4

\* The smaller of two numbers.
LEMMA MinOfTwo ==
    ASSUME NEW a \in Nat, NEW b \in Nat
    PROVE  D!Min({a, b}) = IF a <= b THEN a ELSE b
  <1>1. \E x \in {a, b} : \A y \in {a, b} : x <= y
    OBVIOUS
  <1>2. D!Min({a, b}) \in {a, b} /\ \A y \in {a, b} : D!Min({a, b}) <= y
    BY <1>1 DEF D!Min
  <1> QED
    BY <1>2

\* The blocks a pass begins with: behind those it knows, or the last ones.
LEMMA RangeIs ==
    ASSUME NEW row \in Nat, NEW height \in Nat, LookBack < height, lastFetched \in Nat,
           NEW r, r = D!RangeOf(row, height), NEW known \in Nat,
           known = IF lastFetched >= row THEN lastFetched ELSE row
    PROVE  /\ r = [from |-> r.from, to |-> r.to, height |-> height]
           /\ r.from \in Nat /\ r.to \in Nat /\ r.from > 0 /\ r.to <= height
           /\ r.from <= known + 1 \/ r.from <= FirstBlock
           /\ r.from <= r.to =>
                r.from <= height - LookBack /\ row <= r.to /\ row <= r.from + Short
           /\ r.from > r.to => r.to = height
  <1> USE DepositConstants
  <1> DEFINE start == D!Max({row + 1, FirstBlock, lastFetched + 1})
             end == IF D!Above(height, start, MaxFetch)
                    THEN D!Min({start + MaxFetch, height}) ELSE height
             from == IF D!Below(end, start, LookBack) /\ end > LookBack
                     THEN end - LookBack ELSE start
  <1>1. r = [from |-> from, to |-> end, height |-> height]
    BY DEF D!RangeOf
  <1>2. /\ start \in Nat /\ start > row /\ start >= FirstBlock
        /\ start <= known + 1 \/ start = FirstBlock
    <2>1. PICK a \in Nat, b \in Nat, c \in Nat : a = row + 1 /\ b = FirstBlock /\ c = lastFetched + 1
      OBVIOUS
    <2>2. start = D!Max({a, b, c})
      BY <2>1
    <2> HIDE DEF start
    <2>3. start \in {a, b, c} /\ start >= a /\ start >= b /\ start >= c
      BY <2>2, MaxOfSome
    <2> QED
      BY <2>1, <2>3
  <1> HIDE DEF start
  <1>3. /\ end \in Nat /\ end <= height
        /\ start > end => end = height
        /\ start <= end => end = height \/ end = start + MaxFetch
    BY <1>2, MinOfTwo DEF D!Above
  <1> HIDE DEF end
  <1>4. /\ start > end => from = start
        /\ start <= end /\ end - start < LookBack /\ end > LookBack => from = end - LookBack
        /\ start <= end /\ ~ (end - start < LookBack /\ end > LookBack) => from = start
    BY <1>2, <1>3 DEF D!Below
  <1> HIDE DEF from
  <1>5. CASE start > end
    BY <1>1, <1>2, <1>3, <1>4, <1>5
  <1>6. CASE start <= end
    <2>1. end > LookBack
      BY <1>2, <1>3, <1>6
    <2>2. from \in Nat /\ from > 0 /\ from <= start /\ from <= height - LookBack
          /\ row <= end /\ row <= from + Short /\ from <= end
      BY <1>2, <1>3, <1>4, <1>6, <2>1
    <2> QED
      BY <1>1, <1>2, <1>3, <2>2
  <1> QED
    BY <1>2, <1>3, <1>5, <1>6

-----------------------------------------------------------------------------

DepositTypes ==
  /\ chainHead \in Nat /\ reach \in Nat /\ lastFetched \in Nat /\ reorgs \in 0 .. MaxReorgs
  /\ D!LastRow \in 0 .. MaxHead /\ Frontier \in Nat
  /\ \A d \in Deposits : at[d] \in Nat /\ view[d] \in Nat /\ depositRows[d] \in Nat
                         /\ depositRows[d] <= D!LastRow

\* The numbers of a state.
LEMMA DepositNumbers ==
    ASSUME D!TypeOK
    PROVE  DepositTypes
  <1> USE DepositConstants
  <1>1. D!LastRow \in 0 .. MaxHead /\ \A d \in Deposits : depositRows[d] <= D!LastRow
    BY LastOfRows DEF D!TypeOK, D!LastRow
  <1>2. chainHead \in Nat /\ reach \in Nat /\ lastFetched \in Nat /\ reorgs \in 0 .. MaxReorgs
    BY DEF D!TypeOK
  <1>3. \A d \in Deposits : at[d] \in Nat /\ view[d] \in Nat /\ depositRows[d] \in Nat
    BY DEF D!TypeOK
  <1>4. Frontier \in Nat
    BY <1>1, <1>2 DEF Frontier
  <1> QED
    BY <1>1, <1>2, <1>3, <1>4 DEF DepositTypes

\* The rows, and what was fetched, stay: so do what is derived from them.
LEMMA KnownStays ==
    ASSUME UNCHANGED <<depositRows, lastFetched>>
    PROVE  D!LastRow' = D!LastRow /\ Frontier' = Frontier
  <1>1. D!LastRow' = D!LastRow
    BY DEF D!LastRow
  <1> QED
    BY <1>1 DEF Frontier

\* A block more: the deposits in it are above everything that is firm.
LEMMA GrowKeeps ==
    ASSUME DepositsInv, D!Grow
    PROVE  DepositsInv'
  <1> USE DepositConstants
  <1>1. /\ chainHead' = chainHead + 1 /\ chainHead < MaxHead
        /\ chainHead < reach + Spurt \/ chainHead <= D!Max({lastFetched, D!LastRow})
        /\ UNCHANGED <<stage, range, view, depositRows, lastFetched, reach, reorgs, mishaps>>
    BY DEF D!Grow
  <1>2. \A d \in Deposits : at'[d] = at[d] \/ at'[d] = chainHead + 1
    BY DEF D!Grow
  <1>3. at' \in [Deposits -> 0 .. chainHead']
    <2>1. at' = [d \in Deposits |-> at'[d]]
      BY DEF D!Grow
    <2>2. \A d \in Deposits : at'[d] \in 0 .. chainHead'
      BY <1>1, <1>2 DEF DepositsInv, D!TypeOK
    <2> QED
      BY <2>1, <2>2
  <1>4. D!TypeOK'
    BY <1>1, <1>3 DEF DepositsInv, D!TypeOK
  <1>5. DepositTypes
    BY DepositNumbers DEF DepositsInv
  <1>6. chainHead < reach + Spurt \/ chainHead <= Frontier
    <2>1. PICK a \in Nat, b \in Nat : a = lastFetched /\ b = D!LastRow
      BY <1>5 DEF DepositTypes
    <2>2. D!Max({a, b}) \in {a, b} /\ D!Max({a, b}) = D!Max({lastFetched, D!LastRow})
      BY <2>1, MaxOfSome
    <2>3. D!Max({lastFetched, D!LastRow}) <= Frontier
      BY ONLY <1>5, <2>1, <2>2 DEF Frontier, DepositTypes
    <2> QED
      BY ONLY <1>1, <1>5, <2>1, <2>2, <2>3 DEF DepositTypes
  <1>7. D!LastRow' = D!LastRow /\ Frontier' = Frontier
    BY <1>1, KnownStays
  <1>8. HeadsFit'
    BY <1>1, <1>5, <1>6, <1>7 DEF DepositsInv, HeadsFit, DepositTypes
  <1>9. ASSUME NEW d \in Deposits, at'[d] >= FirstBlock, Firm(at[d])'
        PROVE  depositRows'[d] = at'[d]
    <2>1. Firm(at'[d])
      BY <1>1, <1>7, <1>9 DEF Firm
    <2>2. at'[d] # chainHead + 1
      BY <1>5, <2>1 DEF DepositsInv, HeadsFit, DepositTypes, Firm, Reaches
    <2> QED
      BY <1>1, <1>2, <1>9, <2>1, <2>2 DEF DepositsInv
  <1>10. stage # "asleep" => RangeFits'
    <2> HAVE stage # "asleep"
    <2>1. RangeFits
      BY DEF DepositsInv
    <2>2. range.height \in Nat
      BY DEF DepositsInv, D!TypeOK
    <2>3. chainHead + 1 <= range.height + MaxReorgs + Spurt
      BY <1>5, <1>6, <2>1, <2>2 DEF RangeFits, DepositTypes
    <2> QED
      BY <1>1, <1>5, <1>7, <2>1, <2>2, <2>3 DEF RangeFits, DepositTypes
  <1>11. stage = "fetched" => ViewFits'
    <2> HAVE stage = "fetched"
    <2>1. ViewFits /\ RangeFits
      BY DEF DepositsInv
    <2>2. range.height \in Nat
      BY DEF DepositsInv, D!TypeOK
    <2>3. \A d \in Deposits : view[d] <= chainHead' + reorgs'
      BY <1>1, <1>5, <2>1 DEF ViewFits, DepositTypes
    <2>4. ASSUME NEW d \in Deposits, at'[d] >= FirstBlock, at'[d] <= range.height - Reaches
          PROVE  view[d] = at'[d]
      <3>1. at'[d] # chainHead + 1
        BY <1>5, <2>1, <2>2, <2>4 DEF RangeFits, DepositTypes, Reaches
      <3> QED
        BY <1>2, <2>1, <2>4, <3>1 DEF ViewFits
    <2> QED
      BY <1>1, <2>1, <2>3, <2>4 DEF ViewFits, Reaches
  <1> QED
    BY <1>1, <1>4, <1>8, <1>9, <1>10, <1>11 DEF DepositsInv

\* Another branch: what changes is above everything that is firm.
LEMMA ReorgKeeps ==
    ASSUME DepositsInv, D!Reorg
    PROVE  DepositsInv'
  <1> USE DepositConstants
  <1>1. /\ reorgs < MaxReorgs /\ reorgs' = reorgs + 1 /\ chainHead > Depth /\ chainHead < MaxHead
        /\ chainHead' \in {chainHead - 1, chainHead}
        /\ UNCHANGED <<stage, range, view, depositRows, lastFetched, reach, mishaps>>
    BY DEF D!Reorg
  <1>2. PICK base : base = chainHead - Depth
    OBVIOUS
  <1>3. /\ at' \in [Deposits -> {0} \cup FirstBlock .. chainHead']
        /\ \A d \in Deposits : IF at[d] # 0 /\ at[d] <= base THEN at'[d] = at[d]
                               ELSE at'[d] \notin 1 .. base
    BY <1>2 DEF D!Reorg
  <1>4. DepositTypes
    BY DepositNumbers DEF DepositsInv
  <1>5. D!TypeOK'
    <2>1. chainHead' \in 0 .. MaxHead /\ reorgs' \in 0 .. MaxReorgs
      BY <1>1, <1>4 DEF DepositTypes
    <2>2. {0} \cup FirstBlock .. chainHead' \subseteq 0 .. chainHead'
      BY <2>1
    <2>3. at' \in [Deposits -> 0 .. chainHead']
      BY <1>3, <2>2
    <2> QED
      BY <1>1, <2>1, <2>3 DEF DepositsInv, D!TypeOK
  <1>6. D!LastRow' = D!LastRow /\ Frontier' = Frontier
    BY <1>1, KnownStays
  <1>0. /\ chainHead \in Nat /\ reorgs \in Nat /\ chainHead' \in Nat
        /\ chainHead' = chainHead \/ chainHead' = chainHead - 1
        /\ reorgs' = reorgs + 1
    BY <1>1, <1>4 DEF DepositTypes
  <1>7. chainHead' \in Nat /\ chainHead' <= chainHead /\ chainHead + reorgs <= chainHead' + reorgs'
        /\ reorgs' \in Nat
    <2>1. PICK c \in Nat, n \in Nat, k \in Nat, m \in Nat :
            c = chainHead /\ n = chainHead' /\ k = reorgs /\ m = reorgs'
      BY <1>0
    <2>2. (n = c \/ n = c - 1) /\ m = k + 1
      BY <1>0, <2>1
    <2>3. n <= c /\ c + k <= n + m
      BY ONLY <2>2, c \in Nat, n \in Nat, k \in Nat, m \in Nat
    <2> QED
      BY ONLY <2>1, <2>3
  <1>8. HeadsFit'
    <2>1. PICK c \in Nat, n \in Nat, k \in Nat, m \in Nat, f \in Nat, p \in Nat :
            /\ c = chainHead /\ n = chainHead' /\ k = reorgs /\ m = reorgs' /\ f = Frontier /\ p = reach
      BY <1>0, <1>4, <1>7 DEF DepositTypes
    <2>2. n <= c /\ c + k <= n + m
      BY ONLY <1>7, <2>1
    <2>3. /\ FirstHead <= c + k /\ p <= c + k /\ f <= c + k /\ f <= p + MaxReorgs
          /\ c <= p + MaxReorgs + Spurt
      BY <2>1 DEF DepositsInv, HeadsFit
    <2>4. FirstHead <= n + m /\ p <= n + m /\ f <= n + m /\ n <= p + MaxReorgs + Spurt
      BY ONLY <2>2, <2>3, DepositConstants, c \in Nat, n \in Nat, k \in Nat, m \in Nat, f \in Nat, p \in Nat
    <2> QED
      BY <1>1, <1>6, <2>1, <2>3, <2>4 DEF HeadsFit
  <1>9. ASSUME NEW d \in Deposits, at'[d] >= FirstBlock, at'[d] <= base
        PROVE  at'[d] = at[d]
    <2>1. at'[d] \in Nat
      BY <1>3, <1>7, <1>4 DEF DepositTypes
    <2> QED
      BY <1>2, <1>3, <1>4, <1>9, <2>1 DEF DepositTypes
  <1>10. ASSUME NEW d \in Deposits, at'[d] >= FirstBlock, Firm(at[d])'
         PROVE  depositRows'[d] = at'[d]
    <2>1. Firm(at'[d])
      BY <1>1, <1>6, <1>10 DEF Firm
    <2>2. at'[d] \in Nat
      BY <1>3, <1>7, <1>4 DEF DepositTypes
    <2>3. at'[d] <= base
      BY <1>1, <1>2, <1>4, <2>1, <2>2 DEF DepositsInv, HeadsFit, DepositTypes, Firm, Reaches
    <2>4. at'[d] = at[d]
      BY <1>9, <1>10, <2>3
    <2> QED
      BY <1>1, <1>10, <2>1, <2>4 DEF DepositsInv
  <1>11. stage # "asleep" => RangeFits'
    <2> HAVE stage # "asleep"
    <2>1. RangeFits
      BY DEF DepositsInv
    <2>2. range.height \in Nat
      BY DEF DepositsInv, D!TypeOK
    <2> QED
      BY <1>1, <1>4, <1>6, <1>7, <2>1, <2>2 DEF RangeFits, DepositTypes
  <1>12. stage = "fetched" => ViewFits'
    <2> HAVE stage = "fetched"
    <2>1. ViewFits /\ RangeFits
      BY DEF DepositsInv
    <2>2. range.height \in Nat
      BY DEF DepositsInv, D!TypeOK
    <2>3. \A d \in Deposits : view[d] <= chainHead' + reorgs'
      BY <1>1, <1>4, <1>7, <2>1 DEF ViewFits, DepositTypes
    <2>4. ASSUME NEW d \in Deposits, at'[d] >= FirstBlock, at'[d] <= range.height - Reaches
          PROVE  view[d] = at'[d]
      <3>1. at'[d] \in Nat
        BY <1>3, <1>7, <1>4 DEF DepositTypes
      <3>2. at'[d] <= base
        BY <1>1, <1>2, <1>4, <2>1, <2>2, <2>4, <3>1 DEF RangeFits, DepositTypes, Reaches
      <3>3. at'[d] = at[d]
        BY <1>9, <2>4, <3>2
      <3> QED
        BY <2>1, <2>4, <3>3 DEF ViewFits
    <2> QED
      BY <1>1, <2>1, <2>3, <2>4 DEF ViewFits, Reaches
  <1> QED
    BY <1>1, <1>5, <1>8, <1>10, <1>11, <1>12 DEF DepositsInv

\* A pass begins.
LEMMA DepositStartKeeps ==
    ASSUME DepositsInv, D!StartPass
    PROVE  DepositsInv'
  <1> USE DepositConstants
  <1>1. /\ stage = "asleep" /\ stage' = "ranged" /\ range' = D!RangeOf(D!LastRow, chainHead)
        /\ UNCHANGED <<chainHead, at, reach, reorgs, view, depositRows, lastFetched, mishaps>>
    BY DEF D!StartPass, D!chain
  <1>2. DepositTypes
    BY DepositNumbers DEF DepositsInv
  <1>3. HeadsFit
    BY DEF DepositsInv
  <1>4. D!LastRow' = D!LastRow /\ Frontier' = Frontier
    BY <1>1, KnownStays
  <1>5. LookBack < chainHead
    BY <1>2, <1>3 DEF HeadsFit, DepositTypes
  <1>12. PICK r : r = range'
    OBVIOUS
  <1>6. PICK row \in Nat, height \in Nat, known \in Nat :
          /\ row = D!LastRow /\ height = chainHead /\ known = Frontier
    BY <1>2 DEF DepositTypes
  <1>7. /\ r = [from |-> r.from, to |-> r.to, height |-> height]
        /\ r.from \in Nat /\ r.to \in Nat /\ r.from > 0 /\ r.to <= height
        /\ r.from <= known + 1 \/ r.from <= FirstBlock
        /\ r.from <= r.to =>
             r.from <= height - LookBack /\ row <= r.to /\ row <= r.from + Short
        /\ r.from > r.to => r.to = height
    <2>1. known = IF lastFetched >= row THEN lastFetched ELSE row
      BY <1>6 DEF Frontier
    <2>2. r = D!RangeOf(row, height) /\ LookBack < height /\ lastFetched \in Nat
      BY <1>1, <1>2, <1>5, <1>6, <1>12 DEF DepositTypes
    <2> QED
      BY <2>1, <2>2, RangeIs
  <1>8. RangeFits'
    <2>1. r.height = height
      BY <1>7
    <2> QED
      BY <1>1, <1>2, <1>3, <1>4, <1>5, <1>6, <1>7, <1>12, <2>1 DEF RangeFits, HeadsFit, DepositTypes
  <1>9. D!TypeOK'
    <2>1. Frontier <= MaxHead /\ chainHead <= MaxHead
      BY <1>2 DEF DepositTypes, Frontier, DepositsInv, D!TypeOK
    <2>2. r.from \in 0 .. MaxHead + 1 /\ r.to \in 0 .. MaxHead /\ height \in 0 .. MaxHead
      BY <1>6, <1>7, <2>1
    <2>3. range' \in [from : 0 .. MaxHead + 1, to : 0 .. MaxHead, height : 0 .. MaxHead]
      BY <1>6, <1>7, <1>12, <2>2
    <2> QED
      BY <1>1, <2>3 DEF DepositsInv, D!TypeOK
  <1>10. HeadsFit'
    BY <1>1, <1>3, <1>4 DEF HeadsFit
  <1>11. \A d \in Deposits : at'[d] >= FirstBlock /\ Firm(at[d])' => depositRows'[d] = at'[d]
    BY <1>1, <1>4 DEF DepositsInv, Firm, Reaches
  <1> QED
    BY <1>1, <1>8, <1>9, <1>10, <1>11 DEF DepositsInv

\* A pass is given up, or the process stops and forgets what was fetched.
LEMMA LessIsKnown ==
    ASSUME DepositsInv, stage' = "asleep", range' = D!NoRange, view' = D!Nothing,
           UNCHANGED <<chainHead, at, reorgs, depositRows, reach>>,
           lastFetched' \in {0, lastFetched}, mishaps' \in 0 .. MaxMishaps
    PROVE  DepositsInv'
  <1> USE DepositConstants
  <1>1. DepositTypes
    BY DepositNumbers DEF DepositsInv
  <1>2. D!LastRow' = D!LastRow
    BY DEF D!LastRow
  <1>3. D!TypeOK'
    <2>1. range' \in [from : 0 .. MaxHead + 1, to : 0 .. MaxHead, height : 0 .. MaxHead]
      BY DEF D!NoRange
    <2>2. view' \in [Deposits -> 0 .. MaxHead] /\ lastFetched' \in 0 .. MaxHead
      BY DEF D!Nothing, DepositsInv, D!TypeOK
    <2> QED
      BY <2>1, <2>2 DEF DepositsInv, D!TypeOK
  <1>4. Frontier' \in Nat /\ Frontier' <= Frontier
    BY <1>1, <1>2 DEF Frontier, DepositTypes
  <1>5. HeadsFit'
    <2>1. PICK f \in Nat : f = Frontier'
      BY <1>4
    <2>2. f <= chainHead + reorgs /\ f <= reach + MaxReorgs
      BY <1>1, <1>4, <2>1 DEF DepositsInv, HeadsFit, DepositTypes
    <2> QED
      BY <2>1, <2>2 DEF DepositsInv, HeadsFit
  <1>6. ASSUME NEW d \in Deposits, at[d] >= FirstBlock, Firm(at[d])'
        PROVE  depositRows[d] = at[d]
    <2>1. PICK f \in Nat, g \in Nat : f = Frontier' /\ g = Frontier /\ f <= g
      BY <1>1, <1>4 DEF DepositTypes
    <2>2. at[d] <= f /\ (at[d] <= reach - Reaches \/ at[d] <= f - Reaches)
      BY <1>6, <2>1 DEF Firm, Reaches
    <2>3. at[d] <= g /\ (at[d] <= reach - Reaches \/ at[d] <= g - Reaches)
      BY <1>1, <2>1, <2>2 DEF DepositTypes, Reaches
    <2> QED
      BY <1>6, <2>1, <2>3 DEF DepositsInv, Firm
  <1> QED
    BY <1>3, <1>5, <1>6 DEF DepositsInv

\* The logs are fetched: the blocks before them are firm.
LEMMA FetchKeeps ==
    ASSUME DepositsInv, D!Fetch
    PROVE  DepositsInv'
  <1> USE DepositConstants
  <1>1. CASE D!GiveUp /\ (D!Mishap \/ UNCHANGED mishaps)
    <2>1. mishaps' \in 0 .. MaxMishaps
      BY <1>1 DEF D!Mishap, DepositsInv, D!TypeOK
    <2> QED
      BY <1>1, <2>1, LessIsKnown DEF D!GiveUp
  <1>2. CASE /\ stage = "ranged" /\ stage' = "fetched" /\ view' = at
             /\ \/ UNCHANGED <<range, mishaps>>
                \/ range' = [range EXCEPT !.to = D!Min({range.from + Short, range.height})] /\ D!Mishap
             /\ UNCHANGED <<chainHead, at, reach, reorgs, depositRows, lastFetched>>
    <2>1. DepositTypes /\ D!TypeOK
      BY DepositNumbers DEF DepositsInv
    <2>2. HeadsFit /\ RangeFits
      BY <1>2 DEF DepositsInv
    <2>3. D!LastRow' = D!LastRow /\ Frontier' = Frontier
      BY <1>2, KnownStays
    <2>4. PICK from \in 0 .. MaxHead + 1, to \in 0 .. MaxHead, height \in 0 .. MaxHead, end \in 0 .. MaxHead :
            /\ range = [from |-> from, to |-> to, height |-> height]
            /\ range' = [from |-> from, to |-> end, height |-> height]
            /\ end = to \/ end = (IF from + Short <= height THEN from + Short ELSE height)
      <3>1. PICK from \in 0 .. MaxHead + 1, to \in 0 .. MaxHead, height \in 0 .. MaxHead :
              range = [from |-> from, to |-> to, height |-> height]
        BY <2>1 DEF D!TypeOK
      <3>2. PICK m : m = IF from + Short <= height THEN from + Short ELSE height
        OBVIOUS
      <3>3. m \in 0 .. MaxHead /\ m = D!Min({from + Short, height})
        BY <3>2, MinOfTwo
      <3>4. CASE UNCHANGED range
        BY <3>1, <3>4
      <3>5. CASE range' = [range EXCEPT !.to = D!Min({range.from + Short, range.height})]
        <4>1. range' = [from |-> from, to |-> m, height |-> height]
          BY <3>1, <3>3, <3>5
        <4> QED
          BY <3>1, <3>2, <3>3, <4>1
      <3> QED
        BY <1>2, <3>4, <3>5
    <2>5. /\ from > 0 /\ to <= height /\ LookBack < height
          /\ from - 1 <= Frontier \/ from <= FirstBlock
          /\ from <= to => from <= height - LookBack /\ D!LastRow <= to /\ D!LastRow <= from + Short
          /\ from > to => to = height
      BY <2>2, <2>4 DEF RangeFits
    <2>6. /\ end <= height /\ (from <= end => from <= to)
          /\ from <= end => D!LastRow <= end
          /\ from > end => end = height
      BY <2>1, <2>4, <2>5 DEF DepositTypes
    <2>7. RangeFits'
      <3>1. range'.from = from /\ range'.to = end /\ range'.height = height
        BY <2>4
      <3>2. range.from = from /\ range.height = height
        BY <2>4
      <3>3. /\ height <= chainHead + reorgs /\ chainHead <= height + MaxReorgs + Spurt
            /\ height <= reach + MaxReorgs + Spurt
            /\ reach <= height + MaxReorgs /\ Frontier <= height + MaxReorgs
        BY <2>2, <3>2 DEF RangeFits
      <3> QED
        BY <1>2, <2>3, <2>5, <2>6, <3>1, <3>3 DEF RangeFits
    <2>8. D!TypeOK'
      <3>1. range' \in [from : 0 .. MaxHead + 1, to : 0 .. MaxHead, height : 0 .. MaxHead]
        BY <2>4
      <3>2. mishaps' \in 0 .. MaxMishaps
        BY <1>2, <2>1 DEF D!Mishap, D!TypeOK
      <3>3. chainHead \in 0 .. MaxHead /\ at \in [Deposits -> 0 .. chainHead]
        BY <2>1 DEF D!TypeOK
      <3>4. at \in [Deposits -> 0 .. MaxHead]
        BY <3>3
      <3> QED
        BY <1>2, <2>1, <3>1, <3>2, <3>4 DEF D!TypeOK
    <2>9. ASSUME NEW d \in Deposits, at[d] \in FirstBlock .. from - 1, from <= end
          PROVE  depositRows[d] = at[d]
      <3>1. PICK f \in Nat, p \in Nat, b \in Nat : f = Frontier /\ p = reach /\ b = at[d]
        BY <2>1 DEF DepositTypes
      <3>2. b <= f /\ from <= height - LookBack /\ b <= from - 1 /\ height <= p + MaxReorgs + Spurt
        BY <2>2, <2>4, <2>5, <2>6, <2>9, <3>1 DEF RangeFits
      <3>3. b <= p - (MaxReorgs + Depth)
        BY <3>2
      <3>4. Firm(at[d])
        BY <3>1, <3>2, <3>3 DEF Firm, Reaches
      <3> QED
        BY <2>9, <3>4 DEF DepositsInv
    <2>10. ViewFits'
      <3>1. \A d \in Deposits : at[d] <= chainHead + reorgs
        BY <2>1 DEF D!TypeOK, DepositTypes
      <3>2. range'.from = from /\ range'.to = end
        BY <2>4
      <3> QED
        BY <1>2, <2>9, <3>1, <3>2 DEF ViewFits
    <2>11. HeadsFit' /\ \A d \in Deposits : at'[d] >= FirstBlock /\ Firm(at[d])' => depositRows'[d] = at'[d]
      BY <1>2, <2>2, <2>3 DEF HeadsFit, DepositsInv, Firm, Reaches
    <2> QED
      BY <2>7, <2>8, <2>10, <2>11 DEF DepositsInv
  <1> QED
    BY <1>1, <1>2 DEF D!Fetch, D!chain

\* The rows after a pass, and what is known then.
LEMMA SavedRows ==
    ASSUME DepositsInv, D!Save
    PROVE  /\ DepositTypes /\ RangeFits /\ ViewFits
           /\ range.from \in Nat /\ range.to \in Nat /\ range.height \in Nat
           /\ \A d \in Deposits :
                depositRows'[d] = IF view[d] \in range.from .. range.to THEN view[d] ELSE depositRows[d]
           /\ depositRows' \in [Deposits -> 0 .. MaxHead]
           /\ D!LastRow' \in Nat /\ Frontier' \in Nat
           /\ Frontier' = range.to \/ (Frontier' = D!LastRow' /\ D!LastRow' > range.to)
           /\ D!LastRow' <= range.to \/ D!LastRow' <= D!LastRow
           /\ Frontier' <= range.to \/ Frontier' <= D!LastRow
  <1> USE DepositConstants
  <1>1. DepositTypes /\ RangeFits /\ ViewFits /\ D!TypeOK
    BY DepositNumbers DEF DepositsInv, D!Save
  <1>2. range.from \in Nat /\ range.to \in 0 .. MaxHead /\ range.height \in Nat
    BY <1>1 DEF D!TypeOK
  <1>3. /\ lastFetched' = range.to
        /\ depositRows' = [d \in Deposits |-> IF view[d] \in range.from .. range.to THEN view[d]
                                              ELSE depositRows[d]]
    BY DEF D!Save, D!Logged
  <1>4. depositRows' \in [Deposits -> 0 .. MaxHead]
    BY <1>1, <1>3 DEF D!TypeOK
  <1>5. PICK m : m = D!LastRow'
    OBVIOUS
  <1>6. m \in 0 .. MaxHead /\ (m = 0 \/ \E d \in Deposits : depositRows'[d] = m)
    <2>1. m = D!Max({0} \cup {depositRows'[d] : d \in Deposits})
      BY <1>5 DEF D!LastRow
    <2> QED
      BY <1>4, <2>1, LastOfRows
  <1>7. m <= range.to \/ m <= D!LastRow
    <2>1. CASE m = 0
      BY <1>2, <2>1
    <2>2. ASSUME NEW d \in Deposits, depositRows'[d] = m
          PROVE  m <= range.to \/ m <= D!LastRow
      <3>1. CASE view[d] \in range.from .. range.to
        BY <1>1, <1>2, <1>3, <2>2, <3>1 DEF DepositTypes
      <3>2. CASE view[d] \notin range.from .. range.to
        BY <1>1, <1>3, <2>2, <3>2 DEF DepositTypes
      <3> QED
        BY <3>1, <3>2
    <2> QED
      BY <1>6, <2>1, <2>2
  <1>8. Frontier' = IF range.to >= m THEN range.to ELSE m
    BY <1>3, <1>5 DEF Frontier
  <1>9. /\ Frontier' \in Nat
        /\ Frontier' = range.to \/ (Frontier' = m /\ m > range.to)
        /\ Frontier' <= range.to \/ Frontier' <= D!LastRow
    <2>0. PICK f : f = Frontier'
      OBVIOUS
    <2>1. PICK upto \in Nat, l \in Nat : upto = range.to /\ l = D!LastRow
      BY <1>1, <1>2 DEF DepositTypes
    <2>2. f = IF upto >= m THEN upto ELSE m
      BY ONLY <1>8, <2>0, <2>1
    <2>4. m <= upto \/ m <= l
      BY ONLY <1>7, <2>1
    <2>5. m \in Nat
      <3>1. m \in 0 .. MaxHead /\ MaxHead \in Nat
        BY <1>6
      <3> QED
        BY ONLY <3>1
    <2>3. f \in Nat /\ (f = upto \/ (f = m /\ m > upto)) /\ (f <= upto \/ f <= l)
      <3>1. CASE upto >= m
        <4>1. f = upto
          BY ONLY <2>2, <3>1
        <4> QED
          BY ONLY <4>1, upto \in Nat
      <3>2. CASE ~ (upto >= m)
        <4>1. f = m
          BY ONLY <2>2, <3>2
        <4>2. m > upto
          BY ONLY <2>5, <3>2, upto \in Nat
        <4>3. ~ (m <= upto)
          BY ONLY <2>5, <3>2, upto \in Nat
        <4>4. m <= l
          BY ONLY <2>4, <4>3
        <4> QED
          BY ONLY <2>5, <4>1, <4>2, <4>4
      <3> QED
        BY ONLY <3>1, <3>2
    <2> QED
      BY ONLY <2>0, <2>1, <2>3
  <1> QED
    BY <1>1, <1>2, <1>3, <1>4, <1>5, <1>6, <1>7, <1>9

\* A pass is saved: what is firm now was in the range, or was firm before.
LEMMA SaveKeeps ==
    ASSUME DepositsInv, D!Save
    PROVE  DepositsInv'
  <1> USE DepositConstants
  <1>1. /\ stage = "fetched" /\ stage' = "asleep" /\ range' = D!NoRange /\ view' = D!Nothing
        /\ lastFetched' = range.to /\ reach' = range.height
        /\ UNCHANGED <<chainHead, at, reorgs, mishaps>>
    BY DEF D!Save
  <1>2. PICK from \in Nat, to \in Nat, height \in Nat :
          from = range.from /\ to = range.to /\ height = range.height
    BY SavedRows
  <1>3. /\ DepositTypes /\ RangeFits /\ ViewFits /\ HeadsFit
        /\ \A d \in Deposits :
             depositRows'[d] = IF view[d] \in from .. to THEN view[d] ELSE depositRows[d]
        /\ depositRows' \in [Deposits -> 0 .. MaxHead]
        /\ Frontier' \in Nat
        /\ Frontier' <= to \/ Frontier' <= D!LastRow
    BY <1>2, SavedRows DEF DepositsInv
  <1>4. D!TypeOK'
    <2>1. range' \in [from : 0 .. MaxHead + 1, to : 0 .. MaxHead, height : 0 .. MaxHead]
      BY <1>1 DEF D!NoRange
    <2>2. view' \in [Deposits -> 0 .. MaxHead] /\ lastFetched' \in 0 .. MaxHead /\ reach' \in 0 .. MaxHead
      BY <1>1 DEF D!Nothing, DepositsInv, D!TypeOK
    <2> QED
      BY <1>1, <1>3, <2>1, <2>2 DEF DepositsInv, D!TypeOK
  <1>5. /\ from > 0 /\ to <= height
        /\ from - 1 <= Frontier \/ from <= FirstBlock
        /\ from <= to => D!LastRow <= to
        /\ from > to => to = height
        /\ height <= chainHead + reorgs /\ chainHead <= height + MaxReorgs + Spurt
        /\ Frontier <= height + MaxReorgs
    BY <1>2, <1>3 DEF RangeFits
  <1>6. PICK f \in Nat, g \in Nat, l \in Nat :
          f = Frontier' /\ g = Frontier /\ l = D!LastRow /\ l <= g
    BY <1>3 DEF DepositTypes, Frontier
  <1>7. HeadsFit'
    <2>1. PICK k \in Nat : k = chainHead + reorgs
      BY <1>3 DEF DepositTypes
    <2>2. f <= to \/ f <= l
      BY <1>3, <1>6
    <2>3. to <= height /\ height <= k /\ g <= k /\ g <= height + MaxReorgs
      BY <1>3, <1>5, <1>6, <2>1 DEF HeadsFit
    <2>4. f <= k /\ f <= height + MaxReorgs
      BY ONLY <1>6, <2>2, <2>3, DepositConstants, to \in Nat, height \in Nat, k \in Nat
    <2>5. FirstHead <= k
      BY <1>3, <2>1 DEF HeadsFit
    <2> QED
      BY <1>1, <1>2, <1>5, <1>6, <2>1, <2>3, <2>4, <2>5 DEF HeadsFit
  <1>8. ASSUME NEW d \in Deposits, at[d] >= FirstBlock, Firm(at[d])'
        PROVE  depositRows'[d] = at[d]
    <2>1. PICK b \in Nat : b = at[d] /\ b >= FirstBlock
      BY <1>3, <1>8 DEF DepositTypes
    <2>2. b <= f /\ (b <= height - Reaches \/ b <= f - Reaches)
      BY <1>1, <1>2, <1>6, <1>8, <2>1 DEF Firm, Reaches
    <2>3. f <= to \/ f <= l
      BY <1>3, <1>6
    <2>4. CASE from <= to
      <3>0. Reaches \in Nat /\ to <= height /\ l <= to
        BY <1>5, <1>6, <2>4 DEF Reaches
      <3>1. f <= to /\ b <= to /\ b <= height - Reaches
        BY ONLY <2>2, <2>3, <3>0, b \in Nat, f \in Nat, l \in Nat, to \in Nat, height \in Nat
      <3>2. view[d] = b
        BY <1>2, <1>3, <2>1, <3>1 DEF ViewFits
      <3>3. CASE b \in from .. to
        BY <1>3, <2>1, <3>2, <3>3
      <3>4. CASE b \in FirstBlock .. from - 1
        <4>1. depositRows[d] = b
          BY <1>2, <1>3, <2>4, <3>2, <3>4 DEF ViewFits
        <4> QED
          BY <1>3, <2>1, <3>2, <4>1
      <3> QED
        BY <2>1, <3>1, <3>3, <3>4
    <2>5. CASE from > to
      <3>1. depositRows'[d] = depositRows[d]
        <4>1. from .. to = {}
          BY <2>5
        <4> QED
          BY <1>3, <4>1
      <3>2. b <= g /\ b <= g - Reaches
        <4>1. to = height /\ (from - 1 <= g \/ from <= FirstBlock)
          BY <1>5, <1>6, <2>5
        <4>2. CASE f <= g
          <5>1. height <= g \/ height < FirstBlock
            BY <2>5, <4>1
          <5> QED
            BY <1>6, <2>1, <2>2, <4>2, <5>1 DEF Reaches
        <4>3. CASE f > g
          <5>1. f <= to
            BY <1>6, <2>3, <4>3
          <5> QED
            BY <2>1, <2>2, <2>5, <4>1, <4>3, <5>1 DEF Reaches
        <4> QED
          BY <4>2, <4>3
      <3>3. Firm(at[d])
        BY <1>6, <2>1, <3>2 DEF Firm
      <3> QED
        BY <1>8, <3>1, <3>3 DEF DepositsInv
    <2> QED
      BY <2>4, <2>5
  <1> QED
    BY <1>1, <1>4, <1>7, <1>8 DEF DepositsInv

\* Every step of the exporter and of the node keeps the invariant.
LEMMA DepositsInvStep ==
    ASSUME DepositsInv, D!Next
    PROVE  DepositsInv'
  <1>1. CASE D!SaveFails
    <2>1. mishaps' \in 0 .. MaxMishaps
      BY <1>1, DepositConstants DEF D!SaveFails, D!Mishap, DepositsInv, D!TypeOK
    <2> QED
      BY <1>1, <2>1, LessIsKnown DEF D!SaveFails, D!GiveUp
  <1>2. CASE D!Restart
    <2>1. mishaps' \in 0 .. MaxMishaps
      BY <1>2, DepositConstants DEF D!Restart, D!Mishap, DepositsInv, D!TypeOK
    <2> QED
      BY <1>2, <2>1, LessIsKnown DEF D!Restart, D!chain
  <1> QED
    BY <1>1, <1>2, GrowKeeps, ReorgKeeps, DepositStartKeeps, FetchKeeps, SaveKeeps DEF D!Next, D!Pass

\* Before the first pass nothing is known.
LEMMA DepositsInvInit ==
    ASSUME D!Init
    PROVE  DepositsInv
  <1> USE DepositConstants
  <1>1. D!TypeOK
    <2>1. {0} \cup FirstBlock .. FirstHead \subseteq 0 .. FirstHead
      OBVIOUS
    <2>2. at \in [Deposits -> 0 .. chainHead]
      BY <2>1 DEF D!Init
    <2>3. view \in [Deposits -> 0 .. MaxHead] /\ depositRows \in [Deposits -> 0 .. MaxHead]
      BY DEF D!Init, D!Nothing
    <2>4. range \in [from : 0 .. MaxHead + 1, to : 0 .. MaxHead, height : 0 .. MaxHead]
      BY DEF D!Init, D!NoRange
    <2> QED
      BY <2>2, <2>3, <2>4 DEF D!Init, D!TypeOK
  <1>2. D!LastRow = 0
    <2>1. depositRows \in [Deposits -> 0 .. MaxHead] /\ \A d \in Deposits : depositRows[d] = 0
      BY DEF D!Init, D!Nothing
    <2> QED
      BY <2>1, LastOfRows DEF D!LastRow
  <1>3. Frontier = 0
    BY <1>2 DEF D!Init, Frontier
  <1>4. HeadsFit
    BY <1>3 DEF HeadsFit, D!Init
  <1>5. \A d \in Deposits : at[d] >= FirstBlock => ~ Firm(at[d])
    BY <1>1, <1>3 DEF Firm, D!TypeOK
  <1> QED
    BY <1>1, <1>4, <1>5 DEF DepositsInv, D!Init

\* A pass that has read the head leaves every deposit it saw in its row.
LEMMA PassesComplete ==
    ASSUME DepositsInv, D!Next
    PROVE  D!PassCompletes
  <1>1. SUFFICES ASSUME stage = "fetched", stage' = "asleep", lastFetched' = range.height,
                        range.from <= range.to, mishaps' = mishaps,
                        NEW d \in Deposits, view[d] \in FirstBlock .. range.to
                 PROVE  depositRows'[d] = view[d]
    BY DEF D!PassCompletes
  <1>2. D!Save
    <2>1. mishaps \in Nat /\ mishaps + 1 # mishaps
      BY DEF DepositsInv, D!TypeOK
    <2> QED
      BY <1>1, <2>1 DEF D!Next, D!Pass, D!Grow, D!Reorg, D!StartPass, D!Fetch, D!SaveFails, D!Restart,
             D!Mishap
  <1>3. CASE view[d] \in range.from .. range.to
    BY <1>2, <1>3, SavedRows
  <1>4. CASE view[d] \in FirstBlock .. range.from - 1
    <2>1. depositRows[d] = view[d]
      BY <1>1, <1>2, <1>4, SavedRows DEF ViewFits
    <2> QED
      BY <1>2, <2>1, SavedRows
  <1>5. /\ view[d] \in Nat /\ range.from \in Nat /\ range.to \in Nat
        /\ FirstBlock <= view[d] /\ view[d] <= range.to
    BY <1>1, <1>2, SavedRows, DepositConstants DEF DepositTypes
  <1> QED
    BY <1>3, <1>4, <1>5, DepositConstants

\* The deposits' part of every behaviour.
LEMMA DepositsStay == MCSpec => []DepositsInv
  <1>1. MCInit => DepositsInv
    BY DepositsInvInit DEF MCInit
  <1>2. DepositsInv /\ [MCNext]_allVars => DepositsInv'
    <2> SUFFICES ASSUME DepositsInv, [MCNext]_allVars PROVE DepositsInv'
      OBVIOUS
    <2>1. CASE D!Next
      BY <2>1, DepositsInvStep
    <2>2. CASE UNCHANGED ofDeposits
      BY <2>2 DEF ofDeposits, DepositsInv, D!TypeOK, HeadsFit, Firm, RangeFits, ViewFits, Frontier, D!LastRow
    <2> QED
      BY <2>1, <2>2 DEF MCNext, Indexing, Paging, Marking, Fetching, Depositing, allVars
  <1> QED
    BY <1>1, <1>2, PTL DEF MCSpec

\* A pass that reaches the head leaves every deposit of the chain it saw in its
\* row, whatever was reorganised since the pass before (eth1.go:76-98).
THEOREM DepositsPass == MCSpec => DepositPasses
  <1>1. DepositsInv /\ [MCNext]_allVars => [D!PassCompletes]_allVars
    <2> SUFFICES ASSUME DepositsInv, MCNext PROVE D!PassCompletes
      OBVIOUS
    <2>1. CASE D!Next
      BY <2>1, PassesComplete
    <2>2. CASE UNCHANGED ofDeposits
      BY <2>2 DEF ofDeposits, D!PassCompletes
    <2> QED
      BY <2>1, <2>2 DEF MCNext, Indexing, Paging, Marking, Fetching, Depositing
  <1> QED
    BY <1>1, DepositsStay, PTL DEF MCSpec, DepositPasses

-----------------------------------------------------------------------------
(* The balances *)

\* Nothing that a block touched by the last of the heights is newer than the balance.
Covers(height, p, heights) ==
  height = BM!Failed \/ \A n \in heights : \A h \in 1 .. n : p \in TouchedBy[h] => h <= height
\* The pairs a run is going to mark.
Awaited == cached \cup UNION {TouchedBy[h] : h \in todo}

\* The marks of the cache are written, or held by a goroutine that began; what
\* the run does not touch is as before it.
RunFits ==
  /\ todo \subseteq 1 .. tip /\ inData \subseteq 1 .. tip
  /\ step # "index" => todo = {} /\ cached = {}
  /\ \A h \in started : TouchedBy[h] \subseteq cached
  /\ \A p \in cached : p \in marks \/ \E h \in started : p \in held[h]
  /\ \A p \in BM!Pairs \ (broken \cup Awaited) :
       p \in marks \/ Covers(balance[p], p, inData \cup todo)

\* All marks of the addresses of a batch are in it; their balances are new.
BatchFits ==
  /\ step \in {"ask", "save", "delete"} =>
       batch # {} /\ \A p \in marks, q \in batch : p[1] = q[1] => p \in batch
  /\ step = "save" => answers \in [BM!Pairs -> {BM!Failed} \cup 0 .. tip]
                      /\ \A p \in batch : Covers(answers[p], p, inData)
  /\ step = "delete" => \A p \in batch : Covers(balance[p], p, inData)

BalancesInv == BM!TypeOK /\ RunFits /\ BatchFits

\* The constants are as the code and the bounds have them.
LEMMA MarksConstants ==
    /\ Addresses \subseteq Nat \ {0} /\ IsFiniteSet(BM!Pairs) /\ TouchedBy \in Seq(SUBSET BM!Pairs)
    /\ DataOffset \in Nat /\ Iterations \in Nat /\ MaxStops \in Nat
    /\ Goroutines \in Nat \ {0} /\ BatchSize \in Nat \ {0} /\ Len(TouchedBy) \in Nat
    /\ \A h \in BM!Heights : TouchedBy[h] \subseteq BM!Pairs
    /\ BM!Failed \in Int /\ BM!Failed < 0
  <1>1. BM!MarksAssumption
    BY ConstantsFit
  <1>2. TouchedBy \in Seq(SUBSET BM!Pairs)
    BY <1>1 DEF BM!MarksAssumption
  <1>3. Len(TouchedBy) \in Nat /\ \A h \in BM!Heights : TouchedBy[h] \subseteq BM!Pairs
    <2> HIDE DEF BM!Pairs
    <2> QED
      BY <1>2 DEF BM!Heights
  <1>4. IsFiniteSet(BM!Pairs)
    BY <1>1 DEF BM!MarksAssumption, BM!IsFiniteSet, IsFiniteSet
  <1>5. /\ Addresses \subseteq Nat \ {0} /\ {DataOffset, Iterations, MaxStops} \subseteq Nat
        /\ {Goroutines, BatchSize} \subseteq Nat \ {0}
    BY <1>1 DEF BM!MarksAssumption
  <1>6. BM!Failed \in Int /\ BM!Failed < 0
    BY ONLY TRUE DEF BM!Failed
  <1> QED
    BY ONLY <1>2, <1>3, <1>4, <1>5, <1>6

\* The last block that touches a pair.
LEMMA LastTouchIs ==
    ASSUME NEW p, NEW n \in 0 .. Len(TouchedBy)
    PROVE  /\ BM!LastTouch(p, n) \in 0 .. n
           /\ \A h \in 1 .. n : p \in TouchedBy[h] => h <= BM!LastTouch(p, n)
           /\ BM!LastTouch(p, n) > 0 => p \in TouchedBy[BM!LastTouch(p, n)]
  <1> DEFINE T == {0} \cup {h \in 1 .. n : p \in TouchedBy[h]}
  <1>1. T \subseteq 0 .. n /\ T # {} /\ n \in Nat
    BY MarksConstants
  <1>2. BM!Max(T) = Max(T)
    BY DEF BM!Max, Max
  <1>3. Max(T) \in T /\ \A y \in T : Max(T) >= y
    <2> HIDE DEF T
    <2> QED
      BY <1>1, MaxOfInterval
  <1>4. BM!LastTouch(p, n) = BM!Max(T)
    BY DEF BM!LastTouch
  <1>5. PICK m : m = BM!LastTouch(p, n)
    OBVIOUS
  <1>6. m \in T /\ \A y \in T : m >= y
    <2> HIDE DEF T
    <2> QED
      BY <1>2, <1>3, <1>4, <1>5
  <1> QED
    BY <1>1, <1>5, <1>6

\* The last block in the data table.
LEMMA LastInDataIs ==
    ASSUME inData \subseteq 1 .. tip, tip \in Nat
    PROVE  /\ BM!LastInData \in 0 .. tip /\ \A h \in inData : h <= BM!LastInData
           /\ BM!LastInData = 0 \/ BM!LastInData \in inData
  <1> DEFINE T == {0} \cup inData
  <1>1. T \subseteq 0 .. tip /\ T # {}
    OBVIOUS
  <1>2. BM!Max(T) = Max(T)
    BY DEF BM!Max, Max
  <1>3. Max(T) \in T /\ \A y \in T : Max(T) >= y
    <2> HIDE DEF T
    <2> QED
      BY <1>1, MaxOfInterval
  <1> QED
    BY <1>1, <1>2, <1>3 DEF BM!LastInData

\* A balance that covers every height covers the last one.
LEMMA CoversLast ==
    ASSUME NEW p, NEW n \in 0 .. Len(TouchedBy), NEW heights, n = 0 \/ n \in heights,
           NEW x \in {BM!Failed} \cup Nat, Covers(x, p, heights)
    PROVE  x = BM!Failed \/ x >= BM!LastTouch(p, n)
  <1>1. PICK m : m = BM!LastTouch(p, n)
    OBVIOUS
  <1>2. m \in 0 .. n /\ (m > 0 => p \in TouchedBy[m])
    BY <1>1, LastTouchIs
  <1> QED
    BY <1>1, <1>2, MarksConstants DEF Covers

\* The balances the invariant allows are those of the property.
LEMMA StaleHasItsMark ==
    ASSUME BalancesInv
    PROVE  BM!StaleIsMarked
  <1>1. SUFFICES ASSUME step # "index", NEW p \in BM!Pairs \ broken, p \notin marks,
                        balance[p] # BM!Failed
                 PROVE  balance[p] >= BM!LastTouch(p, BM!LastInData)
    BY DEF BM!StaleIsMarked
  <1>2. tip \in 0 .. Len(TouchedBy) /\ balance[p] \in {BM!Failed} \cup Nat
    <2> HIDE DEF BM!Pairs
    <2> QED
      BY MarksConstants DEF BalancesInv, BM!TypeOK
  <1>3. p \notin Awaited
    BY <1>1 DEF BalancesInv, RunFits, Awaited
  <1>4. Covers(balance[p], p, inData \cup todo)
    BY <1>1, <1>3 DEF BalancesInv, RunFits
  <1>5. /\ BM!LastInData \in 0 .. Len(TouchedBy)
        /\ BM!LastInData = 0 \/ BM!LastInData \in inData \cup todo
    BY <1>2, LastInDataIs, MarksConstants DEF BalancesInv, RunFits
  <1> QED
    BY <1>1, <1>2, <1>4, <1>5, CoversLast

\* The node's chain grows by a block.
LEMMA NewBlockKeeps ==
    ASSUME BalancesInv, BM!NewBlock
    PROVE  BalancesInv'
  <1>1. tip \in Nat /\ tip' = tip + 1 /\ tip' <= Len(TouchedBy) /\ 0 .. tip \subseteq 0 .. tip'
        /\ 1 .. tip \subseteq 1 .. tip'
    BY MarksConstants DEF BalancesInv, BM!TypeOK, BM!NewBlock
  <1>2. BM!TypeOK'
    <2>1. balance \in [BM!Pairs -> {BM!Failed} \cup 0 .. tip']
      BY <1>1 DEF BalancesInv, BM!TypeOK
    <2>2. tip' \in 0 .. Len(TouchedBy)
      BY <1>1, MarksConstants
    <2> QED
      BY <2>1, <2>2 DEF BalancesInv, BM!TypeOK, BM!NewBlock
  <1>3. RunFits'
    BY <1>1 DEF BalancesInv, RunFits, Awaited, BM!NewBlock
  <1>4. BatchFits'
    <2>1. step = "save" => answers \in [BM!Pairs -> {BM!Failed} \cup 0 .. tip']
      BY <1>1 DEF BalancesInv, BatchFits
    <2> QED
      BY <2>1 DEF BalancesInv, BatchFits, BM!NewBlock
  <1> QED
    BY <1>2, <1>3, <1>4 DEF BalancesInv

\* A run begins with the blocks that are not in the table, and some before.
LEMMA BalancesStartKeeps ==
    ASSUME BalancesInv, BM!StartPass
    PROVE  BalancesInv'
  <1> DEFINE highest == BM!LastInData
  <1>1. /\ highest \in 0 .. tip /\ (\A h \in inData : h <= highest) /\ (highest = 0 \/ highest \in inData)
        /\ tip \in Nat /\ tip <= Len(TouchedBy)
    BY LastInDataIs, MarksConstants DEF BalancesInv, RunFits, BM!TypeOK
  <1>2. todo = {} /\ cached = {} /\ started = {} /\ step = "asleep"
    BY DEF BalancesInv, RunFits, BM!TypeOK, BM!StartPass
  <1>3. UNCHANGED <<tip, started, held, cached, inData, marks, balance, lastKey, batch, answers,
                    its, broken, stops>>
    BY DEF BM!StartPass
  <1>4. CASE highest < tip
    <2>1. step' = "index" /\ todo' = {h \in BM!Heights : highest - DataOffset <= h /\ h <= tip}
      BY <1>4 DEF BM!StartPass
    <2>2. todo' \subseteq 1 .. tip /\ todo' \subseteq BM!Heights
      BY <1>1, <2>1 DEF BM!Heights
    <2>3. \A h \in 1 .. tip : h > highest => h \in todo'
      BY <1>1, <2>1, MarksConstants DEF BM!Heights
    <2>4. ASSUME NEW p \in BM!Pairs \ broken, p \notin Awaited', p \notin marks
          PROVE  Covers(balance[p], p, inData \cup todo')
      <3>1. Covers(balance[p], p, inData)
        BY <1>2, <2>4 DEF BalancesInv, RunFits, Awaited
      <3>2. \A h \in todo' : p \notin TouchedBy[h]
        BY <2>4 DEF Awaited
      <3>3. SUFFICES ASSUME NEW n \in inData \cup todo', NEW h \in 1 .. n, p \in TouchedBy[h],
                            balance[p] # BM!Failed
                     PROVE  h <= balance[p]
        BY DEF Covers
      <3>4. n \in 1 .. tip /\ h \in 1 .. tip
        BY <1>1, <2>2 DEF BalancesInv, RunFits
      <3>5. h <= highest
        BY <1>1, <2>3, <3>2, <3>3, <3>4
      <3>6. highest \in inData
        BY <1>1, <3>4, <3>5
      <3>7. h \in 1 .. highest
        BY <1>1, <3>4, <3>5
      <3> QED
        BY <3>1, <3>3, <3>6, <3>7 DEF Covers
    <2>5. BM!TypeOK'
      BY <1>2, <1>3, <2>1, <2>2 DEF BalancesInv, BM!TypeOK
    <2>6. RunFits'
      <3>1. \A p \in BM!Pairs \ (broken' \cup Awaited') :
              p \in marks' \/ Covers(balance'[p], p, inData' \cup todo')
        BY <1>3, <2>4
      <3>2. todo' \subseteq 1 .. tip' /\ inData' \subseteq 1 .. tip' /\ step' = "index"
        BY <1>3, <2>1, <2>2 DEF BalancesInv, RunFits
      <3> QED
        BY <1>2, <1>3, <3>1, <3>2 DEF RunFits
    <2>7. BatchFits'
      BY <2>1 DEF BatchFits
    <2> QED
      BY <2>5, <2>6, <2>7 DEF BalancesInv
  <1>5. CASE ~ (highest < tip)
    <2>1. step' = "read" /\ todo' = todo
      BY <1>5 DEF BM!StartPass
    <2>2. BM!TypeOK'
      BY <1>3, <2>1 DEF BalancesInv, BM!TypeOK
    <2>3. RunFits'
      BY <1>2, <1>3, <2>1 DEF BalancesInv, RunFits, Awaited
    <2>4. BatchFits'
      BY <2>1 DEF BatchFits
    <2> QED
      BY <2>2, <2>3, <2>4 DEF BalancesInv
  <1> QED
    BY <1>4, <1>5

\* A goroutine begins: the cache has the pairs of its block, and it the new marks.
LEMMA TransformKeeps ==
    ASSUME BalancesInv, NEW h \in BM!Heights, BM!Transform(h)
    PROVE  BalancesInv'
  <1>1. /\ h \in todo /\ step = "index" /\ started' = started \cup {h}
        /\ held' = [held EXCEPT ![h] = BM!MarksOf(h)] /\ cached' = cached \cup TouchedBy[h]
        /\ UNCHANGED <<tip, step, todo, inData, marks, balance, lastKey, batch, answers, its, broken, stops>>
        /\ TouchedBy[h] \subseteq BM!Pairs /\ h \notin started
    BY MarksConstants DEF BM!Transform, BM!Running
  <1>2. held \in [BM!Heights -> SUBSET BM!Pairs] /\ started \subseteq todo /\ todo \subseteq BM!Heights
    BY DEF BalancesInv, BM!TypeOK
  <1>3. /\ held'[h] = TouchedBy[h] \ cached /\ \A g \in started : held'[g] = held[g]
        /\ held' \in [BM!Heights -> SUBSET BM!Pairs]
    <2>1. BM!MarksOf(h) \subseteq BM!Pairs /\ BM!MarksOf(h) = TouchedBy[h] \ cached
      BY <1>1 DEF BM!MarksOf
    <2> QED
      BY <1>1, <1>2, <2>1
  <1>4. BM!TypeOK'
    <2>1. cached' \subseteq BM!Pairs /\ started' \subseteq todo'
      BY <1>1, <1>2 DEF BalancesInv, BM!TypeOK
    <2> QED
      BY <1>1, <1>3, <2>1 DEF BalancesInv, BM!TypeOK
  <1>5. Awaited \subseteq Awaited'
    BY <1>1 DEF Awaited
  <1>6. RunFits'
    <2>1. ASSUME NEW p \in cached'
          PROVE  p \in marks \/ \E g \in started' : p \in held'[g]
      <3>1. CASE p \in cached
        <4>1. p \in marks \/ \E g \in started : p \in held[g]
          BY <3>1 DEF BalancesInv, RunFits
        <4> QED
          BY <1>1, <1>3, <4>1
      <3>2. CASE p \notin cached
        BY <1>1, <1>3, <2>1, <3>2
      <3> QED
        BY <3>1, <3>2
    <2>2. \A g \in started' : TouchedBy[g] \subseteq cached'
      BY <1>1 DEF BalancesInv, RunFits
    <2>3. \A p \in BM!Pairs \ (broken \cup Awaited') :
            p \in marks \/ Covers(balance[p], p, inData \cup todo)
      BY <1>5 DEF BalancesInv, RunFits
    <2> QED
      BY <1>1, <2>1, <2>2, <2>3 DEF BalancesInv, RunFits
  <1>7. BatchFits'
    BY <1>1 DEF BatchFits
  <1> QED
    BY <1>4, <1>6, <1>7 DEF BalancesInv

\* The rows of a block: its height was among those of the run.
LEMMA WriteDataKeeps ==
    ASSUME BalancesInv, NEW h \in BM!Heights, BM!WriteData(h)
    PROVE  BalancesInv'
  <1>1. /\ h \in todo /\ step = "index" /\ inData' = inData \cup {h}
        /\ UNCHANGED <<tip, step, todo, started, held, cached, marks, balance, lastKey, batch, answers,
                       its, broken, stops>>
    BY DEF BM!WriteData, BM!Running
  <1>2. inData' \cup todo' = inData \cup todo
    BY <1>1
  <1>3. BM!TypeOK'
    BY <1>1 DEF BalancesInv, BM!TypeOK
  <1>4. RunFits'
    BY <1>1, <1>2 DEF BalancesInv, RunFits, Awaited
  <1>5. BatchFits'
    BY <1>1 DEF BatchFits
  <1> QED
    BY <1>3, <1>4, <1>5 DEF BalancesInv

\* The marks a goroutine held: its pairs are in the cache.
LEMMA WriteMarksKeeps ==
    ASSUME BalancesInv, NEW h \in BM!Heights, BM!WriteMarks(h)
    PROVE  BalancesInv'
  <1>1. /\ h \in todo /\ h \in inData /\ h \in started /\ step = "index" /\ marks' = marks \cup held[h]
        /\ todo' = todo \ {h} /\ started' = started \ {h}
        /\ UNCHANGED <<tip, step, held, cached, inData, balance, lastKey, batch, answers, its, broken, stops>>
    BY DEF BM!WriteMarks, BM!Running
  <1>2. inData' \cup todo' = inData \cup todo
    BY <1>1
  <1>3. TouchedBy[h] \subseteq cached
    BY <1>1 DEF BalancesInv, RunFits
  <1>4. Awaited' = Awaited
    <2>1. \A g \in todo : g \in todo' \/ g = h
      BY <1>1
    <2> QED
      BY <1>1, <1>3, <2>1 DEF Awaited
  <1>5. BM!TypeOK'
    <2>1. marks' \subseteq BM!Pairs
      <3>1. held[h] \subseteq BM!Pairs
        BY DEF BalancesInv, BM!TypeOK
      <3> QED
        BY <1>1, <3>1 DEF BalancesInv, BM!TypeOK
    <2> QED
      BY <1>1, <2>1 DEF BalancesInv, BM!TypeOK
  <1>6. RunFits'
    <2>1. ASSUME NEW p \in cached
          PROVE  p \in marks' \/ \E g \in started' : p \in held[g]
      BY <1>1 DEF BalancesInv, RunFits
    <2>2. \A p \in BM!Pairs \ (broken \cup Awaited') :
            p \in marks' \/ Covers(balance[p], p, inData' \cup todo')
      BY <1>1, <1>2, <1>4 DEF BalancesInv, RunFits
    <2> QED
      BY <1>1, <2>1, <2>2 DEF BalancesInv, RunFits
  <1>7. BatchFits'
    BY <1>1 DEF BatchFits
  <1> QED
    BY <1>5, <1>6, <1>7 DEF BalancesInv

\* The run is over: every mark of its cache was written.
LEMMA IndexDoneKeeps ==
    ASSUME BalancesInv, BM!IndexDone
    PROVE  BalancesInv'
  <1>1. /\ todo = {} /\ step' = "read" /\ started' = {} /\ held' = BM!NothingHeld /\ cached' = {}
        /\ broken' = broken \ cached
        /\ UNCHANGED <<tip, todo, inData, marks, balance, lastKey, batch, answers, its, stops>>
    BY DEF BM!IndexDone
  <1>2. started = {} /\ cached \subseteq marks
    BY <1>1 DEF BalancesInv, BM!TypeOK, RunFits
  <1>3. BM!TypeOK'
    <2>1. held' \in [BM!Heights -> SUBSET BM!Pairs]
      BY <1>1 DEF BM!NothingHeld
    <2> QED
      BY <1>1, <2>1 DEF BalancesInv, BM!TypeOK
  <1>4. RunFits'
    <2>1. ASSUME NEW p \in BM!Pairs \ (broken' \cup Awaited'), p \notin marks'
          PROVE  Covers(balance'[p], p, inData' \cup todo')
      <3>1. p \notin broken /\ p \notin cached /\ p \notin Awaited
        BY <1>1, <1>2, <2>1 DEF Awaited
      <3> QED
        BY <1>1, <2>1, <3>1 DEF BalancesInv, RunFits
    <2> QED
      BY <1>1, <2>1 DEF BalancesInv, RunFits
  <1>5. BatchFits'
    BY <1>1 DEF BatchFits
  <1> QED
    BY <1>3, <1>4, <1>5 DEF BalancesInv

\* A process that sleeps: what it holds besides the tables is as at its start.
LEMMA RestKeeps ==
    ASSUME BalancesInv, BM!Rest, UNCHANGED <<tip, inData, balance>>,
           marks' \subseteq BM!Pairs, broken' \subseteq BM!Pairs, stops' \in 0 .. MaxStops,
           \A p \in BM!Pairs \ broken' : p \in marks' \/ Covers(balance[p], p, inData)
    PROVE  BalancesInv'
  <1>1. /\ step' = "asleep" /\ todo' = {} /\ started' = {} /\ held' = BM!NothingHeld /\ cached' = {}
        /\ lastKey' = 0 /\ batch' = {} /\ its' = 0
    BY DEF BM!Rest, BM!StartUpdates
  <1>2. BM!TypeOK'
    <2>1. held' \in [BM!Heights -> SUBSET BM!Pairs]
      BY <1>1 DEF BM!NothingHeld
    <2>2. its' \in 0 .. Iterations + 1
      BY <1>1, MarksConstants
    <2> QED
      BY <1>1, <2>1, <2>2 DEF BalancesInv, BM!TypeOK
  <1>3. RunFits'
    BY <1>1 DEF BalancesInv, RunFits, Awaited
  <1>4. BatchFits'
    BY <1>1 DEF BatchFits
  <1> QED
    BY <1>2, <1>3, <1>4 DEF BalancesInv

\* Outside a run, a pair that lost no mark has one or a balance that is new.
LEMMA SettledPairs ==
    ASSUME BalancesInv, step # "index"
    PROVE  /\ \A p \in BM!Pairs \ broken : p \in marks \/ Covers(balance[p], p, inData)
           /\ todo = {} /\ cached = {} /\ started = {} /\ Awaited = {}
           /\ tip \in Nat /\ tip <= Len(TouchedBy) /\ inData \subseteq 1 .. tip
  <1>1. todo = {} /\ cached = {} /\ started = {}
    BY DEF BalancesInv, RunFits, BM!TypeOK
  <1>2. Awaited = {}
    BY <1>1 DEF Awaited
  <1>3. tip \in Nat /\ tip <= Len(TouchedBy)
    BY MarksConstants DEF BalancesInv, BM!TypeOK
  <1> QED
    BY <1>1, <1>2, <1>3 DEF BalancesInv, RunFits

\* The marks of the next addresses.
LEMMA GetMetadataUpdatesKeeps ==
    ASSUME BalancesInv, BM!GetMetadataUpdates
    PROVE  BalancesInv'
  <1>1. step = "read" /\ UNCHANGED <<tip, inData, marks, balance, broken, stops>>
    BY DEF BM!GetMetadataUpdates
  <1>2. CASE BM!NextAddresses = {}
    <2>1. BM!Rest
      BY <1>2 DEF BM!GetMetadataUpdates
    <2>2. marks' \subseteq BM!Pairs /\ broken' \subseteq BM!Pairs /\ stops' \in 0 .. MaxStops
      BY <1>1 DEF BalancesInv, BM!TypeOK
    <2> QED
      BY <1>1, <2>1, <2>2, SettledPairs, RestKeeps
  <1>3. CASE BM!NextAddresses # {}
    <2>1. /\ step' = "ask" /\ batch' = {p \in marks : p[1] \in BM!NextAddresses}
          /\ UNCHANGED <<todo, started, held, cached, lastKey, answers, its>>
      BY <1>3 DEF BM!GetMetadataUpdates
    <2>2. batch' # {}
      <3>1. PICK a \in BM!NextAddresses : TRUE
        BY <1>3
      <3>2. a \in {p[1] : p \in {q \in marks : q[1] >= lastKey}}
        BY <3>1 DEF BM!NextAddresses
      <3>3. PICK p \in marks : p[1] = a
        BY <3>2
      <3> QED
        BY <2>1, <3>1, <3>3
    <2>3. BM!TypeOK'
      <3>1. batch' \subseteq BM!Pairs
        BY <2>1 DEF BalancesInv, BM!TypeOK
      <3> QED
        BY <1>1, <2>1, <3>1 DEF BalancesInv, BM!TypeOK
    <2>4. RunFits'
      BY <1>1, <2>1 DEF BalancesInv, RunFits, Awaited
    <2>5. BatchFits'
      <3>1. \A p \in marks', q \in batch' : p[1] = q[1] => p \in batch'
        BY <1>1, <2>1
      <3> QED
        BY <2>1, <2>2, <3>1 DEF BatchFits
    <2> QED
      BY <2>3, <2>4, <2>5 DEF BalancesInv
  <1> QED
    BY <1>2, <1>3

\* The node answers with the balances of its last block.
LEMMA GetBalancesKeeps ==
    ASSUME BalancesInv, BM!GetBalances
    PROVE  BalancesInv'
  <1>1. PICK lost \in SUBSET batch :
          /\ step = "ask" /\ step' = "save"
          /\ stops + BM!Cardinality(lost) <= MaxStops /\ stops' = stops + BM!Cardinality(lost)
          /\ answers' = [p \in BM!Pairs |-> IF p \in lost THEN BM!Failed
                                            ELSE IF p \in batch THEN BM!LastTouch(p, tip) ELSE 0]
    BY DEF BM!GetBalances
  <1>2. UNCHANGED <<tip, todo, started, held, cached, inData, marks, balance, lastKey, batch, its, broken>>
    BY DEF BM!GetBalances
  <1>3. stops' \in 0 .. MaxStops
    <2>1. batch \subseteq BM!Pairs /\ lost \subseteq BM!Pairs
      BY DEF BalancesInv, BM!TypeOK
    <2>2. IsFiniteSet(lost)
      BY <2>1, MarksConstants, FS_Subset
    <2>3. BM!Cardinality(lost) = Cardinality(lost)
      BY DEF BM!Cardinality, Cardinality
    <2>4. PICK n \in Nat : n = BM!Cardinality(lost)
      BY <2>2, <2>3, FS_CardinalityType
    <2>5. stops \in Nat /\ stops' = stops + n /\ stops' <= MaxStops
      BY <1>1, <2>4, MarksConstants DEF BalancesInv, BM!TypeOK
    <2> QED
      BY <2>5, MarksConstants
  <1>4. tip \in 0 .. Len(TouchedBy) /\ tip \in Nat /\ inData \subseteq 1 .. tip
    BY <1>1, SettledPairs, MarksConstants
  <1>5. ASSUME NEW p \in BM!Pairs
        PROVE  /\ answers'[p] \in {BM!Failed} \cup 0 .. tip
               /\ p \in batch => Covers(answers'[p], p, inData)
    <2>1. PICK m : m = BM!LastTouch(p, tip)
      OBVIOUS
    <2>2. m \in 0 .. tip /\ \A h \in 1 .. tip : p \in TouchedBy[h] => h <= m
      BY <1>4, <2>1, LastTouchIs
    <2>3. answers'[p] = IF p \in lost THEN BM!Failed ELSE IF p \in batch THEN m ELSE 0
      BY <1>1, <2>1
    <2>4. Covers(m, p, inData)
      <3>1. \A n \in inData : \A h \in 1 .. n : h \in 1 .. tip
        BY <1>4
      <3> QED
        BY <2>2, <3>1 DEF Covers
    <2>5. Covers(BM!Failed, p, inData)
      BY DEF Covers
    <2> QED
      BY <1>4, <2>2, <2>3, <2>4, <2>5
  <1>6. answers' \in [BM!Pairs -> {BM!Failed} \cup 0 .. tip]
    <2>1. answers' = [p \in BM!Pairs |-> answers'[p]]
      BY <1>1
    <2> QED
      BY <1>5, <2>1
  <1>7. BM!TypeOK'
    BY <1>1, <1>2, <1>3 DEF BalancesInv, BM!TypeOK
  <1>8. RunFits'
    BY <1>1, <1>2 DEF BalancesInv, RunFits, Awaited
  <1>9. BatchFits'
    <2>1. batch # {} /\ \A p \in marks, q \in batch : p[1] = q[1] => p \in batch
      BY <1>1 DEF BalancesInv, BatchFits
    <2>2. \A p \in batch' : Covers(answers'[p], p, inData')
      <3>1. batch \subseteq BM!Pairs
        BY DEF BalancesInv, BM!TypeOK
      <3> QED
        BY <1>2, <1>5, <3>1
    <2> QED
      BY <1>1, <1>2, <1>6, <2>1, <2>2 DEF BatchFits
  <1> QED
    BY <1>7, <1>8, <1>9 DEF BalancesInv

\* The answers become the balances.
LEMMA SaveBalancesKeeps ==
    ASSUME BalancesInv, BM!SaveBalances
    PROVE  BalancesInv'
  <1>1. /\ step = "save" /\ step' = "delete"
        /\ balance' = [p \in BM!Pairs |-> IF p \in batch THEN answers[p] ELSE balance[p]]
        /\ UNCHANGED <<tip, todo, started, held, cached, inData, marks, lastKey, batch, answers, its,
                       broken, stops>>
    BY DEF BM!SaveBalances
  <1>2. \A p \in BM!Pairs : balance'[p] = IF p \in batch THEN answers[p] ELSE balance[p]
    BY <1>1
  <1>3. /\ batch # {} /\ (\A p \in marks, q \in batch : p[1] = q[1] => p \in batch)
        /\ answers \in [BM!Pairs -> {BM!Failed} \cup 0 .. tip]
        /\ \A p \in batch : Covers(answers[p], p, inData)
        /\ balance \in [BM!Pairs -> {BM!Failed} \cup 0 .. tip] /\ batch \subseteq BM!Pairs
    BY <1>1 DEF BalancesInv, BatchFits, BM!TypeOK
  <1>4. BM!TypeOK'
    <2>1. balance' \in [BM!Pairs -> {BM!Failed} \cup 0 .. tip]
      BY <1>1, <1>3
    <2> QED
      BY <1>1, <2>1 DEF BalancesInv, BM!TypeOK
  <1>5. RunFits'
    <2>1. todo = {} /\ \A p \in BM!Pairs \ broken : p \in marks \/ Covers(balance[p], p, inData)
      BY <1>1, SettledPairs
    <2>2. inData' \cup todo' = inData
      BY <1>1, <2>1
    <2>3. \A p \in BM!Pairs \ broken : p \in marks \/ Covers(balance'[p], p, inData)
      BY <1>2, <1>3, <2>1
    <2> QED
      BY <1>1, <2>2, <2>3 DEF BalancesInv, RunFits, Awaited
  <1>6. BatchFits'
    <2>1. \A p \in batch : Covers(balance'[p], p, inData)
      BY <1>2, <1>3
    <2> QED
      BY <1>1, <1>3, <2>1 DEF BatchFits
  <1> QED
    BY <1>4, <1>5, <1>6 DEF BalancesInv

\* The marks of the addresses of the batch go: their balances are new.
LEMMA DeleteMarksKeeps ==
    ASSUME BalancesInv, BM!DeleteMarks
    PROVE  BalancesInv'
  <1>1. /\ step = "delete" /\ marks' = {p \in marks : ~ \E q \in batch : q[1] = p[1]}
        /\ UNCHANGED <<tip, inData, balance, broken, stops>>
    BY DEF BM!DeleteMarks
  <1>2. /\ batch # {} /\ (\A p \in marks, q \in batch : p[1] = q[1] => p \in batch)
        /\ \A p \in batch : Covers(balance[p], p, inData)
    BY <1>1 DEF BalancesInv, BatchFits
  <1>3. \A p \in BM!Pairs \ broken' : p \in marks' \/ Covers(balance[p], p, inData)
    <2>1. \A p \in BM!Pairs \ broken : p \in marks \/ Covers(balance[p], p, inData)
      BY <1>1, SettledPairs
    <2>2. \A p \in marks : p \in marks' \/ p \in batch
      BY <1>1, <1>2
    <2> QED
      BY <1>1, <1>2, <2>1, <2>2
  <1>4. marks' \subseteq BM!Pairs /\ broken' \subseteq BM!Pairs /\ stops' \in 0 .. MaxStops
    BY <1>1 DEF BalancesInv, BM!TypeOK
  <1>5. CASE its + 1 > Iterations
    <2>1. BM!Rest
      BY <1>5 DEF BM!DeleteMarks
    <2> QED
      BY <1>1, <1>3, <1>4, <2>1, RestKeeps
  <1>6. CASE ~ (its + 1 > Iterations)
    <2>1. /\ step' = "read" /\ its' = its + 1 /\ lastKey' = BM!Max({p[1] : p \in batch})
          /\ UNCHANGED <<todo, started, held, cached, batch, answers>>
      BY <1>6 DEF BM!DeleteMarks
    <2>2. lastKey' \in Addresses
      <3> DEFINE T == {p[1] : p \in batch}
      <3>1. batch \subseteq BM!Pairs /\ IsFiniteSet(batch)
        BY MarksConstants, FS_Subset DEF BalancesInv, BM!TypeOK
      <3>2. T \subseteq Addresses
        BY <3>1 DEF BM!Pairs
      <3>3. T # {}
        BY <1>2
      <3>4. IsFiniteSet(T)
        <4>1. PICK f : f = [p \in batch |-> p[1]]
          OBVIOUS
        <4>2. f \in Surjection(batch, T)
          BY <4>1 DEF Surjection
        <4> QED
          BY <3>1, <4>2, FS_Surjection
      <3> HIDE DEF T
      <3>5. T \subseteq Int
        BY <3>2, MarksConstants
      <3>6. \E x \in T : \A y \in T : x >= y
        BY <3>3, <3>4, <3>5, GreatestElement
      <3>7. BM!Max(T) \in T
        BY <3>6 DEF BM!Max
      <3> QED
        BY <2>1, <3>2, <3>7 DEF T
    <2>3. its' \in 0 .. Iterations + 1
      <3>1. its \in Nat
        BY MarksConstants DEF BalancesInv, BM!TypeOK
      <3> QED
        BY <1>6, <2>1, <3>1, MarksConstants
    <2>4. BM!TypeOK'
      BY <1>1, <1>4, <2>1, <2>2, <2>3 DEF BalancesInv, BM!TypeOK
    <2>5. RunFits'
      <3>1. todo = {} /\ cached = {} /\ started = {}
        BY <1>1, SettledPairs
      <3> QED
        BY <1>1, <1>3, <2>1, <3>1 DEF BalancesInv, RunFits, Awaited
    <2>6. BatchFits'
      BY <2>1 DEF BatchFits
    <2> QED
      BY <2>4, <2>5, <2>6 DEF BalancesInv
  <1> QED
    BY <1>5, <1>6

\* An error: the pairs the run was going to mark have lost their marks, perhaps.
LEMMA StopKeeps ==
    ASSUME BalancesInv, BM!Stop
    PROVE  BalancesInv'
  <1>1. /\ stops < MaxStops /\ stops' = stops + 1 /\ BM!Rest /\ UNCHANGED <<tip, inData, balance>>
        /\ broken' = broken \cup Awaited
    BY DEF BM!Stop, Awaited
  <1>2. stops' \in 0 .. MaxStops
    BY <1>1, MarksConstants DEF BalancesInv, BM!TypeOK
  <1>3. broken' \subseteq BM!Pairs
    <2>1. \A h \in todo : TouchedBy[h] \subseteq BM!Pairs
      BY MarksConstants DEF BalancesInv, BM!TypeOK
    <2> QED
      BY <1>1, <2>1 DEF BalancesInv, BM!TypeOK, Awaited
  <1>4. marks \subseteq marks' /\ marks' \subseteq BM!Pairs
    <2>1. marks \subseteq BM!Pairs /\ started \subseteq BM!Heights
          /\ held \in [BM!Heights -> SUBSET BM!Pairs]
      BY DEF BalancesInv, BM!TypeOK
    <2>2. CASE step = "index"
      <3>1. PICK h \in started \cup {0} :
              \E some \in SUBSET (IF h = 0 THEN {} ELSE held[h]) :
                marks' = IF h \in inData THEN marks \cup some ELSE marks
        BY <2>2 DEF BM!Stop
      <3>2. (IF h = 0 THEN {} ELSE held[h]) \subseteq BM!Pairs
        BY <2>1, <3>1
      <3> QED
        BY <2>1, <3>1, <3>2
    <2>3. CASE step # "index"
      BY <2>1, <2>3 DEF BM!Stop
    <2> QED
      BY <2>2, <2>3
  <1>5. \A p \in BM!Pairs \ broken' : p \in marks' \/ Covers(balance[p], p, inData)
    <2>1. ASSUME NEW p \in BM!Pairs \ (broken \cup Awaited)
          PROVE  p \in marks \/ Covers(balance[p], p, inData)
      <3>1. p \in marks \/ Covers(balance[p], p, inData \cup todo)
        BY DEF BalancesInv, RunFits
      <3> QED
        BY <3>1 DEF Covers
    <2> QED
      BY <1>1, <1>4, <2>1
  <1> QED
    BY <1>1, <1>2, <1>3, <1>4, <1>5, RestKeeps

\* Every step of the indexer and of the node keeps the invariant.
LEMMA BalancesInvStep ==
    ASSUME BalancesInv, BM!Next
    PROVE  BalancesInv'
  BY NewBlockKeeps, BalancesStartKeeps, TransformKeeps, WriteDataKeeps, WriteMarksKeeps, IndexDoneKeeps,
     GetMetadataUpdatesKeeps, GetBalancesKeeps, SaveBalancesKeeps, DeleteMarksKeeps, StopKeeps
     DEF BM!Next, BM!LoopStep

\* At first there is no block and no balance.
LEMMA BalancesInvInit ==
    ASSUME BM!Init
    PROVE  BalancesInv
  <1>1. BM!TypeOK
    <2>1. 0 \in 0 .. Len(TouchedBy) /\ 0 \in 0 .. Iterations + 1 /\ 0 \in 0 .. MaxStops /\ 0 \in 0 .. 0
      BY MarksConstants
    <2>2. held \in [BM!Heights -> SUBSET BM!Pairs] /\ balance \in [BM!Pairs -> {BM!Failed} \cup 0 .. tip]
      BY <2>1 DEF BM!Init, BM!NothingHeld
    <2> QED
      BY <2>1, <2>2 DEF BM!Init, BM!TypeOK
  <1>2. RunFits
    <2>1. \A p \in BM!Pairs : Covers(balance[p], p, inData \cup todo)
      BY DEF BM!Init, Covers
    <2> QED
      BY <2>1 DEF BM!Init, RunFits, Awaited
  <1>3. BatchFits
    BY DEF BM!Init, BatchFits
  <1> QED
    BY <1>1, <1>2, <1>3 DEF BalancesInv

\* The balances' part of every behaviour.
LEMMA BalancesStay == MCSpec => []BalancesInv
  <1>1. MCInit => BalancesInv
    BY BalancesInvInit DEF MCInit
  <1>2. BalancesInv /\ [MCNext]_allVars => BalancesInv'
    <2> SUFFICES ASSUME BalancesInv, [MCNext]_allVars PROVE BalancesInv'
      OBVIOUS
    <2>1. CASE BM!Next
      BY <2>1, BalancesInvStep
    <2>2. CASE UNCHANGED ofMarks
      BY <2>2 DEF ofMarks, BalancesInv, BM!TypeOK, RunFits, BatchFits, Awaited
    <2> QED
      BY <2>1, <2>2 DEF MCNext, Indexing, Paging, Marking, Fetching, Depositing, allVars
  <1> QED
    BY <1>1, <1>2, PTL DEF MCSpec

-----------------------------------------------------------------------------
(* What the node answers to a call of GetBlock *)

\* Values that depend on the one before: there is a function of all of them.
HasChain(S, start, n, next) ==
  \E f \in [0 .. n -> S] : f[0] = start /\ \A i \in 1 .. n : f[i] = next[<<f[i - 1], i>>]

\* Each value is in the set, so that the next one is known.
LEMMA ChainOfValues ==
    ASSUME NEW S, NEW start, start \in S, NEW n, n \in Nat,
           NEW next, \A x \in S \X (1 .. n) : next[x] \in S
    PROVE  HasChain(S, start, n, next)
  <1> DEFINE Chain(m, f) == f[0] = start /\ \A i \in 1 .. m : f[i] = next[<<f[i - 1], i>>]
             G == {m \in Nat : m <= n => \E f \in [0 .. m -> S] : Chain(m, f)}
  <1>1. 0 \in G
    <2>1. PICK f : f = [i \in 0 .. 0 |-> start]
      OBVIOUS
    <2>2. f \in [0 .. 0 -> S] /\ Chain(0, f)
      BY <2>1
    <2> QED
      BY <2>2
  <1>2. ASSUME NEW m \in Nat, m \in G
        PROVE  m + 1 \in G
    <2>1. SUFFICES ASSUME m + 1 <= n
                   PROVE  \E f \in [0 .. m + 1 -> S] : Chain(m + 1, f)
      OBVIOUS
    <2>2. PICK f \in [0 .. m -> S] : Chain(m, f)
      BY <1>2, <2>1
    <2>3. PICK x : x = next[<<f[m], m + 1>>]
      OBVIOUS
    <2>4. x \in S
      <3>1. f[m] \in S /\ m + 1 \in 1 .. n
        BY <2>1, <2>2
      <3>2. <<f[m], m + 1>> \in S \X (1 .. n)
        BY <3>1
      <3> QED
        BY <2>3, <3>2
    <2>5. PICK g : g = [i \in 0 .. m + 1 |-> IF i <= m THEN f[i] ELSE x]
      OBVIOUS
    <2>6. g \in [0 .. m + 1 -> S] /\ (\A i \in 0 .. m : g[i] = f[i]) /\ g[m + 1] = x
      BY <2>2, <2>4, <2>5
    <2>7. ASSUME NEW i \in 1 .. m + 1
          PROVE  g[i] = next[<<g[i - 1], i>>]
      <3>1. CASE i <= m
        <4>1. i \in 1 .. m /\ i \in 0 .. m /\ i - 1 \in 0 .. m
          BY <3>1
        <4> QED
          BY <2>2, <2>6, <4>1
      <3>2. CASE i = m + 1
        <4>1. i - 1 = m /\ m \in 0 .. m
          BY <3>2
        <4> QED
          BY <2>3, <2>6, <3>2, <4>1
      <3> QED
        BY <3>1, <3>2
    <2>8. g[0] = start
      BY <2>2, <2>6
    <2> QED
      BY <2>6, <2>7, <2>8
  <1>3. n \in G
    <2> HIDE DEF G
    <2>1. Nat \subseteq G
      BY <1>1, <1>2, NaturalInduction
    <2> QED
      BY <2>1
  <1> QED
    BY <1>3 DEF HasChain

\* A place in a stretch that ends before z.
LEMMA PlaceInStretch ==
    ASSUME NEW x \in Nat, NEW y \in Nat, NEW z \in Nat, x + y <= z, NEW k \in 1 .. y
    PROVE  x + k \in 1 .. z
  OBVIOUS

\* And the number of a place within its stretch.
LEMMA PlaceFromStretch ==
    ASSUME NEW x \in Nat, NEW y \in Nat, NEW c \in x + 1 .. x + y
    PROVE  c - x \in 1 .. y /\ x + (c - x) = c
  OBVIOUS

\* FlattenSeq puts sequences after each other; ends has the place where each of
\* them ends.
Laid(seqs, all, ends) ==
  /\ ends \in [0 .. Len(seqs) -> Nat] /\ ends[0] = 0 /\ Len(all) = ends[Len(seqs)]
  /\ \A i \in 1 .. Len(seqs) :
       /\ ends[i] = ends[i - 1] + Len(seqs[i])
       /\ \A k \in 1 .. Len(seqs[i]) : all[ends[i - 1] + k] = seqs[i][k]
  /\ \A c \in 1 .. Len(all) : \E i \in 1 .. Len(seqs) : c \in ends[i - 1] + 1 .. ends[i]

\* What the recursion of FlattenSeq returns.
LEMMA FlattenSeqIs ==
    ASSUME NEW R, NEW seqs \in Seq(Seq(R)), Len(seqs) > 0
    PROVE  \E f \in [0 .. Len(seqs) -> Seq(R)] :
             /\ f[0] = <<>> /\ F!FlattenSeq(seqs) = f[Len(seqs)]
             /\ \A i \in 1 .. Len(seqs) : f[i] = f[i - 1] \o seqs[i]
  <1>0. PICK n, S : n = Len(seqs) /\ S = Seq(R)
    OBVIOUS
  <1>1. n \in Nat /\ n > 0 /\ 1 \in 1 .. n /\ \A i \in 1 .. n : seqs[i] \in Seq(R)
    BY <1>0
  <1>2. PICK next : next = [x \in Seq(R) \X (1 .. n) |-> x[1] \o seqs[x[2]]]
    OBVIOUS
  <1>3. next \in [Seq(R) \X (1 .. n) -> Seq(R)]
        /\ \A s \in Seq(R), i \in 1 .. n : next[<<s, i>>] = s \o seqs[i]
    <2>1. \A x \in Seq(R) \X (1 .. n) : x[1] \o seqs[x[2]] \in Seq(R)
      BY <1>1
    <2>2. \A s \in Seq(R), i \in 1 .. n : <<s, i>> \in Seq(R) \X (1 .. n)
      OBVIOUS
    <2> QED
      BY <1>2, <2>1, <2>2
  <1>4. <<>> \in Seq(R)
    OBVIOUS
  <1>5. PICK f \in [0 .. n -> Seq(R)] : f[0] = <<>> /\ \A i \in 1 .. n : f[i] = next[<<f[i - 1], i>>]
    <2>1. (\A x \in S \X (1 .. n) : next[x] \in S) /\ <<>> \in S /\ n \in Nat
      BY <1>0, <1>1, <1>3, <1>4
    <2>2. HasChain(S, <<>>, n, next)
      BY ONLY <2>1, ChainOfValues
    <2> QED
      BY <1>0, <2>2 DEF HasChain
  <1>6. \A i \in 1 .. n : f[i] = f[i - 1] \o seqs[i]
    <2>1. \A i \in 1 .. n : i - 1 \in 0 .. n
      BY <1>1
    <2> QED
      BY <1>3, <1>5, <2>1
  <1>10. f[1] = seqs[1]
    <2>1. 1 - 1 = 0
      OBVIOUS
    <2>2. f[1] = f[0] \o seqs[1]
      BY <1>1, <1>6, <2>1
    <2>3. <<>> \o seqs[1] = seqs[1]
      BY <1>1
    <2> QED
      BY <1>5, <2>2, <2>3
  <1> DEFINE Runs(g) == g = [i \in 1 .. n |-> IF i = 1 THEN seqs[i] ELSE g[i - 1] \o seqs[i]]
  <1>7. \E g : Runs(g)
    <2>1. PICK g : g = [i \in 1 .. n |-> f[i]]
      OBVIOUS
    <2>2. ASSUME NEW i \in 1 .. n
          PROVE  f[i] = IF i = 1 THEN seqs[i] ELSE g[i - 1] \o seqs[i]
      <3>1. CASE i = 1
        BY <1>10, <3>1
      <3>2. CASE i # 1
        <4>1. i - 1 \in 1 .. n
          BY <1>1, <3>2
        <4> QED
          BY <1>6, <2>1, <3>2, <4>1
      <3> QED
        BY <3>1, <3>2
    <2>3. g = [i \in 1 .. n |-> IF i = 1 THEN seqs[i] ELSE g[i - 1] \o seqs[i]]
      BY <2>1, <2>2
    <2> QED
      BY <2>3
  <1>8. PICK g : Runs(g) /\ F!FlattenSeq(seqs) = g[n]
    <2> DEFINE chosen == CHOOSE g : Runs(g)
    <2>1. Runs(chosen)
      BY <1>7
    <2>2. F!FlattenSeq(seqs) = chosen[n]
      BY <1>0, <1>1 DEF F!FlattenSeq
    <2> QED
      BY <2>1, <2>2
  <1>9. \A i \in 1 .. n : g[i] = f[i]
    <2> DEFINE G == {m \in Nat : m \in 1 .. n => g[m] = f[m]}
    <2>1. 0 \in G
      OBVIOUS
    <2>2. ASSUME NEW m \in Nat, m \in G
          PROVE  m + 1 \in G
      <3>1. SUFFICES ASSUME m + 1 \in 1 .. n
                     PROVE  g[m + 1] = f[m + 1]
        OBVIOUS
      <3>2. g[m + 1] = IF m + 1 = 1 THEN seqs[m + 1] ELSE g[m] \o seqs[m + 1]
        <4>1. g[m + 1] = IF m + 1 = 1 THEN seqs[m + 1] ELSE g[(m + 1) - 1] \o seqs[m + 1]
          BY <1>8, <3>1
        <4>2. (m + 1) - 1 = m
          OBVIOUS
        <4> QED
          BY <4>1, <4>2
      <3>3. f[m + 1] = f[m] \o seqs[m + 1]
        <4>1. (m + 1) - 1 = m
          OBVIOUS
        <4> QED
          BY <1>6, <3>1, <4>1
      <3>4. CASE m = 0
        BY <1>10, <3>2, <3>4
      <3>5. CASE m # 0
        <4>1. m \in 1 .. n /\ m + 1 # 1
          BY <1>1, <3>1, <3>5
        <4> QED
          BY <2>2, <3>2, <3>3, <4>1
      <3> QED
        BY <3>4, <3>5
    <2>3. Nat \subseteq G
      <3> HIDE DEF G
      <3> QED
        BY <2>1, <2>2, NaturalInduction
    <2> QED
      BY <2>3
  <1>11. n \in 1 .. n
    BY <1>1
  <1>12. F!FlattenSeq(seqs) = f[n]
    BY <1>8, <1>9, <1>11
  <1> QED
    BY ONLY <1>0, <1>5, <1>6, <1>12

\* The elements of sequences that are put together.
LEMMA JoinedIs ==
    ASSUME NEW R, NEW s \in Seq(R), NEW z \in Seq(R)
    PROVE  /\ s \o z \in Seq(R) /\ Len(s \o z) = Len(s) + Len(z) /\ Len(s) \in Nat /\ Len(z) \in Nat
           /\ \A c \in 1 .. Len(s) : (s \o z)[c] = s[c]
           /\ \A k \in 1 .. Len(z) : (s \o z)[Len(s) + k] = z[k]
  OBVIOUS

\* FlattenSeq lays the sequences after each other.
LEMMA FlattenSeqLays ==
    ASSUME NEW R, NEW seqs, seqs \in Seq(Seq(R))
    PROVE  F!FlattenSeq(seqs) \in Seq(R) /\ \E ends : Laid(seqs, F!FlattenSeq(seqs), ends)
  <1>1. PICK n \in Nat : n = Len(seqs)
    OBVIOUS
  <1>2. CASE n = 0
    <2>1. seqs = <<>> /\ F!FlattenSeq(seqs) = <<>>
      <3>1. Len(seqs) = 0
        BY <1>1, <1>2
      <3>2. seqs = <<>>
        BY <3>1
      <3>3. F!FlattenSeq(seqs) = seqs
        BY <3>1 DEF F!FlattenSeq
      <3> QED
        BY <3>2, <3>3
    <2>2. PICK ends : ends = [i \in 0 .. 0 |-> 0]
      OBVIOUS
    <2>3. ends \in [0 .. 0 -> Nat] /\ ends[0] = 0 /\ 1 .. 0 = {} /\ 0 = Len(<<>>)
      BY <2>2
    <2>4. Laid(<<>>, <<>>, ends)
      BY <2>3 DEF Laid
    <2>5. <<>> \in Seq(R)
      OBVIOUS
    <2> QED
      BY ONLY <2>1, <2>4, <2>5
  <1>3. CASE n > 0
    <2>1. PICK f \in [0 .. n -> Seq(R)] :
            /\ f[0] = <<>> /\ F!FlattenSeq(seqs) = f[n]
            /\ \A i \in 1 .. n : f[i] = f[i - 1] \o seqs[i]
      <3>1. seqs \in Seq(Seq(R)) /\ Len(seqs) > 0
        BY <1>1, <1>3
      <3> QED
        BY ONLY <1>1, <3>1, FlattenSeqIs
    <2>2. PICK ends : ends = [i \in 0 .. n |-> Len(f[i])]
      OBVIOUS
    <2>3. ends \in [0 .. n -> Nat] /\ ends[0] = 0 /\ \A i \in 0 .. n : ends[i] = Len(f[i]) /\ f[i] \in Seq(R)
      BY <2>1, <2>2
    <2>4. ASSUME NEW m \in 0 .. n, m + 1 \in 1 .. n
          PROVE  /\ seqs[m + 1] \in Seq(R) /\ Len(seqs[m + 1]) \in Nat
                 /\ ends[m] \in Nat /\ ends[m + 1] = ends[m] + Len(seqs[m + 1])
                 /\ \A c \in 1 .. ends[m] : f[m + 1][c] = f[m][c]
                 /\ \A k \in 1 .. Len(seqs[m + 1]) : f[m + 1][ends[m] + k] = seqs[m + 1][k]
      <3>1. (m + 1) - 1 = m /\ m + 1 \in 0 .. n
        BY <2>4
      <3>2. f[m + 1] = f[m] \o seqs[m + 1]
        <4>1. f[m + 1] = f[(m + 1) - 1] \o seqs[m + 1]
          BY <2>1, <2>4
        <4> QED
          BY <3>1, <4>1
      <3>3. seqs[m + 1] \in Seq(R) /\ f[m] \in Seq(R)
        BY <1>1, <2>3, <2>4
      <3>4. ends[m] = Len(f[m]) /\ ends[m + 1] = Len(f[m + 1])
        BY <2>3, <3>1
      <3> QED
        BY <3>2, <3>3, <3>4, JoinedIs
    <2> DEFINE Prefix(m) ==
                 /\ \A i \in 0 .. m : ends[i] <= ends[m]
                 /\ \A i \in 1 .. m : \A k \in 1 .. Len(seqs[i]) : f[m][ends[i - 1] + k] = seqs[i][k]
                 /\ \A c \in 1 .. ends[m] : \E i \in 1 .. m : c \in ends[i - 1] + 1 .. ends[i]
               G == {m \in Nat : m <= n => Prefix(m)}
    <2>5. 0 \in G
      BY <2>3
    <2>6. ASSUME NEW m \in Nat, m \in G
          PROVE  m + 1 \in G
      <3>1. SUFFICES ASSUME m + 1 <= n
                     PROVE  Prefix(m + 1)
        OBVIOUS
      <3>2. Prefix(m) /\ m \in 0 .. n /\ m + 1 \in 1 .. n
        BY <2>6, <3>1
      <3>3. /\ seqs[m + 1] \in Seq(R) /\ Len(seqs[m + 1]) \in Nat
            /\ ends[m] \in Nat /\ ends[m + 1] = ends[m] + Len(seqs[m + 1])
            /\ \A c \in 1 .. ends[m] : f[m + 1][c] = f[m][c]
            /\ \A k \in 1 .. Len(seqs[m + 1]) : f[m + 1][ends[m] + k] = seqs[m + 1][k]
        BY <2>4, <3>2
      <3>4. \A i \in 0 .. m + 1 : ends[i] <= ends[m + 1]
        <4> TAKE i \in 0 .. m + 1
        <4>1. CASE i <= m
          <5>1. i \in 0 .. m /\ i \in 0 .. n
            BY <3>1, <4>1
          <5>2. ends[i] <= ends[m] /\ ends[i] \in Nat
            BY <2>3, <3>2, <5>1
          <5> QED
            BY <3>3, <5>2
        <4>2. CASE i = m + 1
          BY <3>3, <4>2
        <4> QED
          BY <4>1, <4>2
      <3>5. ASSUME NEW i \in 1 .. m + 1, NEW k \in 1 .. Len(seqs[i])
            PROVE  f[m + 1][ends[i - 1] + k] = seqs[i][k]
        <4>1. CASE i <= m
          <5>1. i \in 1 .. m /\ i - 1 \in 0 .. n /\ i - 1 + 1 = i /\ i \in 0 .. m /\ i \in 1 .. n
            BY <3>1, <4>1
          <5>2. ends[i] = ends[i - 1] + Len(seqs[i]) /\ ends[i - 1] \in Nat /\ Len(seqs[i]) \in Nat
            BY <2>4, <5>1
          <5>3. ends[i - 1] + k \in 1 .. ends[m]
            <6>1. ends[i] <= ends[m]
              BY <3>2, <5>1
            <6>2. PICK x \in Nat, y \in Nat, z \in Nat :
                    /\ x = ends[i - 1] /\ y = Len(seqs[i]) /\ z = ends[m] /\ x + y <= z
              BY ONLY <3>3, <5>2, <6>1
            <6>3. k \in 1 .. y
              BY <6>2
            <6>4. x + k \in 1 .. z
              BY <6>2, <6>3, PlaceInStretch
            <6> QED
              BY <6>2, <6>4
          <5> QED
            BY <3>2, <3>3, <5>1, <5>3
        <4>2. CASE i = m + 1
          <5>1. i - 1 = m
            BY <4>2
          <5> QED
            BY <3>3, <4>2, <5>1
        <4> QED
          BY <4>1, <4>2
      <3>6. ASSUME NEW c \in 1 .. ends[m + 1]
            PROVE  \E i \in 1 .. m + 1 : c \in ends[i - 1] + 1 .. ends[i]
        <4>1. CASE c <= ends[m]
          <5>1. c \in 1 .. ends[m]
            BY <3>3, <4>1
          <5>2. PICK i \in 1 .. m : c \in ends[i - 1] + 1 .. ends[i]
            BY <3>2, <5>1
          <5> QED
            BY <5>2
        <4>2. CASE c > ends[m]
          <5>1. c \in ends[m] + 1 .. ends[m + 1]
            BY <3>3, <4>2
          <5>2. (m + 1) - 1 = m /\ m + 1 \in 1 .. m + 1
            OBVIOUS
          <5> QED
            BY <5>1, <5>2
        <4> QED
          BY <3>3, <4>1, <4>2
      <3> QED
        BY <3>4, <3>5, <3>6
    <2>7. Prefix(n)
      <3> HIDE DEF G
      <3>1. Nat \subseteq G
        BY <2>5, <2>6, NaturalInduction
      <3> QED
        BY <3>1 DEF G
    <2>8. \A i \in 1 .. n : ends[i] = ends[i - 1] + Len(seqs[i])
      <3> TAKE i \in 1 .. n
      <3>1. i - 1 \in 0 .. n /\ i - 1 + 1 = i
        BY <1>1
      <3> QED
        BY <2>4, <3>1
    <2>9. f[n] \in Seq(R) /\ Len(f[n]) = ends[n]
      BY <2>3
    <2>10. Laid(seqs, f[n], ends)
      BY ONLY <1>1, <2>3, <2>7, <2>8, <2>9 DEF Laid
    <2> QED
      BY <2>1, <2>9, <2>10
  <1> QED
    BY <1>1, <1>2, <1>3

\* The traces at the places of an interval, in order.
Slice(traces, a, len) == [n \in 1 .. len |-> traces[a + n]]

\* Picked returns them.
LEMMA PickedIs ==
    ASSUME NEW traces, NEW a, a \in Nat, NEW len, len \in Nat,
           NEW places, places = a + 1 .. a + len
    PROVE  F!Picked(traces, places) = Slice(traces, a, len)
  <1>1. IsFiniteSet(places) /\ Cardinality(places) = len
    <2>1. IsFiniteSet(a + 1 .. a + len)
          /\ Cardinality(a + 1 .. a + len) = IF a + 1 > a + len THEN 0 ELSE (a + len) - (a + 1) + 1
      BY FS_Interval
    <2> QED
      BY <2>1
  <1>2. \A T : F!Cardinality(T) = Cardinality(T)
    BY DEF F!Cardinality, Cardinality
  <1>3. ASSUME NEW k \in places
        PROVE  F!Cardinality({m \in places : m < k}) = k - a - 1
    <2>1. {m \in places : m < k} = a + 1 .. k - 1
      OBVIOUS
    <2>2. Cardinality(a + 1 .. k - 1) = IF a + 1 > k - 1 THEN 0 ELSE (k - 1) - (a + 1) + 1
      BY FS_Interval
    <2>3. Cardinality(a + 1 .. k - 1) = k - a - 1
      BY <2>2
    <2> QED
      BY <1>2, <2>1, <2>3
  <1>4. ASSUME NEW n \in 1 .. len
        PROVE  (CHOOSE k \in places : F!Cardinality({m \in places : m < k}) = n - 1) = a + n
    <2>1. a + n \in places
      OBVIOUS
    <2>2. \A k \in places : F!Cardinality({m \in places : m < k}) = n - 1 <=> k = a + n
      <3> TAKE k \in places
      <3>1. F!Cardinality({m \in places : m < k}) = k - a - 1
        BY <1>3
      <3> QED
        BY <3>1
    <2> DEFINE Fits(k) == F!Cardinality({m \in places : m < k}) = n - 1
    <2>3. \A k \in places : Fits(k) <=> k = a + n
      BY <2>2
    <2> HIDE DEF Fits
    <2>4. (CHOOSE k \in places : Fits(k)) = a + n
      BY <2>1, <2>3
    <2> QED
      BY <2>4 DEF Fits
  <1>5. F!Cardinality(places) = len
    BY <1>1, <1>2
  <1> DEFINE At(n) == CHOOSE k \in places : F!Cardinality({m \in places : m < k}) = n - 1
  <1>6. F!Picked(traces, places) = [n \in 1 .. F!Cardinality(places) |-> traces[At(n)]]
    BY DEF F!Picked
  <1>7. \A n \in 1 .. len : At(n) = a + n
    BY <1>4
  <1> HIDE DEF At
  <1> QED
    BY <1>5, <1>6, <1>7 DEF Slice

\* What the constants of a call of GetBlock are.
LEMMA FetchConstants ==
    /\ BodyOf \in [Rivals -> Seq(DOMAIN CallOf)] /\ Rewarded \subseteq Rivals
    /\ CallOf \in [DOMAIN CallOf -> Frames] /\ Nested \in [Frames -> Nat]
    /\ MaxMoves \in Nat /\ MaxRefusals \in Nat
    /\ \A call \in Frames :
         /\ call.failed \in BOOLEAN /\ call.kind # "reward" /\ call.calls \in Seq(Frames)
         /\ \A i \in DOMAIN call.calls : call.calls[i] \in Frames /\ Nested[call.calls[i]] < Nested[call]
  <1>1. F!FetchAssumption
    BY ConstantsFit
  <1>2. \A call \in Frames : call.calls \in Seq(Frames)
    BY <1>1 DEF F!FetchAssumption
  <1>3. \A call \in Frames : \A i \in DOMAIN call.calls : call.calls[i] \in Frames
    BY <1>2
  <1>4. {MaxMoves, MaxRefusals} \subseteq Nat
    BY <1>1 DEF F!FetchAssumption
  <1>5. MaxMoves \in Nat /\ MaxRefusals \in Nat
    BY ONLY <1>4
  <1>6. /\ BodyOf \in [Rivals -> Seq(DOMAIN CallOf)] /\ Rewarded \subseteq Rivals
        /\ CallOf \in [DOMAIN CallOf -> Frames] /\ Nested \in [Frames -> Nat]
        /\ \A call \in Frames :
             /\ call.failed \in BOOLEAN /\ call.kind # "reward" /\ call.calls \in Seq(Frames)
             /\ \A i \in DOMAIN call.calls : Nested[call.calls[i]] < Nested[call]
    BY <1>1 DEF F!FetchAssumption
  <1> QED
    BY ONLY <1>3, <1>5, <1>6

\* The calls that are nested less deep, and the recursion of extractCalls on some.
Shallow(n) == {call \in Frames : Nested[call] < n}
Unrolls(g, some) ==
  \A call \in some :
    g[call] = <<call>> \o F!FlattenSeq([i \in DOMAIN call.calls |-> g[call.calls[i]]])

\* The recursion can be unrolled at every depth,
LEMMA UnrollsOnce ==
    ASSUME NEW n \in Nat
    PROVE  \E g : Unrolls(g, Shallow(n))
  <1> DEFINE G == {m \in Nat : \E g : Unrolls(g, Shallow(m))}
  <1>1. 0 \in G
    <2>1. Shallow(0) = {}
      BY FetchConstants DEF Shallow
    <2> QED
      BY <2>1 DEF Unrolls
  <1>2. ASSUME NEW m \in Nat, m \in G
        PROVE  m + 1 \in G
    <2>1. PICK g : Unrolls(g, Shallow(m))
      BY <1>2
    <2>2. PICK h : h = [call \in Frames |->
                          <<call>> \o F!FlattenSeq([i \in DOMAIN call.calls |-> g[call.calls[i]]])]
      OBVIOUS
    <2>3. \A call \in Shallow(m) : h[call] = g[call]
      BY <2>1, <2>2 DEF Unrolls, Shallow
    <2>4. ASSUME NEW call \in Shallow(m + 1)
          PROVE  h[call] = <<call>> \o F!FlattenSeq([i \in DOMAIN call.calls |-> h[call.calls[i]]])
      <3>1. call \in Frames /\ Nested[call] < m + 1 /\ Nested[call] \in Nat
        BY FetchConstants DEF Shallow
      <3>2. \A i \in DOMAIN call.calls : call.calls[i] \in Shallow(m)
        <4> TAKE i \in DOMAIN call.calls
        <4>1. call.calls[i] \in Frames /\ Nested[call.calls[i]] < Nested[call]
          BY <3>1, FetchConstants
        <4>2. Nested[call.calls[i]] \in Nat
          BY <4>1, FetchConstants
        <4> QED
          BY <3>1, <4>1, <4>2 DEF Shallow
      <3>3. [i \in DOMAIN call.calls |-> h[call.calls[i]]] = [i \in DOMAIN call.calls |-> g[call.calls[i]]]
        BY <2>3, <3>2
      <3>4. h[call] = <<call>> \o F!FlattenSeq([i \in DOMAIN call.calls |-> g[call.calls[i]]])
        BY <2>2, <3>1
      <3> QED
        BY <3>3, <3>4
    <2>5. Unrolls(h, Shallow(m + 1))
      BY <2>4 DEF Unrolls
    <2> QED
      BY <2>5
  <1>3. Nat \subseteq G
    <2> HIDE DEF G
    <2> QED
      BY <1>1, <1>2, NaturalInduction
  <1> QED
    BY <1>3

\* always to the same calls,
LEMMA UnrollsAlike ==
    ASSUME NEW g, NEW h, NEW a \in Nat, NEW b \in Nat,
           Unrolls(g, Shallow(a)), Unrolls(h, Shallow(b)),
           NEW c \in Frames, Nested[c] < a, Nested[c] < b
    PROVE  g[c] = h[c]
  <1> DEFINE G == {m \in Nat : \A call \in Shallow(m) :
                                 Nested[call] < a /\ Nested[call] < b => g[call] = h[call]}
  <1>1. 0 \in G
    BY FetchConstants DEF Shallow
  <1>2. ASSUME NEW m \in Nat, m \in G
        PROVE  m + 1 \in G
    <2>1. SUFFICES ASSUME NEW call \in Shallow(m + 1), Nested[call] < a, Nested[call] < b
                   PROVE  g[call] = h[call]
      OBVIOUS
    <2>2. call \in Frames /\ Nested[call] < m + 1 /\ Nested[call] \in Nat
      BY FetchConstants DEF Shallow
    <2>3. ASSUME NEW i \in DOMAIN call.calls
          PROVE  g[call.calls[i]] = h[call.calls[i]]
      <3>1. call.calls[i] \in Frames /\ Nested[call.calls[i]] < Nested[call]
        BY <2>2, FetchConstants
      <3>2. Nested[call.calls[i]] \in Nat
        BY <3>1, FetchConstants
      <3>3. call.calls[i] \in Shallow(m) /\ Nested[call.calls[i]] < a /\ Nested[call.calls[i]] < b
        BY <2>1, <2>2, <3>1, <3>2 DEF Shallow
      <3> QED
        BY <1>2, <3>3
    <2>4. [i \in DOMAIN call.calls |-> g[call.calls[i]]] = [i \in DOMAIN call.calls |-> h[call.calls[i]]]
      BY <2>3
    <2>5. call \in Shallow(a) /\ call \in Shallow(b)
      BY <2>1, <2>2 DEF Shallow
    <2>6. g[call] = <<call>> \o F!FlattenSeq([i \in DOMAIN call.calls |-> g[call.calls[i]]])
      BY <2>5 DEF Unrolls
    <2>7. h[call] = <<call>> \o F!FlattenSeq([i \in DOMAIN call.calls |-> h[call.calls[i]]])
      BY <2>5 DEF Unrolls
    <2> QED
      BY <2>4, <2>6, <2>7
  <1>3. Nat \subseteq G
    <2> HIDE DEF G
    <2> QED
      BY <1>1, <1>2, NaturalInduction
  <1>4. Nested[c] \in Nat
    BY FetchConstants
  <1>5. Nested[c] + 1 \in G /\ c \in Shallow(Nested[c] + 1)
    BY <1>3, <1>4 DEF Shallow
  <1> QED
    BY <1>5

\* so that extractCalls is defined for every call.
LEMMA ExtractCallsUnrolls == Unrolls(F!ExtractCalls, Frames)
  <1> DEFINE At(n) == CHOOSE g : Unrolls(g, Shallow(n))
             Runs(h) == h = [call \in Frames |->
                               <<call>> \o F!FlattenSeq([i \in DOMAIN call.calls |-> h[call.calls[i]]])]
  <1>1. \A n \in Nat : Unrolls(At(n), Shallow(n))
    BY UnrollsOnce
  <1>2. PICK h : h = [call \in Frames |-> At(Nested[call] + 1)[call]]
    OBVIOUS
  <1> HIDE DEF At
  <1>3. ASSUME NEW call \in Frames
        PROVE  h[call] = <<call>> \o F!FlattenSeq([i \in DOMAIN call.calls |-> h[call.calls[i]]])
    <2>1. PICK n : n = Nested[call] + 1
      OBVIOUS
    <2>2. n \in Nat /\ Nested[call] < n /\ Nested[call] \in Nat
      BY <2>1, FetchConstants
    <2>3. PICK g : g = At(n)
      OBVIOUS
    <2>4. Unrolls(g, Shallow(n)) /\ h[call] = g[call] /\ call \in Shallow(n)
      BY <1>1, <1>2, <2>1, <2>2, <2>3 DEF Shallow
    <2>5. ASSUME NEW i \in DOMAIN call.calls
          PROVE  g[call.calls[i]] = h[call.calls[i]]
      <3>1. PICK sub, k : sub = call.calls[i] /\ k = Nested[sub] + 1
        OBVIOUS
      <3>2. sub \in Frames /\ Nested[sub] < Nested[call] /\ Nested[sub] \in Nat
        BY <3>1, FetchConstants
      <3>3. k \in Nat /\ Nested[sub] < k /\ Nested[sub] < n
        BY <2>2, <3>1, <3>2
      <3>4. h[sub] = At(k)[sub]
        BY <1>2, <3>1, <3>2
      <3>5. g[sub] = At(k)[sub]
        BY <1>1, <2>2, <2>4, <3>2, <3>3, UnrollsAlike
      <3> QED
        BY <3>1, <3>4, <3>5
    <2>6. [i \in DOMAIN call.calls |-> g[call.calls[i]]] = [i \in DOMAIN call.calls |-> h[call.calls[i]]]
      BY <2>5
    <2>7. g[call] = <<call>> \o F!FlattenSeq([i \in DOMAIN call.calls |-> g[call.calls[i]]])
      BY <2>4 DEF Unrolls
    <2> QED
      BY <2>4, <2>6, <2>7
  <1>4. Runs(h)
    BY <1>2, <1>3
  <1>5. F!ExtractCalls = CHOOSE g : Runs(g)
    BY DEF F!ExtractCalls
  <1>6. Runs(F!ExtractCalls)
    <2> HIDE DEF Runs
    <2> QED
      BY <1>4, <1>5
  <1> QED
    BY <1>6 DEF Unrolls

\* A call is followed by those it made: there is at least itself.
LEMMA ExtractedCalls ==
    ASSUME NEW c \in Frames
    PROVE  F!ExtractCalls[c] \in Seq(Frames) /\ Len(F!ExtractCalls[c]) > 0
  <1> DEFINE Good(call) == F!ExtractCalls[call] \in Seq(Frames) /\ Len(F!ExtractCalls[call]) > 0
             G == {m \in Nat : \A call \in Shallow(m) : Good(call)}
  <1>1. 0 \in G
    BY FetchConstants DEF Shallow
  <1>2. ASSUME NEW m \in Nat, m \in G
        PROVE  m + 1 \in G
    <2>1. SUFFICES ASSUME NEW call \in Shallow(m + 1)
                   PROVE  Good(call)
      OBVIOUS
    <2>2. call \in Frames /\ Nested[call] < m + 1 /\ Nested[call] \in Nat
      BY FetchConstants DEF Shallow
    <2>3. ASSUME NEW i \in DOMAIN call.calls
          PROVE  F!ExtractCalls[call.calls[i]] \in Seq(Frames)
      <3>1. call.calls[i] \in Frames /\ Nested[call.calls[i]] < Nested[call]
        BY <2>2, FetchConstants
      <3>2. Nested[call.calls[i]] \in Nat
        BY <3>1, FetchConstants
      <3>3. call.calls[i] \in Shallow(m)
        BY <2>2, <3>1, <3>2 DEF Shallow
      <3> QED
        BY <1>2, <3>3
    <2>4. PICK inner : inner = [i \in DOMAIN call.calls |-> F!ExtractCalls[call.calls[i]]]
      OBVIOUS
    <2>5. inner \in Seq(Seq(Frames))
      <3>1. PICK n \in Nat : DOMAIN call.calls = 1 .. n
        <4>1. call.calls \in Seq(Frames)
          BY <2>2, FetchConstants
        <4> QED
          BY <4>1
      <3>2. inner \in [1 .. n -> Seq(Frames)]
        BY <2>3, <2>4, <3>1
      <3> QED
        BY <3>2
    <2>6. PICK all : all = F!FlattenSeq(inner) /\ all \in Seq(Frames)
      BY <2>5, FlattenSeqLays
    <2>7. F!ExtractCalls[call] = <<call>> \o all
      BY <2>2, <2>4, <2>6, ExtractCallsUnrolls DEF Unrolls
    <2>8. <<call>> \o all \in Seq(Frames) /\ Len(<<call>> \o all) > 0
      BY <2>2, <2>6
    <2> QED
      BY <2>7, <2>8
  <1>3. Nat \subseteq G
    <2> HIDE DEF G
    <2> QED
      BY <1>1, <1>2, NaturalInduction
  <1>4. Nested[c] \in Nat
    BY FetchConstants
  <1>5. Nested[c] + 1 \in G /\ c \in Shallow(Nested[c] + 1)
    BY <1>3, <1>4 DEF Shallow
  <1> QED
    BY <1>5

\* The traces of a transaction are next to each other, and the reward is no other.
Kinds == {call.kind : call \in Frames}
TraceRecords == [position : Nat, kind : Kinds \cup {"reward"}, failed : BOOLEAN]
TraceOf(i, call) == [position |-> i, kind |-> call.kind, failed |-> call.failed]
PlacesOf(i, traces) == {k \in DOMAIN traces : traces[k].position = i /\ traces[k].kind # "reward"}
HavePlaces(i, calls, traces) ==
  \E a \in Nat : /\ PlacesOf(i, traces) = a + 1 .. a + Len(calls)
                 /\ \A n \in 1 .. Len(calls) : traces[a + n] = TraceOf(i, calls[n])

\* The traces of all transactions of a block, each with the place of its own.
LEMMA TracesAreLaid ==
    ASSUME NEW b \in Rivals, NEW i \in DOMAIN BodyOf[b], NEW calls,
           calls = F!ExtractCalls[CallOf[BodyOf[b][i]]]
    PROVE  /\ F!Traces(b) \in Seq(TraceRecords) /\ calls \in Seq(Frames) /\ Len(calls) > 0
           /\ HavePlaces(i, calls, F!Traces(b))
  <1> DEFINE CallsOfTx(j) == F!ExtractCalls[CallOf[BodyOf[b][j]]]
  <1>1. PICK count \in Nat : DOMAIN BodyOf[b] = 1 .. count /\ count = Len(BodyOf[b])
    <2>1. BodyOf[b] \in Seq(DOMAIN CallOf)
      BY FetchConstants
    <2> QED
      BY <2>1
  <1>2. \A j \in 1 .. count : CallOf[BodyOf[b][j]] \in Frames
    <2>1. BodyOf[b] \in Seq(DOMAIN CallOf)
      BY FetchConstants
    <2>2. \A j \in 1 .. count : BodyOf[b][j] \in DOMAIN CallOf
      BY <1>1, <2>1
    <2> QED
      BY <2>2, FetchConstants
  <1>3. \A j \in 1 .. count : CallsOfTx(j) \in Seq(Frames) /\ Len(CallsOfTx(j)) > 0
    BY <1>2, ExtractedCalls
  <1>4. PICK seqs : seqs = [j \in DOMAIN BodyOf[b] |-> F!AtPosition(j, CallsOfTx(j))]
    OBVIOUS
  <1>5. ASSUME NEW j \in 1 .. count
        PROVE  /\ seqs[j] \in Seq(TraceRecords) /\ Len(seqs[j]) = Len(CallsOfTx(j))
               /\ \A k \in 1 .. Len(CallsOfTx(j)) : seqs[j][k] = TraceOf(j, CallsOfTx(j)[k])
    <2>1. PICK own : own = CallsOfTx(j) /\ own \in Seq(Frames)
      BY <1>3
    <2>2. PICK len \in Nat : len = Len(own) /\ DOMAIN own = 1 .. len /\ \A k \in 1 .. len : own[k] \in Frames
      BY <2>1
    <2>3. seqs[j] = [k \in 1 .. len |-> TraceOf(j, own[k])]
      BY <1>1, <1>4, <2>1, <2>2 DEF F!AtPosition, TraceOf
    <2>4. \A k \in 1 .. len : TraceOf(j, own[k]) \in TraceRecords
      <3> TAKE k \in 1 .. len
      <3>1. own[k].failed \in BOOLEAN /\ own[k].kind \in Kinds /\ j \in Nat
        BY <2>2, FetchConstants DEF Kinds
      <3> QED
        BY <3>1 DEF TraceOf, TraceRecords
    <2>5. seqs[j] \in [1 .. len -> TraceRecords] /\ \A k \in 1 .. len : seqs[j][k] = TraceOf(j, own[k])
      BY <2>3, <2>4
    <2>6. seqs[j] \in Seq(TraceRecords) /\ Len(seqs[j]) = len
      BY <2>5
    <2> QED
      BY <2>1, <2>2, <2>5, <2>6
  <1>6. seqs \in Seq(Seq(TraceRecords)) /\ Len(seqs) = count
    <2>1. seqs \in [1 .. count -> Seq(TraceRecords)]
      BY <1>1, <1>4, <1>5
    <2> QED
      BY <2>1
  <1>7. PICK all, ends : all = F!Traces(b) /\ all \in Seq(TraceRecords) /\ Laid(seqs, all, ends)
    <2>1. F!Traces(b) = F!FlattenSeq(seqs)
      BY <1>4 DEF F!Traces
    <2> QED
      BY <1>6, <2>1, FlattenSeqLays
  <1>8. /\ ends \in [0 .. count -> Nat] /\ DOMAIN all = 1 .. Len(all)
        /\ \A j \in 1 .. count :
             /\ j - 1 \in 0 .. count /\ ends[j - 1] \in Nat
             /\ ends[j] = ends[j - 1] + Len(seqs[j])
             /\ \A k \in 1 .. Len(seqs[j]) : all[ends[j - 1] + k] = seqs[j][k]
        /\ \A c \in 1 .. Len(all) : \E j \in 1 .. count : c \in ends[j - 1] + 1 .. ends[j]
    <2>1. \A j \in 1 .. count : j - 1 \in 0 .. count
      OBVIOUS
    <2> QED
      BY <1>6, <1>7, <2>1 DEF Laid
  <1>9. ASSUME NEW j \in 1 .. count, NEW k \in 1 .. Len(CallsOfTx(j))
        PROVE  all[ends[j - 1] + k] = TraceOf(j, CallsOfTx(j)[k])
    <2>1. Len(seqs[j]) = Len(CallsOfTx(j)) /\ seqs[j][k] = TraceOf(j, CallsOfTx(j)[k])
      BY <1>5
    <2>2. \A m \in 1 .. Len(seqs[j]) : all[ends[j - 1] + m] = seqs[j][m]
      BY <1>8
    <2> QED
      BY <2>1, <2>2
  <1>10. ASSUME NEW j \in 1 .. count
         PROVE  \A c \in ends[j - 1] + 1 .. ends[j] : all[c].position = j /\ all[c].kind \in Kinds
    <2> TAKE c \in ends[j - 1] + 1 .. ends[j]
    <2>1. PICK x \in Nat, y \in Nat : x = ends[j - 1] /\ y = Len(CallsOfTx(j)) /\ ends[j] = x + y
      <3>1. Len(CallsOfTx(j)) \in Nat
        BY <1>3
      <3>2. ends[j - 1] \in Nat /\ ends[j] = ends[j - 1] + Len(seqs[j])
        BY <1>8
      <3>3. Len(seqs[j]) = Len(CallsOfTx(j))
        BY <1>5
      <3> QED
        BY ONLY <3>1, <3>2, <3>3
    <2>2. c - x \in 1 .. y /\ x + (c - x) = c
      <3>1. c \in x + 1 .. x + y
        BY <2>1
      <3> QED
        BY <3>1, PlaceFromStretch
    <2>3. all[c] = TraceOf(j, CallsOfTx(j)[c - x])
      <3>1. all[x + (c - x)] = TraceOf(j, CallsOfTx(j)[c - x])
        BY <1>9, <2>1, <2>2
      <3> QED
        BY <2>2, <3>1
    <2>4. CallsOfTx(j)[c - x] \in Frames
      BY <1>3, <2>1, <2>2
    <2> QED
      BY <2>3, <2>4 DEF TraceOf, Kinds
  <1>11. "reward" \notin Kinds
    BY FetchConstants DEF Kinds
  <1>12. \A j \in 1 .. count : ends[j] <= Len(all) /\ ends[j] \in Nat
    <2> DEFINE G == {d \in Nat : d <= count => \A j \in 1 .. count : j + d = count => ends[j] <= Len(all)}
    <2>1. Len(all) = ends[count] /\ Len(all) \in Nat
      BY <1>6, <1>7 DEF Laid
    <2>2. 0 \in G
      BY <2>1
    <2>3. ASSUME NEW d \in Nat, d \in G
          PROVE  d + 1 \in G
      <3>1. SUFFICES ASSUME d + 1 <= count, NEW j \in 1 .. count, j + (d + 1) = count
                     PROVE  ends[j] <= Len(all)
        OBVIOUS
      <3>2. j + 1 \in 1 .. count /\ (j + 1) + d = count /\ (j + 1) - 1 = j /\ d <= count
        BY <3>1
      <3>3. ends[j + 1] <= Len(all)
        BY <2>3, <3>2
      <3>4. ends[j + 1] = ends[j] + Len(seqs[j + 1]) /\ ends[j] \in Nat /\ Len(seqs[j + 1]) \in Nat
        <4>1. ends[j + 1] = ends[(j + 1) - 1] + Len(seqs[j + 1])
          BY <1>8, <3>2
        <4>2. seqs[j + 1] \in Seq(TraceRecords)
          BY <1>5, <3>2
        <4>3. ends[j] \in Nat
          <5>1. j \in 0 .. count
            OBVIOUS
          <5> QED
            BY <1>8, <5>1
        <4> QED
          BY <3>2, <4>1, <4>2, <4>3
      <3> QED
        BY <2>1, <3>3, <3>4
    <2>4. Nat \subseteq G
      <3> HIDE DEF G
      <3> QED
        BY <2>2, <2>3, NaturalInduction
    <2>5. ASSUME NEW j \in 1 .. count
          PROVE  ends[j] <= Len(all) /\ ends[j] \in Nat
      <3>1. count - j \in Nat /\ j + (count - j) = count /\ count - j <= count
        OBVIOUS
      <3>2. ends[j] \in Nat
        BY <1>8
      <3> QED
        BY <2>4, <3>1, <3>2
    <2> QED
      BY <2>5
  <1>13. PICK x \in Nat, y \in Nat : /\ x = ends[i - 1] /\ y = Len(calls) /\ ends[i] = x + y
                                     /\ x + y <= Len(all) /\ i \in 1 .. count
    <2>1. i \in 1 .. count
      BY <1>1
    <2> QED
      BY <1>3, <1>5, <1>8, <1>12, <2>1
  <1>14. PlacesOf(i, all) = x + 1 .. x + y
    <2>1. ASSUME NEW c \in PlacesOf(i, all)
          PROVE  c \in x + 1 .. x + y
      <3>1. c \in 1 .. Len(all) /\ all[c].position = i
        BY <1>8 DEF PlacesOf
      <3>2. PICK j \in 1 .. count : c \in ends[j - 1] + 1 .. ends[j]
        BY <1>8, <3>1
      <3>3. j = i
        BY <1>10, <3>1, <3>2
      <3> QED
        BY <1>13, <3>2, <3>3
    <2>2. ASSUME NEW c \in x + 1 .. x + y
          PROVE  c \in PlacesOf(i, all)
      <3>1. c \in 1 .. Len(all)
        <4>1. Len(all) \in Nat
          BY <1>7
        <4> QED
          BY <1>13, <4>1
      <3>2. all[c].position = i /\ all[c].kind \in Kinds
        BY <1>10, <1>13
      <3> QED
        BY <1>8, <1>11, <3>1, <3>2 DEF PlacesOf
    <2> QED
      BY <2>1, <2>2
  <1>15. \A n \in 1 .. Len(calls) : all[x + n] = TraceOf(i, calls[n])
    BY <1>9, <1>13
  <1>16. calls \in Seq(Frames) /\ Len(calls) > 0
    BY <1>3, <1>13
  <1> QED
    BY <1>7, <1>13, <1>14, <1>15, <1>16 DEF HavePlaces

\* The reward behind them makes no difference.
LEMMA TracesOfTx ==
    ASSUME NEW b \in Rivals, NEW i \in DOMAIN BodyOf[b], NEW calls,
           calls = F!ExtractCalls[CallOf[BodyOf[b][i]]],
           NEW traces, traces = F!Traces(b) \/ traces = F!ParityTraces(b)
    PROVE  HavePlaces(i, calls, traces)
  <1>1. PICK all : all = F!Traces(b) /\ all \in Seq(TraceRecords)
    BY TracesAreLaid
  <1>2. PICK a \in Nat : /\ PlacesOf(i, all) = a + 1 .. a + Len(calls)
                         /\ \A n \in 1 .. Len(calls) : all[a + n] = TraceOf(i, calls[n])
    BY <1>1, TracesAreLaid DEF HavePlaces
  <1>3. CASE traces = all
    BY <1>2, <1>3 DEF HavePlaces
  <1>4. CASE traces = all \o <<F!Reward>>
    <2>1. PICK len \in Nat : /\ len = Len(all) /\ DOMAIN all = 1 .. len /\ DOMAIN traces = 1 .. len + 1
                             /\ (\A k \in 1 .. len : traces[k] = all[k]) /\ traces[len + 1] = F!Reward
      <3>1. <<F!Reward>> \in Seq({F!Reward}) /\ Len(<<F!Reward>>) = 1 /\ <<F!Reward>>[1] = F!Reward
        OBVIOUS
      <3>2. PICK extra : extra = <<F!Reward>>
        OBVIOUS
      <3>3. PICK R : R = TraceRecords \cup {F!Reward}
        OBVIOUS
      <3>4. all \in Seq(R) /\ extra \in Seq(R) /\ Len(extra) = 1 /\ extra[1] = F!Reward
        BY <1>1, <3>1, <3>2, <3>3
      <3>5. /\ all \o extra \in Seq(R) /\ Len(all \o extra) = Len(all) + 1 /\ Len(all) \in Nat
            /\ \A c \in 1 .. Len(all) : (all \o extra)[c] = all[c]
            /\ \A k \in 1 .. 1 : (all \o extra)[Len(all) + k] = extra[k]
        BY ONLY <3>4, JoinedIs
      <3>6. DOMAIN (all \o extra) = 1 .. Len(all) + 1 /\ DOMAIN all = 1 .. Len(all)
        BY <3>4, <3>5
      <3>7. (all \o extra)[Len(all) + 1] = F!Reward
        BY <3>4, <3>5
      <3>8. traces = all \o extra
        BY <1>4, <3>2
      <3> QED
        BY ONLY <3>5, <3>6, <3>7, <3>8
    <2>2. F!Reward.kind = "reward"
      BY DEF F!Reward
    <2>3. PlacesOf(i, traces) = PlacesOf(i, all)
      BY <2>1, <2>2 DEF PlacesOf
    <2>4. \A n \in 1 .. Len(calls) : a + n \in 1 .. len
      <3>1. \A n \in 1 .. Len(calls) : a + n \in PlacesOf(i, all)
        <4>1. calls \in Seq(Frames)
          BY TracesAreLaid
        <4>2. Len(calls) \in Nat
          BY <4>1
        <4> QED
          BY <1>2, <4>2
      <3> QED
        BY <2>1, <3>1 DEF PlacesOf
    <2> QED
      BY <1>2, <2>1, <2>3, <2>4 DEF HavePlaces
  <1>5. CASE traces = all \o <<>>
    <2>1. traces = all
      BY <1>1, <1>5
    <2> QED
      BY <1>3, <2>1
  <1> QED
    BY <1>1, <1>3, <1>4, <1>5 DEF F!ParityTraces

\* A transaction of a block that was built, and what traces and receipts add to it.
IsTx(tx) == tx = [hash |-> tx.hash, status |-> tx.status, itx |-> tx.itx, receipt |-> tx.receipt]
Whole(tx, calls) ==
  /\ Len(tx.itx) = Len(calls)
  /\ tx.status = IF calls[Len(calls)].failed THEN 0 ELSE 1

\* Traces leave the hash and the receipt of a transaction.
LEMMA WithTracesKeeps ==
    ASSUME NEW types, NEW traces, NEW txs, NEW i \in DOMAIN txs, IsTx(txs[i]),
           NEW tx, tx = F!WithTraces(types, traces, txs)[i]
    PROVE  IsTx(tx) /\ tx.hash = txs[i].hash /\ tx.receipt = txs[i].receipt
  <1>1. PICK old, own : old = txs[i] /\ own = F!Picked(traces, PlacesOf(i, traces))
    OBVIOUS
  <1>2. PICK status, itx :
          tx = IF own = <<>> THEN old ELSE [old EXCEPT !.status = status, !.itx = itx]
    BY <1>1 DEF F!WithTraces, PlacesOf
  <1>3. old = [hash |-> old.hash, status |-> old.status, itx |-> old.itx, receipt |-> old.receipt]
    BY <1>1 DEF IsTx
  <1>4. own # <<>> => tx = [hash |-> old.hash, status |-> status, itx |-> itx, receipt |-> old.receipt]
    BY ONLY <1>2, <1>3
  <1> QED
    BY <1>1, <1>2, <1>3, <1>4 DEF IsTx

\* A transaction that has its traces is whole.
LEMMA WithTracesIsWhole ==
    ASSUME NEW b \in Rivals, NEW i \in DOMAIN BodyOf[b], NEW calls,
           calls = F!ExtractCalls[CallOf[BodyOf[b][i]]],
           NEW traces, traces = F!Traces(b) \/ traces = F!ParityTraces(b),
           NEW types, NEW txs, i \in DOMAIN txs, IsTx(txs[i]), txs[i].itx = <<>>
    PROVE  Whole(F!WithTraces(types, traces, txs)[i], calls)
  <1>1. PICK a \in Nat : /\ PlacesOf(i, traces) = a + 1 .. a + Len(calls)
                         /\ \A n \in 1 .. Len(calls) : traces[a + n] = TraceOf(i, calls[n])
    <2>1. HavePlaces(i, calls, traces)
      BY TracesOfTx
    <2> QED
      BY <2>1 DEF HavePlaces
  <1>2. PICK len \in Nat : len = Len(calls) /\ len > 0 /\ len \in 1 .. len
    <2>1. calls \in Seq(Frames) /\ Len(calls) > 0
      BY TracesAreLaid
    <2>2. Len(calls) \in Nat
      BY <2>1
    <2> QED
      BY <2>1, <2>2
  <1>3. PICK own : own = F!Picked(traces, PlacesOf(i, traces))
    OBVIOUS
  <1>4. own = [n \in 1 .. len |-> traces[a + n]]
    <2>1. PICK places : places = PlacesOf(i, traces) /\ places = a + 1 .. a + len
      BY <1>1, <1>2
    <2>2. a \in Nat /\ len \in Nat /\ places = a + 1 .. a + len
      BY <2>1
    <2>3. F!Picked(traces, places) = Slice(traces, a, len)
      BY ONLY <2>2, PickedIs
    <2> QED
      BY <1>3, <2>1, <2>3 DEF Slice
  <1>5. Len(own) = len /\ DOMAIN own = 1 .. len /\ own[len] = TraceOf(i, calls[len])
    BY <1>1, <1>2, <1>4
  <1>6. own # <<>> /\ F!Last(own) = own[len]
    <2>1. own # <<>>
      BY <1>2, <1>5
    <2> QED
      BY <1>5, <2>1 DEF F!Last
  <1>7. F!Last(own).failed = calls[len].failed
    BY <1>5, <1>6 DEF TraceOf
  <1>8. PICK old, kinds, itx : old = txs[i] /\ kinds = [k \in DOMAIN own |-> types[own[k].kind]]
                                /\ itx = old.itx \o kinds
    OBVIOUS
  <1>9. F!WithTraces(types, traces, txs)[i]
          = [old EXCEPT !.status = IF F!Last(own).failed THEN 0 ELSE 1, !.itx = itx]
    BY <1>3, <1>6, <1>8 DEF F!WithTraces, PlacesOf
  <1>10. old = [hash |-> old.hash, status |-> old.status, itx |-> old.itx, receipt |-> old.receipt]
    BY <1>8 DEF IsTx
  <1>11. F!WithTraces(types, traces, txs)[i]
           = [hash |-> old.hash, status |-> IF F!Last(own).failed THEN 0 ELSE 1, itx |-> itx,
              receipt |-> old.receipt]
    BY ONLY <1>9, <1>10
  <1>12. Len(itx) = len
    <2>1. PICK K : K = {types[own[k].kind] : k \in 1 .. len}
      OBVIOUS
    <2>2. kinds \in [1 .. len -> K]
      BY <1>5, <1>8, <2>1
    <2>3. kinds \in Seq(K) /\ Len(kinds) = len
      BY <2>2
    <2>4. itx = <<>> \o kinds
      BY <1>8
    <2> QED
      BY <2>3, <2>4
  <1> QED
    BY <1>2, <1>7, <1>11, <1>12 DEF Whole

\* What GetBlock works on is a block of the node, and its transactions.
IsBlock(b) ==
  /\ b \in Rivals /\ block = [of |-> {b}, txs |-> block.txs] /\ DOMAIN block.txs = DOMAIN BodyOf[b]
  /\ \A i \in DOMAIN BodyOf[b] : IsTx(block.txs[i]) /\ block.txs[i].hash = BodyOf[b][i]
\* The calls of a transaction.
TxCalls(b, i) == F!ExtractCalls[CallOf[BodyOf[b][i]]]
\* Each transaction has its receipt, of the block r.
HasReceipts(r) ==
  \A i \in DOMAIN block.txs :
    block.txs[i].receipt = {r} /\ \E k \in DOMAIN BodyOf[r] : BodyOf[r][k] = block.txs[i].hash

Working == reached \in {"asking", "waiting", "returned"} \/ tracer # "off"

\* What the answers so far have made of the block.
BlockFits(b) ==
  /\ IsBlock(b) /\ (moves = 0 => there = b)
  /\ reached \in {"waiting", "returned"} => \E r \in Rivals : (moves = 0 => r = b) /\ HasReceipts(r)
  /\ tracer \in {"parity", "geth", "failed"} => \A i \in DOMAIN BodyOf[b] : block.txs[i].itx = <<>>
  /\ tracer = "done" =>
       \E c \in Rivals : /\ tracedAs = {c} /\ (moves = 0 => c = b)
                         /\ moves = 0 => \A i \in DOMAIN BodyOf[b] : Whole(block.txs[i], TxCalls(b, i))

FetchInv ==
  /\ F!TypeOK /\ (reached = "idle" => tracer = "off")
  /\ client = "erigon" /\ reached \in {"asking", "waiting"} => tracer # "off"
  /\ client = "erigon" /\ reached = "returned" => tracer = "done"
  /\ Working => \E b \in Rivals : BlockFits(b)

\* A request that the node refused.
LEMMA RefusedKeeps ==
    ASSUME F!TypeOK, F!Refused
    PROVE  refusals' \in 0 .. MaxRefusals
  BY FetchConstants DEF F!TypeOK, F!Refused

\* The block that was asked for: nothing is known of its transactions yet.
LEMMA BuiltFits ==
    ASSUME NEW b \in Rivals, NEW built, built = F!Built(b)
    PROVE  /\ built = [of |-> {b}, txs |-> built.txs] /\ DOMAIN built.txs = DOMAIN BodyOf[b]
           /\ \A i \in DOMAIN BodyOf[b] :
                IsTx(built.txs[i]) /\ built.txs[i].hash = BodyOf[b][i] /\ built.txs[i].itx = <<>>
  <1>1. PICK txs : txs = [i \in DOMAIN BodyOf[b] |->
                            [hash |-> BodyOf[b][i], status |-> 0, itx |-> <<>>, receipt |-> {}]]
    OBVIOUS
  <1>2. built = [of |-> {b}, txs |-> txs]
    BY <1>1 DEF F!Built
  <1>3. \A i \in DOMAIN BodyOf[b] :
          txs[i] = [hash |-> BodyOf[b][i], status |-> 0, itx |-> <<>>, receipt |-> {}]
    BY <1>1
  <1>4. ASSUME NEW i \in DOMAIN BodyOf[b]
        PROVE  IsTx(txs[i]) /\ txs[i].hash = BodyOf[b][i] /\ txs[i].itx = <<>>
    <2>1. PICK tx, hash : tx = txs[i] /\ hash = BodyOf[b][i]
      OBVIOUS
    <2>2. tx = [hash |-> hash, status |-> 0, itx |-> <<>>, receipt |-> {}]
      BY <1>3, <2>1
    <2>3. tx.hash = hash /\ tx.status = 0 /\ tx.itx = <<>> /\ tx.receipt = {}
      BY ONLY <2>2
    <2>4. tx = [hash |-> tx.hash, status |-> tx.status, itx |-> tx.itx, receipt |-> tx.receipt]
      BY ONLY <2>2, <2>3
    <2> QED
      BY <2>1, <2>3, <2>4 DEF IsTx
  <1>5. DOMAIN txs = DOMAIN BodyOf[b]
    BY <1>1
  <1> QED
    BY <1>2, <1>4, <1>5

\* The node changes its block.
LEMMA MoveKeeps ==
    ASSUME FetchInv, F!Move
    PROVE  FetchInv'
  <1>1. /\ moves' = moves + 1 /\ moves' \in 0 .. MaxMoves /\ moves' # 0 /\ there' \in Rivals
        /\ UNCHANGED <<client, reached, block, tracer, tracedAs, refusals>>
    BY FetchConstants DEF F!Move, FetchInv, F!TypeOK
  <1>2. F!TypeOK'
    BY <1>1 DEF FetchInv, F!TypeOK
  <1>3. ASSUME NEW b \in Rivals, BlockFits(b)
        PROVE  BlockFits(b)'
    BY <1>1, <1>3 DEF BlockFits, IsBlock, HasReceipts
  <1> QED
    BY <1>1, <1>2, <1>3 DEF FetchInv, Working

\* The headers: the node's block, or none.
LEMMA HeaderKeeps ==
    ASSUME FetchInv, F!Header \/ F!GethHeader
    PROVE  FetchInv'
  <1>1. /\ reached = "idle" /\ tracer = "off" /\ UNCHANGED <<client, there, moves, tracedAs>>
        /\ client \in {"erigon", "geth"} /\ there \in Rivals
    BY DEF F!Header, F!GethHeader, FetchInv, F!TypeOK
  <1>2. CASE reached' = "failed"
    <2>1. F!Refused /\ UNCHANGED <<block, tracer>>
      BY <1>2 DEF F!Header, F!GethHeader
    <2>2. F!TypeOK'
      BY <1>1, <1>2, <2>1, RefusedKeeps DEF FetchInv, F!TypeOK
    <2> QED
      BY <1>1, <1>2, <2>1, <2>2 DEF FetchInv, Working
  <1>3. CASE reached' # "failed"
    <2>1. reached' = "asking" /\ block' = F!Built(there) /\ UNCHANGED refusals
          /\ IF client = "erigon" THEN tracer' = "parity" ELSE tracer' = "off"
      BY <1>1, <1>3 DEF F!Header, F!GethHeader
    <2>2. /\ block' = [of |-> {there}, txs |-> block'.txs] /\ DOMAIN block'.txs = DOMAIN BodyOf[there]
          /\ \A i \in DOMAIN BodyOf[there] :
               /\ IsTx(block'.txs[i]) /\ block'.txs[i].hash = BodyOf[there][i]
               /\ block'.txs[i].itx = <<>>
      BY <1>1, <2>1, BuiltFits
    <2>3. block'.of = {there}
      BY <2>2
    <2>4. F!TypeOK'
      BY <1>1, <2>1, <2>3 DEF FetchInv, F!TypeOK
    <2>5. BlockFits(there)'
      BY <1>1, <2>1, <2>2 DEF BlockFits, IsBlock
    <2>6. \E b \in Rivals : BlockFits(b)'
      BY <1>1, <2>5
    <2> QED
      BY <1>1, <2>1, <2>4, <2>6 DEF FetchInv
  <1> QED
    BY <1>2, <1>3

\* The traces become part of the transactions.
LEMMA TakeTracesKeeps ==
    ASSUME FetchInv, tracer \in {"parity", "geth"}, NEW b \in Rivals, BlockFits(b),
           NEW c \in Rivals, NEW types, NEW traces, F!TakeTraces(c, types, traces),
           traces = F!Traces(c) \/ traces = F!ParityTraces(c), moves = 0 => c = b
    PROVE  FetchInv'
  <1>1. tracedAs' = {c} /\ UNCHANGED <<client, there, moves, refusals>>
    BY DEF F!TakeTraces
  <1>2. CASE reached' = "down" /\ tracer' = "off" /\ UNCHANGED block
    <2>1. F!TypeOK'
      BY <1>1, <1>2 DEF FetchInv, F!TypeOK
    <2> QED
      BY <1>1, <1>2, <2>1 DEF FetchInv, Working
  <1>3. CASE /\ block' = [block EXCEPT !.txs = F!WithTraces(types, traces, @)]
             /\ tracer' = "done" /\ UNCHANGED reached
    <2>1. PICK txs, new : txs = block.txs /\ new = F!WithTraces(types, traces, txs)
      OBVIOUS
    <2>2. block = [of |-> {b}, txs |-> txs] /\ DOMAIN txs = DOMAIN BodyOf[b]
          /\ \A i \in DOMAIN BodyOf[b] :
               IsTx(txs[i]) /\ txs[i].hash = BodyOf[b][i] /\ txs[i].itx = <<>>
      BY <2>1 DEF BlockFits, IsBlock
    <2>3. block' = [of |-> {b}, txs |-> new]
      <3>1. PICK old, next : old = block /\ next = block'
        OBVIOUS
      <3>2. old = [of |-> {b}, txs |-> txs]
        BY <2>2, <3>1
      <3>3. next = [old EXCEPT !.txs = new]
        <4>1. block' = [block EXCEPT !.txs = F!WithTraces(types, traces, block.txs)]
          BY <1>3
        <4> QED
          BY ONLY <2>1, <3>1, <4>1
      <3>4. next = [of |-> {b}, txs |-> new]
        BY ONLY <3>2, <3>3
      <3> QED
        BY <3>1, <3>4
    <2>4. block'.txs = new /\ block'.of = {b} /\ block.of = {b}
      BY <2>2, <2>3
    <2>5. DOMAIN new = DOMAIN BodyOf[b]
      BY <2>1, <2>2 DEF F!WithTraces
    <2>6. ASSUME NEW i \in DOMAIN BodyOf[b]
          PROVE  /\ IsTx(new[i]) /\ new[i].hash = txs[i].hash /\ new[i].receipt = txs[i].receipt
                 /\ c = b => Whole(new[i], TxCalls(b, i))
      <3>1. i \in DOMAIN txs /\ IsTx(txs[i]) /\ txs[i].itx = <<>>
        BY <2>2
      <3>2. IsTx(new[i]) /\ new[i].hash = txs[i].hash /\ new[i].receipt = txs[i].receipt
        BY <2>1, <3>1, WithTracesKeeps
      <3>3. ASSUME c = b
            PROVE  Whole(new[i], TxCalls(b, i))
        <4>1. traces = F!Traces(b) \/ traces = F!ParityTraces(b)
          BY <3>3
        <4>2. Whole(F!WithTraces(types, traces, txs)[i], TxCalls(b, i))
          BY <3>1, <4>1, WithTracesIsWhole DEF TxCalls
        <4> QED
          BY <2>1, <4>2
      <3> QED
        BY <3>2, <3>3
    <2>7. IsBlock(b)'
      BY <2>2, <2>3, <2>4, <2>5, <2>6 DEF IsBlock
    <2>8. ASSUME NEW r, HasReceipts(r)
          PROVE  HasReceipts(r)'
      BY <2>1, <2>2, <2>4, <2>5, <2>6, <2>8 DEF HasReceipts
    <2>9. BlockFits(b)'
      <3>1. moves' = 0 => there' = b
        BY <1>1 DEF BlockFits
      <3>2. reached' \in {"waiting", "returned"} =>
              \E r \in Rivals : (moves' = 0 => r = b) /\ HasReceipts(r)'
        BY <1>1, <1>3, <2>8 DEF BlockFits
      <3>3. \E d \in Rivals :
              /\ tracedAs' = {d} /\ (moves' = 0 => d = b)
              /\ moves' = 0 => \A i \in DOMAIN BodyOf[b] : Whole(block'.txs[i], TxCalls(b, i))
        BY <1>1, <2>4, <2>6
      <3> QED
        BY <1>3, <2>7, <3>1, <3>2, <3>3 DEF BlockFits
    <2>10. F!TypeOK'
      BY <1>1, <1>3, <2>4 DEF FetchInv, F!TypeOK
    <2>11. \E d \in Rivals : BlockFits(d)'
      BY <2>9
    <2> QED
      BY <1>1, <1>3, <2>10, <2>11 DEF FetchInv
  <1> QED
    BY <1>2, <1>3 DEF F!TakeTraces

\* The traces come, by the number or by the hash, or are refused.
LEMMA TracerKeeps ==
    ASSUME FetchInv, F!TraceParity \/ F!ParityFails \/ F!TraceGeth \/ F!GethFails
    PROVE  FetchInv'
  <1>1. tracer \in {"parity", "geth"}
    BY DEF F!TraceParity, F!ParityFails, F!TraceGeth, F!GethFails
  <1>2. PICK b \in Rivals : BlockFits(b)
    BY <1>1 DEF FetchInv, Working
  <1>3. CASE F!TraceParity
    <2>1. there \in Rivals /\ (moves = 0 => there = b)
      BY <1>2 DEF FetchInv, F!TypeOK, BlockFits
    <2>2. PICK traces : /\ traces = F!ParityTraces(there)
                        /\ F!TakeTraces(there, F!ParityType, traces)
      BY <1>3 DEF F!TraceParity
    <2> QED
      BY <1>1, <1>2, <2>1, <2>2, TakeTracesKeeps
  <1>4. CASE F!TraceGeth
    <2>1. PICK c \in block.of : \E traces : /\ traces = F!Traces(c)
                                             /\ F!TakeTraces(c, F!GethType, traces)
      BY <1>4 DEF F!TraceGeth
    <2>2. block.of = {b}
      BY <1>2 DEF BlockFits, IsBlock
    <2>3. c = b
      BY <2>1, <2>2
    <2>4. PICK traces : traces = F!Traces(c) /\ F!TakeTraces(c, F!GethType, traces)
      BY <2>1
    <2> QED
      BY <1>1, <1>2, <2>3, <2>4, TakeTracesKeeps
  <1>5. CASE F!ParityFails \/ F!GethFails
    <2>1. tracer' \in {"geth", "failed"} /\ F!Refused
          /\ UNCHANGED <<client, there, moves, reached, block, tracedAs>>
      BY <1>5 DEF F!ParityFails, F!GethFails
    <2>2. F!TypeOK'
      BY <2>1, RefusedKeeps DEF FetchInv, F!TypeOK
    <2>3. BlockFits(b)'
      BY <1>1, <1>2, <2>1 DEF BlockFits, IsBlock, HasReceipts
    <2>4. client = "erigon" => reached # "returned"
      BY <1>1 DEF FetchInv
    <2>5. reached # "idle"
      BY <1>1 DEF FetchInv
    <2>6. \E d \in Rivals : BlockFits(d)'
      BY <2>3
    <2> QED
      BY <2>1, <2>2, <2>4, <2>5, <2>6 DEF FetchInv
  <1> QED
    BY <1>3, <1>4, <1>5

\* The receipts, which are those of the block the node has now.
LEMMA ReceiptsKeep ==
    ASSUME FetchInv, F!Receipts
    PROVE  FetchInv'
  <1>1. reached = "asking" /\ UNCHANGED <<client, there, moves, tracer, tracedAs>> /\ there \in Rivals
    BY DEF F!Receipts, FetchInv, F!TypeOK
  <1>2. PICK b \in Rivals : BlockFits(b)
    BY <1>1 DEF FetchInv, Working
  <1>3. CASE reached' = "failed"
    <2>1. UNCHANGED block /\ refusals' \in 0 .. MaxRefusals
      BY <1>3, RefusedKeeps DEF F!Receipts, FetchInv, F!TypeOK
    <2>2. F!TypeOK'
      BY <1>1, <1>3, <2>1 DEF FetchInv, F!TypeOK
    <2>3. BlockFits(b)'
      BY <1>1, <1>2, <1>3, <2>1 DEF BlockFits, IsBlock
    <2>4. \E d \in Rivals : BlockFits(d)'
      BY <2>3
    <2> QED
      BY <1>1, <1>3, <2>2, <2>4 DEF FetchInv
  <1>4. CASE reached' # "failed"
    <2>1. /\ reached' = "waiting" /\ UNCHANGED refusals
          /\ block' = [block EXCEPT !.txs = [i \in DOMAIN @ |-> [@[i] EXCEPT !.receipt = {there}]]]
          /\ \A i \in DOMAIN block.txs : \E k \in DOMAIN BodyOf[there] : BodyOf[there][k] = block.txs[i].hash
      BY <1>4 DEF F!Receipts
    <2>2. PICK txs, new : txs = block.txs /\ new = [i \in DOMAIN txs |-> [txs[i] EXCEPT !.receipt = {there}]]
      OBVIOUS
    <2>3. block = [of |-> {b}, txs |-> txs] /\ DOMAIN txs = DOMAIN BodyOf[b]
          /\ \A i \in DOMAIN BodyOf[b] : IsTx(txs[i]) /\ txs[i].hash = BodyOf[b][i]
      BY <1>2, <2>2 DEF BlockFits, IsBlock
    <2>4. block' = [of |-> {b}, txs |-> new]
      <3>1. PICK old, next : old = block /\ next = block'
        OBVIOUS
      <3>2. old = [of |-> {b}, txs |-> txs]
        BY <2>3, <3>1
      <3>3. next = [old EXCEPT !.txs = new]
        <4>1. block' = [block EXCEPT !.txs =
                          [i \in DOMAIN block.txs |-> [block.txs[i] EXCEPT !.receipt = {there}]]]
          BY <2>1
        <4> QED
          BY ONLY <2>2, <3>1, <4>1
      <3>4. next = [of |-> {b}, txs |-> new]
        BY ONLY <3>2, <3>3
      <3> QED
        BY <3>1, <3>4
    <2>5. block'.txs = new /\ block'.of = {b} /\ DOMAIN new = DOMAIN BodyOf[b]
      BY <2>2, <2>3, <2>4
    <2>6. ASSUME NEW i \in DOMAIN BodyOf[b]
          PROVE  /\ IsTx(new[i]) /\ new[i].hash = txs[i].hash /\ new[i].receipt = {there}
                 /\ new[i].itx = txs[i].itx /\ new[i].status = txs[i].status
      <3>1. txs[i] = [hash |-> txs[i].hash, status |-> txs[i].status, itx |-> txs[i].itx,
                      receipt |-> txs[i].receipt]
        BY <2>3 DEF IsTx
      <3>2. new[i] = [txs[i] EXCEPT !.receipt = {there}]
        BY <2>2, <2>3
      <3>3. new[i] = [hash |-> txs[i].hash, status |-> txs[i].status, itx |-> txs[i].itx,
                      receipt |-> {there}]
        BY ONLY <3>1, <3>2
      <3> QED
        BY <3>3 DEF IsTx
    <2>7. IsBlock(b)'
      BY <2>3, <2>4, <2>5, <2>6 DEF IsBlock
    <2>9. \A i \in DOMAIN BodyOf[b] : \A calls : Whole(txs[i], calls) => Whole(new[i], calls)
      BY <2>6 DEF Whole
    <2>10. BlockFits(b)'
      <3>1. moves' = 0 => there' = b
        BY <1>1, <1>2 DEF BlockFits
      <3>2. \E r \in Rivals : (moves' = 0 => r = b) /\ HasReceipts(r)'
        <4>1. PICK r : r = there
          OBVIOUS
        <4>2. r \in Rivals /\ (moves' = 0 => r = b)
          BY <1>1, <3>1, <4>1
        <4>3. HasReceipts(r)'
          BY <1>1, <2>1, <2>2, <2>3, <2>5, <2>6, <4>1 DEF HasReceipts
        <4> QED
          BY <4>2, <4>3
      <3>3. tracer' \in {"parity", "geth", "failed"} =>
              \A i \in DOMAIN BodyOf[b] : block'.txs[i].itx = <<>>
        BY <1>1, <1>2, <2>2, <2>5, <2>6 DEF BlockFits
      <3>4. tracer' = "done" =>
              \E c \in Rivals :
                /\ tracedAs' = {c} /\ (moves' = 0 => c = b)
                /\ moves' = 0 => \A i \in DOMAIN BodyOf[b] : Whole(block'.txs[i], TxCalls(b, i))
        <4>1. SUFFICES ASSUME tracer = "done"
                       PROVE  \E c \in Rivals :
                                /\ tracedAs' = {c} /\ (moves' = 0 => c = b)
                                /\ moves' = 0 =>
                                     \A i \in DOMAIN BodyOf[b] : Whole(block'.txs[i], TxCalls(b, i))
          BY <1>1
        <4>2. PICK c \in Rivals : /\ tracedAs = {c} /\ (moves = 0 => c = b)
                                  /\ moves = 0 =>
                                       \A i \in DOMAIN BodyOf[b] : Whole(block.txs[i], TxCalls(b, i))
          BY <1>2, <4>1 DEF BlockFits
        <4>3. moves' = 0 => \A i \in DOMAIN BodyOf[b] : Whole(block'.txs[i], TxCalls(b, i))
          BY <1>1, <2>2, <2>5, <2>9, <4>2
        <4> QED
          BY <1>1, <4>2, <4>3
      <3> QED
        BY <2>7, <3>1, <3>2, <3>3, <3>4 DEF BlockFits
    <2>11. F!TypeOK'
      BY <1>1, <2>1, <2>5 DEF FetchInv, F!TypeOK
    <2>12. \E d \in Rivals : BlockFits(d)'
      BY <2>10
    <2> QED
      BY <1>1, <2>1, <2>11, <2>12 DEF FetchInv
  <1> QED
    BY <1>3, <1>4

\* The tracer has ended.
LEMMA ReturnKeeps ==
    ASSUME FetchInv, F!Return
    PROVE  FetchInv'
  <1>1. /\ reached = "waiting" /\ tracer \in {"off", "done", "failed"}
        /\ reached' = IF tracer = "failed" THEN "failed" ELSE "returned"
        /\ UNCHANGED <<client, there, moves, block, tracer, tracedAs, refusals>>
    BY DEF F!Return
  <1>2. PICK b \in Rivals : BlockFits(b)
    BY <1>1 DEF FetchInv, Working
  <1>3. BlockFits(b)'
    BY <1>1, <1>2 DEF BlockFits, IsBlock, HasReceipts
  <1>4. F!TypeOK'
    BY <1>1 DEF FetchInv, F!TypeOK
  <1>5. \E d \in Rivals : BlockFits(d)'
    BY <1>3
  <1> QED
    BY <1>1, <1>4, <1>5 DEF FetchInv

\* At first nothing was asked.
LEMMA FetchInvInit ==
    ASSUME F!Init
    PROVE  FetchInv
  <1>1. block.of = {}
    BY DEF F!Init, F!NoBlock
  <1>2. F!TypeOK
    BY <1>1, FetchConstants DEF F!Init, F!TypeOK
  <1> QED
    BY <1>2 DEF F!Init, FetchInv, Working

\* A call of GetBlock in every behaviour.
LEMMA FetchStays == MCSpec => []FetchInv
  <1>1. MCInit => FetchInv
    BY FetchInvInit DEF MCInit
  <1>2. FetchInv /\ [MCNext]_allVars => FetchInv'
    <2> SUFFICES ASSUME FetchInv, [MCNext]_allVars PROVE FetchInv'
      OBVIOUS
    <2>1. CASE F!Next
      BY <2>1, MoveKeeps, HeaderKeeps, TracerKeeps, ReceiptsKeep, ReturnKeeps DEF F!Next, F!Asking
    <2>2. CASE UNCHANGED ofFetch
      BY <2>2 DEF ofFetch, FetchInv, F!TypeOK, Working, BlockFits, IsBlock, HasReceipts
    <2> QED
      BY <2>1, <2>2 DEF MCNext, Indexing, Paging, Marking, Fetching, Depositing, allVars
  <1> QED
    BY <1>1, <1>2, PTL DEF MCSpec

\* What the invariant says of a block that is returned.
LEMMA ReturnedBlock ==
    ASSUME FetchInv
    PROVE  F!AnswersAreKnown /\ F!BlockIsWhole
  <1>1. SUFFICES ASSUME reached = "returned"
                 PROVE  F!AnswersAreKnown /\ F!BlockIsWhole
    BY DEF F!AnswersAreKnown, F!BlockIsWhole
  <1>2. PICK b \in Rivals : BlockFits(b)
    BY <1>1 DEF FetchInv, Working
  <1>3. PICK r \in Rivals : (moves = 0 => r = b) /\ HasReceipts(r)
    BY <1>1, <1>2 DEF BlockFits
  <1>4. /\ block.of = {b} /\ DOMAIN block.txs = DOMAIN BodyOf[b]
        /\ \A i \in DOMAIN BodyOf[b] : block.txs[i].hash = BodyOf[b][i]
    BY <1>2 DEF BlockFits, IsBlock
  <1>5. client = "erigon" =>
          \E c \in Rivals : /\ tracedAs = {c} /\ (moves = 0 => c = b)
                            /\ moves = 0 => \A i \in DOMAIN BodyOf[b] : Whole(block.txs[i], TxCalls(b, i))
    BY <1>1, <1>2 DEF BlockFits, FetchInv
  <1>6. F!AnswersAreKnown
    <2>1. \A i \in DOMAIN block.txs :
            \E d \in block.txs[i].receipt : \E k \in DOMAIN BodyOf[d] : BodyOf[d][k] = block.txs[i].hash
      BY <1>3 DEF HasReceipts
    <2>2. client = "erigon" => F!Cardinality(tracedAs) = 1
      <3>1. \A c : Cardinality({c}) = 1
        BY FS_Singleton
      <3>2. \A T : F!Cardinality(T) = Cardinality(T)
        BY DEF F!Cardinality, Cardinality
      <3> QED
        BY <1>5, <3>1, <3>2
    <2>3. tracedAs # block.of /\ client = "erigon" => moves > 0
      <3>1. moves \in Nat
        BY FetchConstants DEF FetchInv, F!TypeOK
      <3>2. client = "erigon" /\ moves = 0 => tracedAs = {b}
        BY <1>5
      <3> QED
        BY <1>4, <3>1, <3>2
    <2> QED
      BY <2>1, <2>2, <2>3 DEF F!AnswersAreKnown
  <1>7. F!BlockIsWhole
    <2>1. SUFFICES ASSUME client = "erigon", moves = 0, NEW i \in DOMAIN block.txs
                   PROVE  /\ block.txs[i].receipt = block.of
                          /\ Len(block.txs[i].itx) = Len(F!Calls(i))
                          /\ F!Failing(i) = {} => block.txs[i].status = 1
                          /\ F!Failing(i) = DOMAIN F!Calls(i) => block.txs[i].status = 0
      BY DEF F!BlockIsWhole
    <2>2. PICK calls : calls = TxCalls(b, i)
      OBVIOUS
    <2>3. i \in DOMAIN BodyOf[b] /\ F!Calls(i) = calls /\ Whole(block.txs[i], calls)
      BY <1>4, <1>5, <2>1, <2>2 DEF F!Calls, TxCalls
    <2>4. block.txs[i].receipt = block.of
      BY <1>3, <1>4, <2>1 DEF HasReceipts
    <2>5. PICK len \in Nat : len = Len(calls) /\ len > 0 /\ DOMAIN calls = 1 .. len /\ len \in 1 .. len
      <3>1. calls \in Seq(Frames) /\ Len(calls) > 0
        BY <2>2, <2>3, TracesAreLaid DEF TxCalls
      <3> QED
        BY <3>1
    <2>6. F!Failing(i) = {k \in DOMAIN calls : calls[k].failed}
      BY <2>3 DEF F!Failing
    <2>7. F!Failing(i) = {} => ~ calls[len].failed
      BY <2>5, <2>6
    <2>8. F!Failing(i) = DOMAIN F!Calls(i) => calls[len].failed
      BY <2>3, <2>5, <2>6
    <2> QED
      BY <2>3, <2>4, <2>5, <2>7, <2>8 DEF Whole
  <1> QED
    BY <1>6, <1>7

-----------------------------------------------------------------------------
(* The rows of an address *)

\* The assumptions about the tables.
LEMMA TablesConstants ==
    /\ \A b, c \in DOMAIN Body : Body[b].time = Body[c].time => b = c
    /\ IsFiniteSet(DOMAIN Body) /\ Chains \subseteq Seq(DOMAIN Body)
    /\ \A b \in DOMAIN Body : HasLists(b)
    /\ Address # "TIME" /\ PageSize \in Nat /\ PageSize > 0 /\ MaxJobs \in Nat
  BY ConstantsFit DEF TablesAssumption

\* The index rows go by the time, and among those of a block by two indices.
Numbered(L) == \A r \in L : r.time \in Nat /\ r.i \in Nat /\ r.j \in Nat
\* Of two rows one is the first.
Ordered(L) ==
  /\ \A k \in L : ~ Before(k, k)
  /\ \A k, l, m \in L : Before(k, l) /\ Before(l, m) => Before(k, m)
  /\ \A k, l \in L : k = l \/ Before(k, l) \/ Before(l, k)

\* The order of the indices, 0 before the others and those from the highest on.
LEMMA IndexOrder ==
    ASSUME NEW m \in Nat, NEW n \in Nat, NEW k \in Nat
    PROVE  /\ ~ IndexBefore(m, m)
           /\ IndexBefore(m, n) /\ IndexBefore(n, k) => IndexBefore(m, k)
           /\ m = n \/ IndexBefore(m, n) \/ IndexBefore(n, m)
  BY DEF IndexBefore

\* Rows that the time and the indices tell apart are ordered.
LEMMA RowsOrdered ==
    ASSUME NEW L, Numbered(L),
           \A r, s \in L : r.time = s.time /\ r.i = s.i /\ r.j = s.j => r = s
    PROVE  Ordered(L)
  <1>1. ASSUME NEW k \in L
        PROVE  ~ Before(k, k)
    BY <1>1, IndexOrder DEF Numbered, Before
  <1>2. ASSUME NEW k \in L, NEW l \in L
        PROVE  k = l \/ Before(k, l) \/ Before(l, k)
    <2>1. /\ k.time \in Nat /\ l.time \in Nat /\ k.i \in Nat /\ l.i \in Nat /\ k.j \in Nat /\ l.j \in Nat
      BY DEF Numbered
    <2>2. k.time = l.time \/ k.time > l.time \/ l.time > k.time
      BY <2>1
    <2>3. k.i = l.i \/ IndexBefore(k.i, l.i) \/ IndexBefore(l.i, k.i)
      BY <2>1, IndexOrder
    <2>4. k.j = l.j \/ IndexBefore(k.j, l.j) \/ IndexBefore(l.j, k.j)
      BY <2>1, IndexOrder
    <2> QED
      BY <2>2, <2>3, <2>4 DEF Before
  <1>3. ASSUME NEW k \in L, NEW l \in L, NEW m \in L, Before(k, l), Before(l, m)
        PROVE  Before(k, m)
    <2>1. /\ k.time \in Nat /\ l.time \in Nat /\ m.time \in Nat
          /\ k.i \in Nat /\ l.i \in Nat /\ m.i \in Nat /\ k.j \in Nat /\ l.j \in Nat /\ m.j \in Nat
      BY DEF Numbered
    <2>2. IndexBefore(k.i, l.i) /\ IndexBefore(l.i, m.i) => IndexBefore(k.i, m.i)
      BY <2>1, IndexOrder
    <2>3. IndexBefore(k.j, l.j) /\ IndexBefore(l.j, m.j) => IndexBefore(k.j, m.j)
      BY <2>1, IndexOrder
    <2>4. k.time >= l.time /\ l.time >= m.time
      BY <1>3, <2>1 DEF Before
    <2>5. CASE k.time > m.time
      BY <2>5 DEF Before
    <2>6. CASE k.time = m.time
      <3>1. k.time = l.time /\ l.time = m.time /\ ~ k.time > l.time /\ ~ l.time > m.time
        BY <2>1, <2>4, <2>6
      <3>2. IndexBefore(k.i, l.i) \/ (k.i = l.i /\ IndexBefore(k.j, l.j))
        BY <1>3, <3>1 DEF Before
      <3>3. IndexBefore(l.i, m.i) \/ (l.i = m.i /\ IndexBefore(l.j, m.j))
        BY <1>3, <3>1 DEF Before
      <3>4. IndexBefore(k.i, m.i) \/ (k.i = m.i /\ IndexBefore(k.j, m.j))
        BY <2>2, <2>3, <3>2, <3>3
      <3> QED
        BY <2>6, <3>4 DEF Before
    <2> QED
      BY <2>1, <2>4, <2>5, <2>6
  <1> QED
    BY <1>1, <1>2, <1>3 DEF Ordered

\* What an index row names, by its kind and its indices, and whether that is empty.
ItemOf(b, kind, i, j) ==
  IF kind = "B" THEN <<"B", Body[b].number>>
  ELSE IF kind = "U" THEN <<"U", Body[b].number, i>>
  ELSE IF kind = "TX" THEN <<"TX", Body[b].txs[i + 1].hash>>
  ELSE <<kind, Body[b].txs[i + 1].hash, j>>
EmptyOf(b, kind, i, j) == IF kind = "ITX" THEN Body[b].txs[i + 1].itx[j + 1].empty ELSE FALSE

\* The paths: a kind and a name, or a token and a name in between.
IsPlain(p) == \E k, x : p = <<k, x, "TIME">>
IsPaired(p) == \E k, x, y : p = <<k, x, y, "TIME">> /\ k \in {"ERC20", "ERC721", "ERC1155"} /\ y # "TIME"

\* The indices a row of a block can have.
Firsts(b) == {0} \cup Positions(Body[b].uncles) \cup Positions(Body[b].txs)
Seconds(b) ==
  {0} \cup UNION {Positions(Body[b].txs[i + 1].itx) \cup Positions(Body[b].txs[i + 1].logs) :
                  i \in Positions(Body[b].txs)}

\* A row is known from its block, its path and its indices.
IsRow(b, r) ==
  /\ r = Row(b, r.path, r.i, r.j, ItemOf(b, r.path[1], r.i, r.j), EmptyOf(b, r.path[1], r.i, r.j))
  /\ r.i \in Firsts(b) /\ r.j \in Seconds(b) /\ (IsPlain(r.path) \/ IsPaired(r.path))

\* How a row is made.
LEMMA RowMade ==
    ASSUME NEW b, NEW path, NEW i \in Firsts(b), NEW j \in Seconds(b), IsPlain(path) \/ IsPaired(path),
           NEW item, item = ItemOf(b, path[1], i, j), NEW empty, empty = EmptyOf(b, path[1], i, j)
    PROVE  IsRow(b, Row(b, path, i, j, item, empty))
  <1>1. PICK r : r = Row(b, path, i, j, item, empty)
    OBVIOUS
  <1>2. r.path = path /\ r.i = i /\ r.j = j
    BY <1>1 DEF Row
  <1> QED
    BY <1>1, <1>2 DEF IsRow

\* The rows of a block.
LEMMA RowsAreMade ==
    ASSUME NEW b \in DOMAIN Body, NEW r \in RowsOf[b]
    PROVE  IsRow(b, r)
  <1>0. HasLists(b) /\ r \in BlockRows(b) \cup UncleRows(b) \cup TxRows(b) \cup ItxRows(b)
                              \cup Erc20Rows(b) \cup Erc721Rows(b) \cup Erc1155Rows(b)
    BY TablesConstants DEF RowsOf
  <1>1. CASE r \in BlockRows(b)
    <2>1. PICK path : path = <<"B", Body[b].miner, "TIME">>
      OBVIOUS
    <2>2. r = Row(b, path, 0, 0, <<"B", Body[b].number>>, FALSE)
      BY <1>1, <2>1 DEF BlockRows
    <2>3. path[1] = "B" /\ IsPlain(path)
      BY <2>1 DEF IsPlain
    <2>4. <<"B", Body[b].number>> = ItemOf(b, path[1], 0, 0) /\ FALSE = EmptyOf(b, path[1], 0, 0)
      BY <2>3 DEF ItemOf, EmptyOf
    <2>5. 0 \in Firsts(b) /\ 0 \in Seconds(b)
      BY DEF Firsts, Seconds
    <2> QED
      BY <2>2, <2>3, <2>4, <2>5, RowMade
  <1>2. CASE r \in UncleRows(b)
    <2>0. PICK i \in Positions(Body[b].uncles) :
            r = Row(b, <<"U", Body[b].uncles[i + 1], "TIME">>, i, 0, <<"U", Body[b].number, i>>, FALSE)
      BY <1>2 DEF UncleRows
    <2>1. PICK path : path = <<"U", Body[b].uncles[i + 1], "TIME">>
      OBVIOUS
    <2>2. r = Row(b, path, i, 0, <<"U", Body[b].number, i>>, FALSE) /\ i \in Firsts(b) /\ 0 \in Seconds(b)
      BY <2>0, <2>1 DEF Firsts, Seconds
    <2>3. path[1] = "U" /\ IsPlain(path)
      BY <2>1 DEF IsPlain
    <2>4. <<"U", Body[b].number, i>> = ItemOf(b, path[1], i, 0) /\ FALSE = EmptyOf(b, path[1], i, 0)
      BY <2>3 DEF ItemOf, EmptyOf
    <2> QED
      BY <2>2, <2>3, <2>4, RowMade
  <1>3. CASE r \in TxRows(b)
    <2>0. PICK i \in Positions(Body[b].txs) :
            r = Row(b, <<"TX", Address, "TIME">>, i, 0, <<"TX", Body[b].txs[i + 1].hash>>, FALSE)
      BY <1>3 DEF TxRows
    <2>1. PICK path : path = <<"TX", Address, "TIME">>
      OBVIOUS
    <2>2. r = Row(b, path, i, 0, <<"TX", Body[b].txs[i + 1].hash>>, FALSE)
          /\ i \in Firsts(b) /\ 0 \in Seconds(b)
      BY <2>0, <2>1 DEF Firsts, Seconds
    <2>3. path[1] = "TX" /\ IsPlain(path)
      BY <2>1 DEF IsPlain
    <2>4. <<"TX", Body[b].txs[i + 1].hash>> = ItemOf(b, path[1], i, 0) /\ FALSE = EmptyOf(b, path[1], i, 0)
      BY <2>3 DEF ItemOf, EmptyOf
    <2> QED
      BY <2>2, <2>3, <2>4, RowMade
  <1>4. CASE r \in ItxRows(b)
    <2>0. PICK i \in Positions(Body[b].txs) :
            \E j \in Positions(Body[b].txs[i + 1].itx) :
              r = Row(b, <<"ITX", Address, "TIME">>, i, j, <<"ITX", Body[b].txs[i + 1].hash, j>>,
                      Body[b].txs[i + 1].itx[j + 1].empty)
      BY <1>4 DEF ItxRows
    <2>1. PICK j \in Positions(Body[b].txs[i + 1].itx) :
              r = Row(b, <<"ITX", Address, "TIME">>, i, j, <<"ITX", Body[b].txs[i + 1].hash, j>>,
                      Body[b].txs[i + 1].itx[j + 1].empty)
      BY <2>0
    <2>2. PICK path : path = <<"ITX", Address, "TIME">>
      OBVIOUS
    <2>3. r = Row(b, path, i, j, <<"ITX", Body[b].txs[i + 1].hash, j>>, Body[b].txs[i + 1].itx[j + 1].empty)
          /\ i \in Firsts(b) /\ j \in Seconds(b)
      BY <2>1, <2>2 DEF Firsts, Seconds
    <2>4. path[1] = "ITX" /\ IsPlain(path)
      BY <2>2 DEF IsPlain
    <2>5. <<"ITX", Body[b].txs[i + 1].hash, j>> = ItemOf(b, path[1], i, j)
          /\ Body[b].txs[i + 1].itx[j + 1].empty = EmptyOf(b, path[1], i, j)
      BY <2>4 DEF ItemOf, EmptyOf
    <2> QED
      BY <2>3, <2>4, <2>5, RowMade
  <1>5. ASSUME NEW kind \in {"ERC20", "ERC721", "ERC1155"}, r \in TransferRows(b, kind)
        PROVE  IsRow(b, r)
    <2>0. PICK i \in Positions(Body[b].txs) :
            r \in UNION {{Row(b, path, i, j, <<kind, Body[b].txs[i + 1].hash, j>>, FALSE) :
                            path \in TransferPaths(kind, Body[b].txs[i + 1].logs[j + 1])} :
                         j \in {n \in Positions(Body[b].txs[i + 1].logs) :
                                  Body[b].txs[i + 1].logs[n + 1].kind = kind}}
      BY <1>5, Zenon DEF TransferRows
    <2>1. PICK j \in Positions(Body[b].txs[i + 1].logs) :
            r \in {Row(b, path, i, j, <<kind, Body[b].txs[i + 1].hash, j>>, FALSE) :
                     path \in TransferPaths(kind, Body[b].txs[i + 1].logs[j + 1])}
      BY <2>0
    <2>2. PICK log : log = Body[b].txs[i + 1].logs[j + 1]
      OBVIOUS
    <2>3. PICK path \in TransferPaths(kind, log) :
                r = Row(b, path, i, j, <<kind, Body[b].txs[i + 1].hash, j>>, FALSE)
      BY <2>1, <2>2
    <2>4. i \in Firsts(b) /\ j \in Seconds(b)
      BY <2>1 DEF Firsts, Seconds
    <2>5. log.from # "TIME" /\ log.to # "TIME"
      BY <1>0, <2>2 DEF HasLists
    <2>6. path[1] = kind /\ (IsPlain(path) \/ IsPaired(path))
      BY <1>5, <2>3, <2>5 DEF TransferPaths, IsPlain, IsPaired
    <2>7. <<kind, Body[b].txs[i + 1].hash, j>> = ItemOf(b, path[1], i, j)
          /\ FALSE = EmptyOf(b, path[1], i, j)
      BY <1>5, <2>6 DEF ItemOf, EmptyOf
    <2> QED
      BY <2>3, <2>4, <2>6, <2>7, RowMade
  <1> QED
    BY <1>0, <1>1, <1>2, <1>3, <1>4, <1>5 DEF Erc20Rows, Erc721Rows, Erc1155Rows

\* What finitely many values lead to is finite.
LEMMA Images ==
    ASSUME NEW Arguments, IsFiniteSet(Arguments), NEW f, DOMAIN f = Arguments, f = [x \in Arguments |-> f[x]],
           NEW T, \A y \in T : \E x \in Arguments : y = f[x]
    PROVE  IsFiniteSet(T)
  <1>1. PICK I : I = {f[x] : x \in Arguments}
    OBVIOUS
  <1>2. f \in Surjection(Arguments, I)
    BY <1>1 DEF Surjection
  <1>3. T \subseteq I
    BY <1>1
  <1> QED
    BY <1>2, <1>3, FS_Surjection, FS_Subset

\* And finitely many finite sets have finitely many elements.
LEMMA Unions ==
    ASSUME NEW Arguments, IsFiniteSet(Arguments), NEW f, DOMAIN f = Arguments, f = [x \in Arguments |-> f[x]],
           \A x \in Arguments : IsFiniteSet(f[x]),
           NEW T, \A y \in T : \E x \in Arguments : y \in f[x]
    PROVE  IsFiniteSet(T)
  <1>1. PICK I : I = {f[x] : x \in Arguments}
    OBVIOUS
  <1>2. IsFiniteSet(I) /\ \A s \in I : IsFiniteSet(s)
    <2>1. \A y \in I : \E x \in Arguments : y = f[x]
      BY <1>1
    <2> QED
      BY <1>1, <2>1, Images
  <1>3. T \subseteq UNION I
    BY <1>1
  <1> QED
    BY <1>2, <1>3, FS_UNION, FS_Subset

\* The indices are numbers, and finitely many.
LEMMA IndicesFinite ==
    ASSUME NEW b \in DOMAIN Body
    PROVE  /\ IsFiniteSet(Firsts(b)) /\ Firsts(b) \subseteq Nat
           /\ IsFiniteSet(Seconds(b)) /\ Seconds(b) \subseteq Nat
  <1>0. HasLists(b)
    BY TablesConstants
  <1>1. ASSUME NEW list, Len(list) \in Nat
        PROVE  IsFiniteSet(Positions(list)) /\ Positions(list) \subseteq Nat
    <2>1. IsFiniteSet(0 .. Len(list) - 1)
      BY <1>1, FS_Interval
    <2> QED
      BY <2>1 DEF Positions
  <1>2. IsFiniteSet({0})
    BY FS_Singleton
  <1>3. IsFiniteSet(Firsts(b)) /\ Firsts(b) \subseteq Nat
    <2>1. Len(Body[b].uncles) \in Nat /\ Len(Body[b].txs) \in Nat
      BY <1>0 DEF HasLists
    <2>2. IsFiniteSet({0} \cup Positions(Body[b].uncles))
      BY <1>1, <1>2, <2>1, FS_Union
    <2>3. IsFiniteSet(({0} \cup Positions(Body[b].uncles)) \cup Positions(Body[b].txs))
      BY <1>1, <2>1, <2>2, FS_Union
    <2>4. Positions(Body[b].uncles) \subseteq Nat /\ Positions(Body[b].txs) \subseteq Nat
      BY <1>1, <2>1
    <2> QED
      BY <2>3, <2>4 DEF Firsts
  <1>4. IsFiniteSet(Seconds(b)) /\ Seconds(b) \subseteq Nat
    <2>1. PICK txs : txs = Body[b].txs
      OBVIOUS
    <2>2. Len(txs) \in Nat
          /\ \A i \in Positions(txs) : Len(txs[i + 1].itx) \in Nat /\ Len(txs[i + 1].logs) \in Nat
      BY <1>0, <2>1 DEF HasLists
    <2>3. PICK T : T = UNION {Positions(txs[i + 1].itx) \cup Positions(txs[i + 1].logs) : i \in Positions(txs)}
      OBVIOUS
    <2>4. \A y \in T : \E i \in Positions(txs) : y \in Positions(txs[i + 1].itx) \cup Positions(txs[i + 1].logs)
      BY <2>3
    <2>5. PICK f : f = [i \in Positions(txs) |-> Positions(txs[i + 1].itx) \cup Positions(txs[i + 1].logs)]
      OBVIOUS
    <2>6. \A i \in Positions(txs) : IsFiniteSet(f[i]) /\ f[i] \subseteq Nat
      BY <1>1, <2>2, <2>5, FS_Union
    <2>7. IsFiniteSet(Positions(txs))
      BY <1>1, <2>2
    <2>8. \A y \in T : \E i \in Positions(txs) : y \in f[i]
      BY <2>4, <2>5
    <2>9. DOMAIN f = Positions(txs) /\ f = [i \in Positions(txs) |-> f[i]]
      BY <2>5
    <2>10. IsFiniteSet(T)
      BY <2>6, <2>7, <2>8, <2>9, Unions
    <2>11. T \subseteq Nat
      BY <2>6, <2>8
    <2>12. IsFiniteSet({0} \cup T)
      BY <1>2, <2>10, FS_Union
    <2>13. Seconds(b) = {0} \cup T
      BY <2>1, <2>3 DEF Seconds
    <2> QED
      BY <2>11, <2>12, <2>13
  <1> QED
    BY <1>3, <1>4

\* The path of the rows of a page.
PathOf(g) == IF g.shared = 2 THEN <<g.path[1], g.path[2], "TIME">> ELSE g.path

\* The first two parts of a path.
LEMMA FirstTwo ==
    ASSUME NEW p
    PROVE  SubSeq(p, 1, 2) = <<p[1], p[2]>>
  <1>1. SubSeq(p, 1, 2) = [i \in 1 .. 2 |-> p[i]]
    OBVIOUS
  <1>2. [i \in 1 .. 2 |-> p[i]] = <<p[1], p[2]>>
    OBVIOUS
  <1> QED
    BY <1>1, <1>2

\* And the first three.
LEMMA FirstThree ==
    ASSUME NEW p
    PROVE  SubSeq(p, 1, 3) = <<p[1], p[2], p[3]>>
  <1>1. SubSeq(p, 1, 3) = [i \in 1 .. 3 |-> p[i]]
    OBVIOUS
  <1>2. [i \in 1 .. 3 |-> p[i]] = <<p[1], p[2], p[3]>>
    OBVIOUS
  <1> QED
    BY <1>1, <1>2

\* Every table lists the rows of one path.
LEMMA PagesHavePaths ==
    ASSUME NEW g \in Pages, NEW p, IsPlain(p) \/ IsPaired(p),
           SubSeq(p, 1, g.shared) = SubSeq(g.path, 1, g.shared)
    PROVE  p = PathOf(g)
  <1>0. "ALL" # "TIME" /\ Address # "TIME"
    BY TablesConstants
  <1>1. CASE g = Page(g.path, 2, FALSE) /\ g.path \in {<<"B", Address>>, <<"U", Address>>}
    <2>1. PICK kind \in {"B", "U"} : g.path = <<kind, Address>>
      BY <1>1
    <2>2. g.shared = 2
      BY <1>1 DEF Page
    <2>3. SubSeq(p, 1, 2) = <<kind, Address>>
      BY <2>1, <2>2, FirstTwo, FirstThree
    <2>4. PathOf(g) = <<kind, Address, "TIME">>
      BY <2>1, <2>2 DEF PathOf
    <2>5. CASE IsPlain(p)
      <3>1. PICK k, x : p = <<k, x, "TIME">>
        BY <2>5 DEF IsPlain
      <3>2. k = kind /\ x = Address
        BY <2>3, <3>1, FirstTwo, FirstThree
      <3> QED
        BY <2>4, <3>1, <3>2
    <2>6. CASE IsPaired(p)
      <3>1. PICK k, x, y : p = <<k, x, y, "TIME">> /\ k \in {"ERC20", "ERC721", "ERC1155"}
        BY <2>6 DEF IsPaired
      <3>2. k = kind
        BY <2>3, <3>1, FirstTwo, FirstThree
      <3> QED
        BY <3>1, <3>2
    <2> QED
      BY <2>5, <2>6
  <1>2. ASSUME NEW kind, g.path = <<kind, Address, "TIME">>, g.shared = 3
        PROVE  p = PathOf(g)
    <2>3. SubSeq(p, 1, 3) = <<kind, Address, "TIME">>
      BY <1>2, FirstTwo, FirstThree
    <2>4. PathOf(g) = <<kind, Address, "TIME">>
      BY <1>2 DEF PathOf
    <2>5. CASE IsPlain(p)
      <3>1. PICK k, x : p = <<k, x, "TIME">>
        BY <2>5 DEF IsPlain
      <3>2. k = kind /\ x = Address
        BY <2>3, <3>1, FirstTwo, FirstThree
      <3> QED
        BY <2>4, <3>1, <3>2
    <2>6. CASE IsPaired(p)
      <3>1. PICK k, x, y : p = <<k, x, y, "TIME">> /\ y # "TIME"
        BY <2>6 DEF IsPaired
      <3>2. y = "TIME"
        BY <2>3, <3>1, FirstTwo, FirstThree
      <3> QED
        BY <3>1, <3>2
    <2> QED
      BY <2>5, <2>6
  <1>3. ASSUME NEW name, name # "TIME", g.path = <<"ERC20", Token, name, "TIME">>, g.shared = 3
        PROVE  p = PathOf(g)
    <2>3. SubSeq(p, 1, 3) = <<"ERC20", Token, name>>
      BY <1>3, FirstTwo, FirstThree
    <2>4. PathOf(g) = <<"ERC20", Token, name, "TIME">>
      BY <1>3 DEF PathOf
    <2>5. CASE IsPlain(p)
      <3>1. PICK k, x : p = <<k, x, "TIME">>
        BY <2>5 DEF IsPlain
      <3>2. name = "TIME"
        BY <2>3, <3>1, FirstTwo, FirstThree
      <3> QED
        BY <1>3, <3>2
    <2>6. CASE IsPaired(p)
      <3>1. PICK k, x, y : p = <<k, x, y, "TIME">>
        BY <2>6 DEF IsPaired
      <3>2. k = "ERC20" /\ x = Token /\ y = name
        BY <2>3, <3>1, FirstTwo, FirstThree
      <3> QED
        BY <2>4, <3>1, <3>2
    <2> QED
      BY <2>5, <2>6
  <1>4. CASE g \in {Transactions, InternalTransactions, Erc20, Erc721, Erc1155}
    <2>1. \E kind : g.path = <<kind, Address, "TIME">> /\ g.shared = 3
      BY <1>4 DEF Transactions, InternalTransactions, Erc20, Erc721, Erc1155, Page
    <2> QED
      BY <1>2, <2>1
  <1>5. CASE g \in {TokenTransfers, AddressTransfers}
    <2>1. \E name : name # "TIME" /\ g.path = <<"ERC20", Token, name, "TIME">> /\ g.shared = 3
      BY <1>0, <1>5 DEF TokenTransfers, AddressTransfers, Page
    <2> QED
      BY <1>3, <2>1
  <1>6. CASE g \in {BlocksMined, UnclesMined}
    BY <1>1, <1>6 DEF BlocksMined, UnclesMined, Page
  <1> QED
    BY <1>4, <1>5, <1>6 DEF Pages

\* The rows of a table are ordered, and finitely many.
LEMMA ListedIsOrdered ==
    ASSUME NEW g \in Pages
    PROVE  Ordered(Listed[g]) /\ IsFiniteSet(Listed[g])
  <1>1. ASSUME NEW b \in DOMAIN Body
        PROVE  ListedOf[g][b] = {r \in RowsOf[b] : InRange(g, r)}
    BY DEF ListedOf
  <1>2. Listed[g] = UNION {ListedOf[g][b] : b \in DOMAIN Body}
    BY DEF Listed
  <1>3. ASSUME NEW r \in Listed[g]
        PROVE  \E b \in DOMAIN Body : IsRow(b, r) /\ r.path = PathOf(g) /\ r.time = Body[b].time
    <2>1. PICK b \in DOMAIN Body : r \in RowsOf[b] /\ InRange(g, r)
      BY <1>1, <1>2
    <2>2. IsRow(b, r)
      BY <2>1, RowsAreMade
    <2>3. r.path = PathOf(g)
      BY <2>1, <2>2, PagesHavePaths DEF InRange, IsRow
    <2>4. r.time = Body[b].time
      BY <2>2 DEF IsRow, Row
    <2> QED
      BY <2>2, <2>3, <2>4
  <1>4. Numbered(Listed[g])
    BY <1>3, TablesConstants, IndicesFinite DEF Numbered, IsRow, HasLists
  <1>5. ASSUME NEW r \in Listed[g], NEW s \in Listed[g], r.time = s.time, r.i = s.i, r.j = s.j
        PROVE  r = s
    <2>1. PICK b \in DOMAIN Body : IsRow(b, r) /\ r.path = PathOf(g) /\ r.time = Body[b].time
      BY <1>3
    <2>2. PICK c \in DOMAIN Body : IsRow(c, s) /\ s.path = PathOf(g) /\ s.time = Body[c].time
      BY <1>3
    <2>3. b = c
      BY <1>5, <2>1, <2>2, TablesConstants
    <2>4. PICK p, i, j : p = r.path /\ i = r.i /\ j = r.j
      OBVIOUS
    <2>5. r = Row(b, p, i, j, ItemOf(b, p[1], i, j), EmptyOf(b, p[1], i, j))
      BY <2>1, <2>4 DEF IsRow
    <2>6. s = Row(b, p, i, j, ItemOf(b, p[1], i, j), EmptyOf(b, p[1], i, j))
      BY <1>5, <2>1, <2>2, <2>3, <2>4 DEF IsRow
    <2> QED
      BY <2>5, <2>6
  <1>6. Ordered(Listed[g])
    BY <1>4, <1>5, RowsOrdered
  <1>7. IsFiniteSet(Listed[g])
    <2>1. PICK f : f = [b \in DOMAIN Body |-> ListedOf[g][b]]
      OBVIOUS
    <2>2. ASSUME NEW b \in DOMAIN Body
          PROVE  IsFiniteSet(f[b])
      <3>1. PICK both, p : both = Firsts(b) \X Seconds(b) /\ p = PathOf(g)
        OBVIOUS
      <3>2. IsFiniteSet(both)
        BY <3>1, IndicesFinite, FS_Product
      <3>3. PICK h : h = [x \in both |-> Row(b, p, x[1], x[2], ItemOf(b, p[1], x[1], x[2]),
                                               EmptyOf(b, p[1], x[1], x[2]))]
        OBVIOUS
      <3>4. ASSUME NEW r \in f[b]
            PROVE  \E x \in both : r = h[x]
        <4>1. r \in RowsOf[b] /\ InRange(g, r)
          BY <1>1, <2>1
        <4>2. IsRow(b, r)
          BY <4>1, RowsAreMade
        <4>3. r.path = p
          BY <3>1, <4>1, <4>2, PagesHavePaths DEF InRange, IsRow
        <4>4. PICK i, j : i = r.i /\ j = r.j
          OBVIOUS
        <4>5. r = Row(b, p, i, j, ItemOf(b, p[1], i, j), EmptyOf(b, p[1], i, j))
              /\ i \in Firsts(b) /\ j \in Seconds(b)
          BY <4>2, <4>3, <4>4 DEF IsRow
        <4>6. PICK x : x = <<i, j>>
          OBVIOUS
        <4>7. x \in both /\ x[1] = i /\ x[2] = j
          BY <3>1, <4>5, <4>6
        <4>8. r = h[x]
          BY <3>3, <4>5, <4>7
        <4> QED
          BY <4>7, <4>8
      <3>5. DOMAIN h = both /\ h = [x \in both |-> h[x]]
        BY <3>3
      <3> QED
        BY <3>2, <3>4, <3>5, Images
    <2>3. \A r \in Listed[g] : \E b \in DOMAIN Body : r \in f[b]
      BY <1>2, <2>1
    <2>4. DOMAIN f = DOMAIN Body /\ f = [b \in DOMAIN Body |-> f[b]]
      BY <2>1
    <2> QED
      BY <2>2, <2>3, <2>4, Unions, TablesConstants
  <1> QED
    BY <1>6, <1>7

\* A sequence of some rows, in order and without a gap.
Sorts(list, some) ==
  /\ list \in Seq(some) /\ Len(list) = Cardinality(some)
  /\ \A m, n \in 1 .. Len(list) : m < n => Before(list[m], list[n])
  /\ \A r \in some : \E n \in 1 .. Len(list) : list[n] = r

\* How many rows come before one.
RankIn(some, r) == Cardinality({q \in some : Before(q, r)})

\* The rows of a finite set are counted off: each has its rank.
LEMMA RanksDiffer ==
    ASSUME NEW L, Ordered(L), NEW some, some \subseteq L, IsFiniteSet(some)
    PROVE  /\ Cardinality(some) \in Nat
           /\ \A r \in some : RankIn(some, r) \in 0 .. Cardinality(some) - 1
           /\ \A r, s \in some : Before(r, s) => RankIn(some, r) < RankIn(some, s)
           /\ \A n \in 0 .. Cardinality(some) - 1 : \E r \in some : RankIn(some, r) = n
  <1>1. PICK N : N = Cardinality(some)
    OBVIOUS
  <1>2. N \in Nat
    BY <1>1, FS_CardinalityType
  <1>3. ASSUME NEW r \in some
        PROVE  RankIn(some, r) \in 0 .. N - 1
    <2>1. PICK low : low = {q \in some : Before(q, r)}
      OBVIOUS
    <2>2. low \subseteq some \ {r}
      BY <2>1 DEF Ordered
    <2>3. IsFiniteSet(some \ {r}) /\ Cardinality(some \ {r}) = N - 1
      BY <1>1, FS_RemoveElement
    <2>4. IsFiniteSet(low) /\ Cardinality(low) <= N - 1
      BY <2>2, <2>3, FS_Subset
    <2>5. Cardinality(low) \in Nat
      BY <2>4, FS_CardinalityType
    <2>6. RankIn(some, r) = Cardinality(low)
      BY <2>1 DEF RankIn
    <2> QED
      BY <1>2, <2>4, <2>5, <2>6
  <1>4. ASSUME NEW r \in some, NEW s \in some, Before(r, s)
        PROVE  RankIn(some, r) < RankIn(some, s)
    <2>1. PICK low, high : low = {q \in some : Before(q, r)} /\ high = {q \in some : Before(q, s)}
      OBVIOUS
    <2>2. r \in high /\ low \subseteq high \ {r}
      BY <1>4, <2>1 DEF Ordered
    <2>3. IsFiniteSet(high)
      BY <2>1, FS_Subset
    <2>4. IsFiniteSet(high \ {r}) /\ Cardinality(high \ {r}) = Cardinality(high) - 1
      BY <2>2, <2>3, FS_RemoveElement
    <2>5. IsFiniteSet(low) /\ Cardinality(low) <= Cardinality(high) - 1
      BY <2>2, <2>4, FS_Subset
    <2>6. Cardinality(low) \in Nat /\ Cardinality(high) \in Nat
      BY <2>3, <2>5, FS_CardinalityType
    <2>7. RankIn(some, r) = Cardinality(low) /\ RankIn(some, s) = Cardinality(high)
      BY <2>1 DEF RankIn
    <2> QED
      BY <2>5, <2>6, <2>7
  <1>5. PICK I, f : I = 0 .. N - 1 /\ f = [r \in some |-> RankIn(some, r)]
    OBVIOUS
  <1>6. IsFiniteSet(I) /\ Cardinality(I) = N
    <2>1. IsFiniteSet(0 .. N - 1) /\ Cardinality(0 .. N - 1) = IF 0 > N - 1 THEN 0 ELSE (N - 1) - 0 + 1
      BY <1>2, FS_Interval
    <2> QED
      BY <1>2, <1>5, <2>1
  <1>7. f \in Injection(some, I)
    <2>1. f \in [some -> I]
      BY <1>3, <1>5
    <2>2. ASSUME NEW r \in some, NEW s \in some, f[r] = f[s]
          PROVE  r = s
      <3>1. RankIn(some, r) = RankIn(some, s) /\ RankIn(some, r) \in Int
        BY <1>3, <1>5, <2>2
      <3>2. ~ Before(r, s) /\ ~ Before(s, r)
        BY <1>4, <3>1
      <3> QED
        BY <3>2 DEF Ordered
    <2> QED
      BY <2>1, <2>2 DEF Injection, IsInjective
  <1>8. f \in Surjection(some, I)
    BY <1>1, <1>6, <1>7, FS_Injection
  <1>9. ASSUME NEW n \in 0 .. N - 1
        PROVE  \E r \in some : RankIn(some, r) = n
    <2>1. \E r \in some : f[r] = n
      BY <1>5, <1>8 DEF Surjection
    <2> QED
      BY <1>5, <2>1
  <1> QED
    BY <1>1, <1>2, <1>3, <1>4, <1>9

\* InOrder sorts rows.
LEMMA InOrderSorts ==
    ASSUME NEW L, Ordered(L), NEW some, some \subseteq L, IsFiniteSet(some)
    PROVE  Sorts(InOrder(some), some)
  <1>1. PICK N, list : N = Cardinality(some) /\ list = InOrder(some)
    OBVIOUS
  <1>2. /\ N \in Nat
        /\ \A r \in some : RankIn(some, r) \in 0 .. N - 1
        /\ \A r, s \in some : Before(r, s) => RankIn(some, r) < RankIn(some, s)
        /\ \A n \in 0 .. N - 1 : \E r \in some : RankIn(some, r) = n
    BY <1>1, RanksDiffer
  <1>3. list = [n \in 1 .. N |-> CHOOSE r \in some : RankIn(some, r) = n - 1]
    BY <1>1 DEF InOrder, RankIn
  <1>4. ASSUME NEW n \in 1 .. N
        PROVE  list[n] \in some /\ RankIn(some, list[n]) = n - 1
    <2>1. n - 1 \in 0 .. N - 1
      BY <1>2
    <2>2. \E r \in some : RankIn(some, r) = n - 1
      BY <1>2, <2>1
    <2>3. list[n] = CHOOSE r \in some : RankIn(some, r) = n - 1
      BY <1>3
    <2> QED
      BY <2>2, <2>3
  <1>5. list \in Seq(some) /\ Len(list) = N
    <2>1. list \in [1 .. N -> some]
      BY <1>3, <1>4
    <2> QED
      BY <1>2, <2>1
  <1>6. ASSUME NEW m \in 1 .. N, NEW n \in 1 .. N, m < n
        PROVE  Before(list[m], list[n])
    <2>1. PICK r, s : r = list[m] /\ s = list[n]
      OBVIOUS
    <2>2. r \in some /\ s \in some /\ RankIn(some, r) = m - 1 /\ RankIn(some, s) = n - 1
      BY <1>4, <2>1
    <2>3. ~ RankIn(some, s) < RankIn(some, r) /\ RankIn(some, r) # RankIn(some, s)
      BY <1>6, <2>2
    <2>4. r # s /\ ~ Before(s, r)
      BY <1>2, <2>2, <2>3
    <2> QED
      BY <2>1, <2>2, <2>4 DEF Ordered
  <1>7. ASSUME NEW r \in some
        PROVE  \E n \in 1 .. N : list[n] = r
    <2>1. PICK n : n = RankIn(some, r) + 1
      OBVIOUS
    <2>2. n \in 1 .. N /\ RankIn(some, r) = n - 1 /\ RankIn(some, r) \in Int
      BY <1>2, <2>1
    <2>3. list[n] \in some /\ RankIn(some, list[n]) = n - 1
      BY <1>4, <2>2
    <2>4. ~ Before(r, list[n]) /\ ~ Before(list[n], r)
      BY <1>2, <2>2, <2>3
    <2>5. list[n] = r
      BY <2>3, <2>4 DEF Ordered
    <2> QED
      BY <2>2, <2>5
  <1> QED
    BY <1>1, <1>5, <1>6, <1>7 DEF Sorts

\* The last of some rows.
LEMMA FarthestRow ==
    ASSUME NEW L, Ordered(L), NEW some, some \subseteq L, IsFiniteSet(some), some # {}
    PROVE  \E r \in some : \A q \in some : q = r \/ Before(q, r)
  <1>1. PICK list : list = InOrder(some)
    OBVIOUS
  <1>2. Sorts(list, some)
    BY <1>1, InOrderSorts
  <1>3. PICK N : N = Len(list) /\ N \in Nat
    BY <1>2 DEF Sorts
  <1>4. N \in 1 .. N
    <2>1. PICK q \in some : TRUE
      OBVIOUS
    <2>2. \E n \in 1 .. N : list[n] = q
      BY <1>2, <1>3 DEF Sorts
    <2> QED
      BY <1>3, <2>2
  <1>5. list[N] \in some
    BY <1>2, <1>3, <1>4 DEF Sorts
  <1>6. ASSUME NEW q \in some
        PROVE  q = list[N] \/ Before(q, list[N])
    <2>1. PICK n \in 1 .. N : list[n] = q
      BY <1>2, <1>3 DEF Sorts
    <2>2. n = N \/ n < N
      BY <1>3, <2>1
    <2> QED
      BY <1>2, <1>3, <1>4, <2>1, <2>2 DEF Sorts
  <1> QED
    BY <1>5, <1>6

\* The rows of the next page: they come before those that wait, and there are
\* some when rows wait.
LEMMA NextRowsAre ==
    ASSUME NEW L, Ordered(L), NEW behind, behind \subseteq L, IsFiniteSet(behind),
           NEW next, next = {r \in behind : RankIn(behind, r) < PageSize}
    PROVE  /\ next \subseteq behind /\ (next = {} => behind = {})
           /\ \A r \in behind : r \in next \/ \A q \in next : Before(q, r)
  <1>1. PICK N : N = Cardinality(behind)
    OBVIOUS
  <1>2. /\ N \in Nat
        /\ \A r \in behind : RankIn(behind, r) \in 0 .. N - 1
        /\ \A r, s \in behind : Before(r, s) => RankIn(behind, r) < RankIn(behind, s)
        /\ \A n \in 0 .. N - 1 : \E r \in behind : RankIn(behind, r) = n
    BY <1>1, RanksDiffer
  <1>3. ASSUME behind # {}
        PROVE  next # {}
    <2>1. PICK r \in behind : TRUE
      BY <1>3
    <2>2. 0 \in 0 .. N - 1
      BY <1>2
    <2>3. PICK s \in behind : RankIn(behind, s) = 0
      BY <1>2, <2>2
    <2> QED
      BY <2>3, TablesConstants
  <1>4. ASSUME NEW r \in behind, r \notin next, NEW q \in next
        PROVE  Before(q, r)
    <2>1. /\ q \in behind /\ RankIn(behind, q) < PageSize /\ ~ RankIn(behind, r) < PageSize
          /\ RankIn(behind, q) \in Int /\ RankIn(behind, r) \in Int /\ PageSize \in Int
      BY <1>2, <1>4, TablesConstants
    <2>2. RankIn(behind, q) < RankIn(behind, r)
      BY <2>1
    <2>3. q # r /\ ~ Before(r, q)
      BY <1>2, <2>1, <2>2
    <2> QED
      BY <2>1, <2>3 DEF Ordered
  <1> QED
    BY <1>3, <1>4

-----------------------------------------------------------------------------
(* The reader of a page and the indexer behind it *)

\* A row on the screen, or one that a page may leave out.
Read(r) == (page.skips /\ r.empty) \/ \E n \in DOMAIN shown : shown[n] = r

\* The half of a block's keys that is still to be written or deleted.
JobFits ==
  job = NoJob \/ (job.block \in DOMAIN Body /\ job.left \subseteq KeysRead(job.block))

\* The screen is sorted, and the token stands behind all that is on it.
ScreenFits ==
  /\ \A m, n \in DOMAIN shown : m < n => Before(shown[m], shown[n])
  /\ \A n \in DOMAIN shown : ~ After(token, shown[n])

\* A row that was there all the time is read, or the token is before it.
StableFits ==
  /\ \A r \in stable : r \in present /\ ItemKey(r) \in present
  /\ \A r \in stable : After(token, r) \/ Read(r)

\* Between the reads: the next page begins behind the token and has no gap.
PageFits ==
  /\ phase = "items" =>
       /\ rows # {} /\ \A q \in rows : After(token, q)
       /\ \A r \in stable : After(token, r) => r \in rows \/ \A q \in rows : Before(q, r)
  /\ phase = "end" => \A r \in stable : ~ After(token, r)

TablesInv == TablesTypeOK /\ JobFits /\ ScreenFits /\ StableFits /\ PageFits

\* What the keys of a block are on a page.
LEMMA KeysAreListed ==
    ASSUME page \in Pages, NEW b \in DOMAIN Body
    PROVE  KeysRead(b) \subseteq Listed[page] \cup {ItemKey(r) : r \in Listed[page]}
  <1>1. ListedOf[page][b] \subseteq Listed[page]
    BY DEF Listed
  <1> QED
    BY <1>1 DEF KeysRead

\* At first a page is not read, and nothing is on the screen.
LEMMA TablesInvInit ==
    ASSUME TablesInit \/ TablesIdle
    PROVE  TablesInv
  <1>1. /\ page \in Pages /\ job = NoJob /\ jobs = 0 /\ phase = "idle" /\ token = NoToken
        /\ rows = {} /\ shown = <<>> /\ stable = {}
    BY DEF TablesInit, TablesIdle, Pages
  <1>2. whole \subseteq DOMAIN Body
    <2>1. CASE TablesInit
      <3>1. PICK p \in Chains : \E n \in DOMAIN p : whole = {p[i] : i \in 1 .. n}
        BY <2>1 DEF TablesInit
      <3>2. PICK n \in DOMAIN p : whole = {p[i] : i \in 1 .. n}
        BY <3>1
      <3>3. p \in Seq(DOMAIN Body)
        BY TablesConstants
      <3>4. \A i \in 1 .. n : p[i] \in DOMAIN Body
        BY <3>2, <3>3
      <3> QED
        BY <3>2, <3>4
    <2> QED
      BY <2>1 DEF TablesIdle, TablesInit
  <1>3. present \subseteq Listed[page] \cup {ItemKey(r) : r \in Listed[page]}
    <2>1. \A k \in present : \E b \in DOMAIN Body : k \in KeysRead(b)
      BY <1>2 DEF TablesInit, TablesIdle
    <2> QED
      BY <1>1, <2>1, KeysAreListed
  <1>4. TablesTypeOK
    BY <1>1, <1>2, <1>3, TablesConstants DEF TablesTypeOK
  <1>5. DOMAIN shown = {}
    BY <1>1
  <1> QED
    BY <1>1, <1>4, <1>5 DEF TablesInv, JobFits, ScreenFits, StableFits, PageFits

\* The reader does not move, and of the rows that were there all the time some
\* may be gone.
LEMMA IndexerKeeps ==
    ASSUME TablesInv, TablesTypeOK', JobFits', UNCHANGED <<page, phase, token, rows, shown>>,
           stable' \subseteq stable, \A r \in stable' : r \in present' /\ ItemKey(r) \in present'
    PROVE  TablesInv'
  <1>1. ScreenFits'
    BY DEF TablesInv, ScreenFits
  <1>2. StableFits'
    BY DEF TablesInv, StableFits, Read
  <1>3. PageFits'
    BY DEF TablesInv, PageFits
  <1> QED
    BY <1>1, <1>2, <1>3 DEF TablesInv

\* A bulk write begins: some of its keys are in.
LEMMA BeginWriteKeeps ==
    ASSUME TablesInv, NEW b \in DOMAIN Body, BeginWrite(b)
    PROVE  TablesInv'
  <1>1. PICK some \in SUBSET KeysRead(b) :
          /\ present' = present \cup some
          /\ job' = [block |-> b, kind |-> "write", left |-> KeysRead(b) \ some]
    BY DEF BeginWrite
  <1>2. /\ UNCHANGED <<page, whole, phase, token, rows, shown, stable>>
        /\ jobs' = jobs + 1 /\ jobs < MaxJobs
    BY DEF BeginWrite
  <1>3. KeysRead(b) \subseteq Listed[page] \cup {ItemKey(r) : r \in Listed[page]}
    BY KeysAreListed DEF TablesInv, TablesTypeOK
  <1>4. TablesTypeOK'
    <2>1. jobs' \in 0 .. MaxJobs
      BY <1>2, TablesConstants DEF TablesInv, TablesTypeOK
    <2>2. present' \subseteq Listed[page] \cup {ItemKey(r) : r \in Listed[page]}
      BY <1>1, <1>3 DEF TablesInv, TablesTypeOK
    <2> QED
      BY <1>2, <2>1, <2>2 DEF TablesInv, TablesTypeOK
  <1>5. job'.block = b /\ job'.left \subseteq KeysRead(b) /\ KeysRead(b)' = KeysRead(b)
    BY <1>1, <1>2 DEF KeysRead
  <1>6. JobFits'
    <2>1. KeysRead(b)' = KeysRead(b) /\ job'.block = b
      BY <1>5
    <2>2. job'.left \subseteq ListedOf[page'][b] \cup {ItemKey(r) : r \in ListedOf[page'][b]}
      BY <1>2, <1>5 DEF KeysRead
    <2> QED
      BY <2>1, <2>2 DEF JobFits, KeysRead
  <1>7. \A r \in stable' : r \in present' /\ ItemKey(r) \in present'
    BY <1>1, <1>2 DEF TablesInv, StableFits
  <1> QED
    BY <1>2, <1>4, <1>6, <1>7, IndexerKeeps

\* A bulk delete begins: some of the keys are gone.
LEMMA BeginDeleteKeeps ==
    ASSUME TablesInv, NEW b \in DOMAIN Body, BeginDelete(b)
    PROVE  TablesInv'
  <1>1. PICK some \in SUBSET KeysRead(b) :
          /\ present' = present \ some
          /\ job' = [block |-> b, kind |-> "delete", left |-> KeysRead(b) \ some]
    BY DEF BeginDelete
  <1>2. /\ UNCHANGED <<page, phase, token, rows, shown>> /\ whole' = whole \ {b}
        /\ jobs' = jobs + 1 /\ jobs < MaxJobs /\ stable' = stable \cap Readable(present')
    BY DEF BeginDelete, Keep
  <1>3. stable' \subseteq stable /\ \A r \in stable' : r \in present' /\ ItemKey(r) \in present'
    BY <1>2 DEF Readable
  <1>4. TablesTypeOK'
    <2>1. jobs' \in 0 .. MaxJobs
      BY <1>2, TablesConstants DEF TablesInv, TablesTypeOK
    <2>2. present' \subseteq Listed[page] \cup {ItemKey(r) : r \in Listed[page]}
      BY <1>1 DEF TablesInv, TablesTypeOK
    <2> QED
      BY <1>2, <1>3, <2>1, <2>2 DEF TablesInv, TablesTypeOK
  <1>5. job'.block = b /\ job'.left \subseteq KeysRead(b)
    BY <1>1
  <1>6. JobFits'
    <2>1. job'.left \subseteq ListedOf[page'][b] \cup {ItemKey(r) : r \in ListedOf[page'][b]}
      BY <1>2, <1>5 DEF KeysRead
    <2> QED
      BY <1>5, <2>1 DEF JobFits, KeysRead
  <1> QED
    BY <1>2, <1>3, <1>4, <1>6, IndexerKeeps

\* The other half.
LEMMA FinishJobKeeps ==
    ASSUME TablesInv, FinishJob
    PROVE  TablesInv'
  <1>1. /\ UNCHANGED <<page, jobs, phase, token, rows, shown>> /\ job # NoJob /\ job' = NoJob
        /\ present' = IF job.kind = "write" THEN present \cup job.left ELSE present \ job.left
        /\ whole' = IF job.kind = "write" THEN whole \cup {job.block} ELSE whole
        /\ stable' = stable \cap Readable(present')
    BY DEF FinishJob, Keep
  <1>2. stable' \subseteq stable /\ \A r \in stable' : r \in present' /\ ItemKey(r) \in present'
    BY <1>1 DEF Readable
  <1>3. job.block \in DOMAIN Body
        /\ job.left \subseteq Listed[page] \cup {ItemKey(r) : r \in Listed[page]}
    BY <1>1, KeysAreListed DEF TablesInv, JobFits, TablesTypeOK
  <1>4. TablesTypeOK'
    <2>1. present' \subseteq Listed[page] \cup {ItemKey(r) : r \in Listed[page]}
      BY <1>1, <1>3 DEF TablesInv, TablesTypeOK
    <2>2. whole' \subseteq DOMAIN Body
      BY <1>1, <1>3 DEF TablesInv, TablesTypeOK
    <2> QED
      BY <1>1, <1>2, <2>1, <2>2 DEF TablesInv, TablesTypeOK
  <1>5. JobFits'
    BY <1>1 DEF JobFits
  <1> QED
    BY <1>1, <1>2, <1>4, <1>5, IndexerKeeps

\* The first of the two reads: the rows behind the token.
LEMMA ReadRowsKeeps ==
    ASSUME TablesInv, ReadRows
    PROVE  TablesInv'
  <1>1. /\ phase = "idle" /\ UNCHANGED <<page, present, whole, job, jobs, token, shown>>
        /\ rows' = NextRows /\ phase' = IF NextRows = {} THEN "end" ELSE "items"
        /\ stable' = IF token = NoToken THEN Readable(present) ELSE stable
    BY DEF ReadRows
  <1>2. PICK L, behind : L = Listed[page] /\ behind = {r \in L \cap present : After(token, r)}
    OBVIOUS
  <1>3. Ordered(L) /\ IsFiniteSet(L)
    BY <1>2, ListedIsOrdered DEF TablesInv, TablesTypeOK
  <1>4. behind \subseteq L /\ IsFiniteSet(behind)
    BY <1>2, <1>3, FS_Subset
  <1>5. NextRows = {r \in behind : RankIn(behind, r) < PageSize}
    BY <1>2 DEF NextRows, RankIn
  <1>6. /\ NextRows \subseteq behind /\ (NextRows = {} => behind = {})
        /\ \A r \in behind : r \in NextRows \/ \A q \in NextRows : Before(q, r)
    <2>1. PICK next : next = NextRows
      OBVIOUS
    <2>2. next = {r \in behind : RankIn(behind, r) < PageSize}
      BY <1>5, <2>1
    <2>3. /\ next \subseteq behind /\ (next = {} => behind = {})
          /\ \A r \in behind : r \in next \/ \A q \in next : Before(q, r)
      BY ONLY <1>3, <1>4, <2>2, NextRowsAre
    <2> QED
      BY <2>1, <2>3
  <1>7. /\ stable' \subseteq L /\ \A r \in stable' : r \in present /\ ItemKey(r) \in present
    BY <1>1, <1>2 DEF Readable, TablesInv, StableFits, TablesTypeOK
  <1>8. \A r \in stable' : After(token, r) => r \in behind
    BY <1>2, <1>7
  <1>9. TablesTypeOK'
    BY <1>1, <1>2, <1>4, <1>6, <1>7 DEF TablesInv, TablesTypeOK
  <1>10. JobFits'
    BY <1>1 DEF TablesInv, JobFits, KeysRead
  <1>11. ScreenFits'
    BY <1>1 DEF TablesInv, ScreenFits
  <1>12. StableFits'
    <2>1. \A r \in stable' : After(token, r) \/ Read(r)
      BY <1>1 DEF After, TablesInv, StableFits
    <2>2. \A r : Read(r)' <=> Read(r)
      BY <1>1 DEF Read
    <2> QED
      BY <1>1, <1>7, <2>1, <2>2 DEF StableFits
  <1>13. PageFits'
    <2>1. CASE NextRows = {}
      BY <1>1, <1>6, <1>8, <2>1 DEF PageFits
    <2>2. CASE NextRows # {}
      <3>1. \A q \in NextRows : After(token, q)
        BY <1>2, <1>6
      <3> QED
        BY <1>1, <1>6, <1>8, <2>2, <3>1 DEF PageFits
    <2> QED
      BY <2>1, <2>2
  <1> QED
    BY <1>9, <1>10, <1>11, <1>12, <1>13 DEF TablesInv

\* The rows of a page come behind the ones on the screen.
LEMMA ScreenGrows ==
    ASSUME NEW L, Ordered(L), NEW old \in Seq(L), NEW list \in Seq(L), NEW last1 \in L, NEW mark,
           mark = NoToken \/ (mark[1] \in L /\ mark # NoToken),
           \A m, n \in DOMAIN old : m < n => Before(old[m], old[n]),
           \A n \in DOMAIN old : ~ After(mark, old[n]),
           \A m, n \in 1 .. Len(list) : m < n => Before(list[m], list[n]),
           \A n \in 1 .. Len(list) : After(mark, list[n]) /\ (list[n] = last1 \/ Before(list[n], last1)),
           After(mark, last1)
    PROVE  /\ \A m, n \in DOMAIN (old \o list) : m < n => Before((old \o list)[m], (old \o list)[n])
           /\ \A n \in DOMAIN (old \o list) : ~ Before(last1, (old \o list)[n])
  <1>1. PICK all, a, c : all = old \o list /\ a = Len(old) /\ c = Len(list)
    OBVIOUS
  <1>2. /\ a \in Nat /\ c \in Nat /\ DOMAIN old = 1 .. a /\ DOMAIN all = 1 .. a + c
        /\ \A n \in 1 .. a : all[n] = old[n] /\ old[n] \in L
        /\ \A n \in a + 1 .. a + c : all[n] = list[n - a] /\ n - a \in 1 .. c
        /\ \A n \in 1 .. c : list[n] \in L
    BY <1>1
  <1>3. ASSUME NEW r \in L, NEW q \in L, ~ After(mark, r), After(mark, q)
        PROVE  Before(r, q)
    BY <1>3 DEF After, Ordered
  <1>4. ASSUME NEW m \in 1 .. a + c, NEW n \in 1 .. a + c, m < n
        PROVE  Before(all[m], all[n])
    <2>1. CASE n <= a
      <3>1. m \in 1 .. a /\ n \in 1 .. a
        BY <1>2, <1>4, <2>1
      <3> QED
        BY <1>2, <1>4, <3>1
    <2>2. CASE m > a
      <3>1. /\ m \in a + 1 .. a + c /\ n \in a + 1 .. a + c /\ m - a < n - a
        BY <1>2, <1>4, <2>2
      <3>2. /\ m - a \in 1 .. c /\ n - a \in 1 .. c /\ all[m] = list[m - a] /\ all[n] = list[n - a]
        BY <1>2, <3>1
      <3> QED
        BY <1>1, <3>1, <3>2
    <2>3. CASE m <= a /\ n > a
      <3>1. m \in 1 .. a /\ n \in a + 1 .. a + c
        BY <1>2, <2>3
      <3>2. all[m] \in L /\ ~ After(mark, all[m])
        BY <1>2, <3>1
      <3>3. all[n] \in L /\ After(mark, all[n])
        BY <1>1, <1>2, <3>1
      <3> QED
        BY <1>3, <3>2, <3>3
    <2> QED
      BY <1>2, <2>1, <2>2, <2>3
  <1>5. ASSUME NEW n \in 1 .. a + c
        PROVE  ~ Before(last1, all[n])
    <2>1. CASE n <= a
      <3>1. n \in 1 .. a
        BY <1>2, <2>1
      <3>2. all[n] \in L /\ ~ After(mark, all[n])
        BY <1>2, <3>1
      <3>3. Before(all[n], last1)
        BY <1>3, <3>2
      <3> QED
        BY <3>2, <3>3 DEF Ordered
    <2>2. CASE n > a
      <3>1. n \in a + 1 .. a + c
        BY <1>2, <2>2
      <3>2. all[n] \in L /\ (all[n] = last1 \/ Before(all[n], last1))
        BY <1>1, <1>2, <3>1
      <3> QED
        BY <3>2 DEF Ordered
    <2> QED
      BY <1>2, <2>1, <2>2
  <1> QED
    BY <1>1, <1>2, <1>4, <1>5

\* The second read: the items, which complete the page or are asked for again.
LEMMA ReadItemsKeeps ==
    ASSUME TablesInv, ReadItems
    PROVE  TablesInv'
  <1>1. PICK found, listed : /\ found = {r \in rows : ItemKey(r) \in present}
                             /\ listed = IF page.skips THEN {r \in found : ~r.empty} ELSE found
    OBVIOUS
  <1>2. /\ phase = "items" /\ rows' = {} /\ phase' = "idle"
        /\ UNCHANGED <<page, present, whole, job, jobs, stable>>
    BY DEF ReadItems
  <1>3. PageFits' /\ JobFits'
    BY <1>2 DEF TablesInv, PageFits, JobFits, KeysRead
  <1>4. CASE UNCHANGED <<shown, token>>
    <2>1. TablesTypeOK'
      BY <1>2, <1>4 DEF TablesInv, TablesTypeOK
    <2>2. ScreenFits' /\ StableFits'
      BY <1>2, <1>4 DEF TablesInv, ScreenFits, StableFits, Read
    <2> QED
      BY <1>3, <2>1, <2>2 DEF TablesInv
  <1>5. CASE ~ UNCHANGED <<shown, token>>
    <2>1. PICK L, mark, old, now : L = Listed[page] /\ mark = token /\ old = shown /\ now = rows
      OBVIOUS
    <2>2. Ordered(L) /\ IsFiniteSet(L)
      BY <2>1, ListedIsOrdered DEF TablesInv, TablesTypeOK
    <2>3. now \subseteq L /\ IsFiniteSet(now) /\ now # {}
      BY <1>2, <2>1, <2>2, FS_Subset DEF TablesInv, TablesTypeOK, PageFits
    <2>4. /\ shown' = old \o InOrder(listed) /\ (page.skips \/ found = rows)
          /\ token' = <<CHOOSE r \in now : \A q \in now : q = r \/ Before(q, r)>>
      BY <1>1, <1>5, <2>1 DEF ReadItems
    <2>5. PICK far : far = CHOOSE r \in now : \A q \in now : q = r \/ Before(q, r)
      OBVIOUS
    <2>6. far \in now /\ \A q \in now : q = far \/ Before(q, far)
      <3>1. \E r \in now : \A q \in now : q = r \/ Before(q, r)
        BY ONLY <2>2, <2>3, FarthestRow
      <3> QED
        BY <2>5, <3>1
    <2>7. token' = <<far>> /\ far \in L
      BY <2>3, <2>4, <2>5, <2>6
    <2>8. PICK list : list = InOrder(listed)
      OBVIOUS
    <2>9. listed \subseteq now /\ IsFiniteSet(listed) /\ listed \subseteq L
      BY <1>1, <2>1, <2>3, FS_Subset
    <2>10. Sorts(list, listed)
      BY <2>2, <2>8, <2>9, InOrderSorts
    <2>11. list \in Seq(L) /\ \A n \in 1 .. Len(list) : list[n] \in now
      BY <2>9, <2>10 DEF Sorts
    <2>12. old \in Seq(L) /\ (mark = NoToken \/ (mark[1] \in L /\ mark # NoToken))
      BY <2>1 DEF TablesInv, TablesTypeOK, NoToken
    <2>13. \A q \in now : After(mark, q)
      BY <1>2, <2>1 DEF TablesInv, PageFits
    <2>14. /\ \A m, n \in DOMAIN old : m < n => Before(old[m], old[n])
           /\ \A n \in DOMAIN old : ~ After(mark, old[n])
      BY <2>1 DEF TablesInv, ScreenFits
    <2>15. /\ \A m, n \in DOMAIN (old \o list) : m < n => Before((old \o list)[m], (old \o list)[n])
           /\ \A n \in DOMAIN (old \o list) : ~ Before(far, (old \o list)[n])
      <3>1. \A m, n \in 1 .. Len(list) : m < n => Before(list[m], list[n])
        BY <2>10 DEF Sorts
      <3>2. \A n \in 1 .. Len(list) :
              After(mark, list[n]) /\ (list[n] = far \/ Before(list[n], far))
        BY <2>6, <2>11, <2>13
      <3>3. After(mark, far)
        BY <2>6, <2>13
      <3>4. old \in Seq(L) /\ list \in Seq(L) /\ far \in L
        BY <2>7, <2>11, <2>12
      <3> QED
        BY ONLY <2>2, <2>12, <2>14, <3>1, <3>2, <3>3, <3>4, ScreenGrows
    <2>16. shown' = old \o list
      BY <2>4, <2>8
    <2>17. \A r : After(<<far>>, r) <=> Before(far, r)
      BY DEF After, NoToken
    <2>18. ScreenFits'
      BY <2>7, <2>15, <2>16, <2>17 DEF ScreenFits
    <2>19. TablesTypeOK'
      <3>1. shown' \in Seq(L)
        BY <2>11, <2>12, <2>16
      <3>2. token' \in {<<r>> : r \in L}
        BY <2>7
      <3> QED
        BY <1>2, <2>1, <3>1, <3>2 DEF TablesInv, TablesTypeOK
    <2>20. ASSUME NEW r, Read(r)
           PROVE  Read(r)'
      <3>1. CASE page.skips /\ r.empty
        BY <1>2, <3>1 DEF Read
      <3>2. CASE \E n \in DOMAIN shown : shown[n] = r
        <4>1. PICK n \in DOMAIN old : old[n] = r
          BY <2>1, <3>2
        <4>2. n \in DOMAIN (old \o list) /\ (old \o list)[n] = r
          BY <2>11, <2>12, <4>1
        <4> QED
          BY <2>16, <4>2 DEF Read
      <3> QED
        BY <2>20, <3>1, <3>2 DEF Read
    <2>21. ASSUME NEW r \in listed
           PROVE  Read(r)'
      <3>1. PICK n \in 1 .. Len(list) : list[n] = r
        BY <2>10 DEF Sorts
      <3>2. Len(old) + n \in DOMAIN (old \o list) /\ (old \o list)[Len(old) + n] = r
        BY <2>11, <2>12, <3>1
      <3> QED
        BY <2>16, <3>2 DEF Read
    <2>22. ASSUME NEW r \in stable
           PROVE  After(<<far>>, r) \/ Read(r)'
      <3>1. CASE ~ After(mark, r)
        BY <2>1, <2>20, <3>1 DEF TablesInv, StableFits
      <3>2. CASE After(mark, r) /\ r \in rows
        <4>1. r \in found
          BY <1>1, <3>2 DEF TablesInv, StableFits
        <4>2. r \in listed \/ (page.skips /\ r.empty)
          BY <1>1, <4>1
        <4> QED
          BY <1>2, <2>21, <4>2 DEF Read
      <3>3. CASE After(mark, r) /\ \A q \in rows : Before(q, r)
        BY <2>1, <2>6, <2>17, <3>3
      <3> QED
        BY <1>2, <2>1, <3>1, <3>2, <3>3 DEF TablesInv, PageFits
    <2>23. StableFits'
      BY <1>2, <2>7, <2>22 DEF TablesInv, StableFits
    <2> QED
      BY <1>3, <2>18, <2>19, <2>23 DEF TablesInv
  <1> QED
    BY <1>4, <1>5

\* The tables in every behaviour.
LEMMA TablesStay == MCSpec => []TablesInv
  <1>1. MCInit => TablesInv
    BY TablesInvInit DEF MCInit
  <1>2. TablesInv /\ [MCNext]_allVars => TablesInv'
    <2> SUFFICES ASSUME TablesInv, [MCNext]_allVars PROVE TablesInv'
      OBVIOUS
    <2>1. CASE TablesNext
      <3>1. CASE \E b \in DOMAIN Body : BeginWrite(b) \/ BeginDelete(b)
        BY <3>1, BeginWriteKeeps, BeginDeleteKeeps
      <3> QED
        BY <2>1, <3>1, FinishJobKeeps, ReadRowsKeeps, ReadItemsKeeps DEF TablesNext, Reader
    <2>2. CASE UNCHANGED tableVars
      BY <2>2 DEF tableVars, TablesInv, TablesTypeOK, JobFits, KeysRead, ScreenFits, StableFits,
             PageFits, Read
    <2> QED
      BY <2>1, <2>2 DEF MCNext, Indexing, Paging, Marking, Fetching, Depositing, allVars
  <1> QED
    BY <1>1, <1>2, PTL DEF MCSpec

\* Each row once and in order, each balance that is old with its mark, and each
\* block in one piece (bigtable_eth1.go:1616-1990, :2199-2440, erigon.go:77-327).
THEOREM PagesAndBalancesHold == MCSpec => []PagesAndBalances
  <1>1. TablesInv => TablesTypeOK /\ PagesAreExact
    BY DEF TablesInv, PagesAreExact, ScreenFits, StableFits, PageFits, Read
  <1>2. BalancesInv => BM!TypeOK /\ BM!StaleIsMarked
    BY StaleHasItsMark DEF BalancesInv
  <1>3. FetchInv => F!TypeOK /\ F!BlockIsWhole /\ F!AnswersAreKnown
    BY ReturnedBlock DEF FetchInv
  <1>4. DepositsInv => D!TypeOK
    BY DEF DepositsInv
  <1> QED
    BY <1>1, <1>2, <1>3, <1>4, TablesStay, BalancesStay, FetchStays, DepositsStay, PTL
       DEF PagesAndBalances
=============================================================================
