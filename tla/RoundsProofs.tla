---------------------------- MODULE RoundsProofs ----------------------------
(***************************************************************************)
(* Proofs about the loops that run on a timer beside the export, in the    *)
(* composition the run checks: whatever component moves, for every value   *)
(* of the constants.                                                       *)
(***************************************************************************)
EXTENDS MCRounds, Sequences, NumberLemmas

-----------------------------------------------------------------------------
(* The composition *)

\* A step of the composition is a step of one component, and the variables of
\* the others stay.
LEMMA ComponentSteps ==
    ASSUME [Next]_vars
    PROVE  /\ N!Next \/ UNCHANGED ofEvents
           /\ L!Next \/ UNCHANGED ofRelays
           /\ E!Next \/ UNCHANGED ofEthStore
           /\ T!Next \/ UNCHANGED ofTags
           /\ P!Next \/ UNCHANGED ofRocketPool
           /\ B!Next \/ UNCHANGED ofSearch
  BY DEF Next, Collecting, Relaying, Storing, Tagging, Pooling, Searching, vars, ofEvents,
         ofRelays, ofEthStore, ofTags, ofRocketPool, ofSearch

-----------------------------------------------------------------------------
(* Validator tags *)

TagsInv == T!TypeOK /\ T!SsvIsLastAnswer

\* No tag is set at the start.
LEMMA TagsInvInit ==
    ASSUME Init
    PROVE  TagsInv
  BY DEF Init, TagsInv, T!Init, T!TypeOK, T!SsvIsLastAnswer, T!Tagged

\* A message replaces the tags 'ssv', the other writers leave them.
LEMMA TagsInvStep ==
    ASSUME TagsInv, [Next]_vars
    PROVE  TagsInv'
  <1> USE RoundsAssumption DEF T!TagsAssumption, TagsInv, T!TypeOK, T!SsvIsLastAnswer, T!Tagged
  <1>1. CASE UNCHANGED ofTags
    BY <1>1 DEF ofTags
  <1>2. ASSUME NEW k \in Keys, T!Join(k)
        PROVE  TagsInv'
    BY <1>2 DEF T!Join
  <1>3. ASSUME NEW keys \in SUBSET Keys, T!SaveSSV(keys)
        PROVE  TagsInv'
    <2>1. \A k \in Keys : <<k, "ssv">> \in tags' => k \in keys /\ k \in network
      BY <1>3 DEF T!SaveSSV, T!Corrected
    <2>2. tags' \subseteq Keys \X {"ssv", "rocketpool", "pool"}
      BY <1>3 DEF T!SaveSSV, T!Corrected
    <2> QED
      BY <1>3, <2>1, <2>2 DEF T!SaveSSV
  <1>4. CASE T!TagValidators
    BY <1>4 DEF T!TagValidators
  <1>5. CASE T!UpdatePubkeyTag
    BY <1>5 DEF T!UpdatePubkeyTag
  <1> QED
    BY <1>1, <1>2, <1>3, <1>4, <1>5, ComponentSteps DEF T!Next

-----------------------------------------------------------------------------
(* ETH.STORE *)

\* What is stored and what is to be stored are days that are over.
StoreDays ==
  /\ today \in 0 .. MaxToday /\ storeFaults \in 0 .. MaxStoreFaults
  /\ todo \subseteq 0 .. today - 1 /\ storeRows \subseteq 0 .. today - 1
StoreInv == StoreDays /\ filling \in BOOLEAN

\* The invariant implies the types and the property.
LEMMA StoreInvImplies ==
    ASSUME StoreInv
    PROVE  E!TypeOK /\ E!DaysAreOver
  <1>1. MaxToday \in Nat /\ StoreDays /\ filling \in BOOLEAN
    BY RoundsAssumption DEF E!EthStoreAssumption, StoreInv
  <1>2. (0 .. today - 1) \subseteq 0 .. MaxToday
    BY <1>1 DEF StoreDays
  <1> QED
    BY <1>1, <1>2 DEF StoreDays, E!TypeOK, E!DaysAreOver

\* Nothing is stored on the first day.
LEMMA StoreInvInit ==
    ASSUME Init
    PROVE  StoreInv
  <1>1. MaxToday \in Nat /\ MaxStoreFaults \in Nat
    BY RoundsAssumption DEF E!EthStoreAssumption
  <1>2. today = 0 /\ storeRows = {} /\ todo = {} /\ storeFaults = 0
    BY DEF Init, E!Init
  <1>3. filling \in BOOLEAN
    BY DEF Init, E!Init
  <1> QED
    BY <1>1, <1>2, <1>3 DEF StoreInv, StoreDays

\* Days only become more, and the days to export are taken from those over.
LEMMA StoreInvStep ==
    ASSUME StoreInv, [Next]_vars
    PROVE  StoreInv'
  <1>1. StoreDays /\ filling \in BOOLEAN /\ MaxToday \in Nat /\ MaxStoreFaults \in Nat
    BY RoundsAssumption DEF E!EthStoreAssumption, StoreInv
  <1>2. StoreDays /\ MaxToday \in Nat /\ MaxStoreFaults \in Nat
    BY <1>1
  <1>3. CASE UNCHANGED ofEthStore
    BY <1>1, <1>3 DEF ofEthStore, StoreInv, StoreDays
  <1>4. CASE E!FinalizeDay
    <2>1. StoreDays'
      <3>1. today' = today + 1 /\ today' \in 0 .. MaxToday
        BY <1>2, <1>4 DEF E!FinalizeDay, StoreDays
      <3> QED
        BY <1>2, <1>4, <3>1 DEF E!FinalizeDay, StoreDays
    <2> QED
      BY <1>1, <1>4, <2>1 DEF E!FinalizeDay, StoreInv
  <1>5. CASE E!Check
    <2>1. E!Missing \subseteq 0 .. today - 1
      BY DEF E!Missing, E!LatestDay
    <2>2. filling' \in BOOLEAN
      BY <1>1, <1>5 DEF E!Check
    <2>3. todo' = todo \/ todo' = E!Missing
      BY <1>5 DEF E!Check
    <2>4. UNCHANGED <<today, storeRows, storeFaults>>
      BY <1>5 DEF E!Check
    <2>5. StoreDays'
      BY <1>2, <2>1, <2>3, <2>4 DEF StoreDays
    <2> QED
      BY <2>2, <2>5 DEF StoreInv
  <1>6. CASE E!ExportDay
    <2>1. E!Max(todo) = Max(todo)
      BY Zenon DEF E!Max, Max
    <2>2. todo \subseteq 0 .. MaxToday /\ todo # {}
      BY <1>2, <1>6 DEF E!ExportDay, StoreDays
    <2>3. E!Max(todo) \in todo
      BY <1>2, <2>1, <2>2, MaxOfInterval
    <2>4. StoreDays'
      BY <1>2, <1>6, <2>3 DEF E!ExportDay, StoreDays
    <2> QED
      BY <1>1, <1>6, <2>4 DEF E!ExportDay, StoreInv
  <1>7. CASE E!ExportFails
    <2>1. StoreDays'
      BY <1>2, <1>7 DEF E!ExportFails, StoreDays
    <2> QED
      BY <1>1, <1>7, <2>1 DEF E!ExportFails, StoreInv
  <1> QED
    BY <1>3, <1>4, <1>5, <1>6, <1>7, ComponentSteps DEF E!Next, E!Exporting

-----------------------------------------------------------------------------
(* The search of a block by its time *)

\* The times of the blocks grow from 0.
LEMMA TimesGrow ==
    ASSUME times \in Timelines
    PROVE  /\ B!Latest \in Nat /\ B!Latest >= 2
           /\ \A b \in 0 .. B!Latest : B!Time(b) \in Nat
           /\ B!Time(0) = 0
           /\ \A b, c \in 0 .. B!Latest : b < c => B!Time(b) < B!Time(c)
  <1>1. /\ times \in Seq(Nat) /\ Len(times) >= 3 /\ times[1] = 0
        /\ \A b, c \in 1 .. Len(times) : b < c => times[b] < times[c]
    BY RoundsAssumption DEF B!BlockSearchAssumption
  <1>2. Len(times) \in Nat /\ \A i \in 1 .. Len(times) : times[i] \in Nat
    BY <1>1
  <1>3. B!Latest \in Nat /\ B!Latest >= 2
    BY <1>1, <1>2 DEF B!Latest
  <1>4. \A b \in 0 .. B!Latest : b + 1 \in 1 .. Len(times)
    BY <1>2 DEF B!Latest
  <1>5. \A b \in 0 .. B!Latest : B!Time(b) \in Nat
    BY <1>2, <1>4 DEF B!Time
  <1>6. B!Time(0) = 0
    BY <1>1 DEF B!Time
  <1>7. ASSUME NEW b \in 0 .. B!Latest, NEW c \in 0 .. B!Latest, b < c
        PROVE  B!Time(b) < B!Time(c)
    <2>1. b + 1 < c + 1
      BY <1>3, <1>7
    <2> QED
      BY <1>1, <1>4, <2>1 DEF B!Time
  <1> QED
    BY <1>3, <1>5, <1>6, <1>7

\* What is known of the best candidate: none was looked at yet, or its distance.
BestIsKnown ==
  \/ \A b \in 0 .. B!Latest - 1 : B!Distance(b) < nearest
  \/ nearest = B!Distance(best)

\* The upper end of the part that is still searched: the end of the chain, or a
\* block after the time that was looked at.
UpperEnd ==
  \/ candidate + pivot >= B!Latest - 1
  \/ \E y \in 0 .. B!Latest - 1 :
       y <= candidate + pivot /\ wanted < B!Time(y) /\ nearest <= B!Distance(y)

\* For a time after all blocks the search goes up, without a second look at a block.
GoesUp ==
  B!Time(B!Latest - 1) <= wanted /\ nearest = B!Distance(best)
    => candidate > best \/ best = B!Latest - 1

SearchTypes ==
  /\ times \in Timelines /\ wanted \in Nat
  /\ candidate \in 0 .. B!Latest - 1 /\ best \in 0 .. B!Latest - 1
  /\ pivot \in 1 .. B!Latest /\ nearest \in Nat
  /\ result \in {B!NotYet, B!Failed} \cup 0 .. B!Latest - 1

SearchInv ==
  /\ SearchTypes
  /\ BestIsKnown
  /\ result = B!NotYet => UpperEnd /\ GoesUp
  /\ B!FoundIsNearest

\* The invariant implies the types and the property.
LEMMA SearchInvImplies ==
    ASSUME SearchInv
    PROVE  B!TypeOK /\ B!FoundIsNearest
  BY DEF SearchInv, SearchTypes, B!TypeOK

\* No block is between r and the time.
NextToTime(r) ==
  \A b \in 0 .. B!Latest - 1 :
    ~ \/ B!Time(r) < B!Time(b) /\ B!Time(b) <= wanted
      \/ wanted <= B!Time(b) /\ B!Time(b) < B!Time(r)

\* The search begins in the middle of the chain.
LEMMA SearchInvInit ==
    ASSUME Init
    PROVE  SearchInv
  <1>1. B!Init
    BY DEF Init
  <1>2. times \in Timelines
    BY <1>1 DEF B!Init
  <1>3. /\ B!Latest \in Nat /\ B!Latest >= 2
        /\ \A b \in 0 .. B!Latest : B!Time(b) \in Nat
        /\ \A b, c \in 0 .. B!Latest : b < c => B!Time(b) < B!Time(c)
    BY <1>2, TimesGrow
  <1>4. B!Time(B!Latest) = times[Len(times)]
    <2>1. Len(times) \in Nat
      BY <1>2, RoundsAssumption DEF B!BlockSearchAssumption
    <2> QED
      BY <2>1 DEF B!Time, B!Latest
  <1>5. PICK last \in Nat : last = B!Time(B!Latest)
    BY <1>3
  <1>6. wanted \in 0 .. last + 1 /\ nearest = last + 2
    BY <1>1, <1>4, <1>5 DEF B!Init
  <1>7. /\ candidate = B!Latest \div 2 /\ pivot = candidate /\ best = candidate
        /\ result = B!NotYet
    BY <1>1 DEF B!Init
  <1>8. /\ candidate \in 0 .. B!Latest - 1 /\ pivot \in 1 .. B!Latest
        /\ candidate + pivot >= B!Latest - 1
    BY <1>3, <1>7
  <1>9. SearchTypes
    BY <1>2, <1>5, <1>6, <1>7, <1>8 DEF SearchTypes
  <1>10. ASSUME NEW b \in 0 .. B!Latest - 1
         PROVE  B!Distance(b) < nearest
    <2>1. b \in 0 .. B!Latest /\ b < B!Latest /\ B!Latest \in 0 .. B!Latest
      BY <1>3
    <2>2. B!Time(b) \in Nat /\ B!Time(b) < last
      BY <1>3, <1>5, <2>1
    <2> QED
      BY <1>5, <1>6, <2>2 DEF B!Distance
  <1>11. BestIsKnown
    BY <1>10 DEF BestIsKnown
  <1>12. GoesUp
    <2>1. B!Distance(best) < nearest
      BY <1>7, <1>8, <1>10
    <2>2. nearest \in Nat
      BY <1>9 DEF SearchTypes
    <2>3. nearest # B!Distance(best)
      BY <2>1, <2>2
    <2> QED
      BY <2>3 DEF GoesUp
  <1> QED
    BY <1>7, <1>8, <1>9, <1>11, <1>12 DEF SearchInv, UpperEnd, B!FoundIsNearest, B!NotYet

\* A step to the next candidate keeps what is known.
LEMMA MoveKeeps ==
    ASSUME SearchTypes, BestIsKnown, UpperEnd, GoesUp, result = B!NotYet, B!Move,
           UNCHANGED <<times, wanted>>,
           \/ B!Better /\ nearest' = B!Distance(candidate) /\ best' = candidate
           \/ ~B!Better /\ UNCHANGED <<best, nearest>>
    PROVE  SearchInv'
  <1>1. times \in Timelines /\ wanted \in Nat /\ nearest \in Nat
    BY DEF SearchTypes
  <1>2. /\ B!Latest \in Nat /\ B!Latest >= 2
        /\ \A b \in 0 .. B!Latest : B!Time(b) \in Nat
        /\ \A b, c \in 0 .. B!Latest : b < c => B!Time(b) < B!Time(c)
    BY <1>1, TimesGrow
  <1>3. /\ B!Latest' = B!Latest
        /\ \A b \in 0 .. B!Latest : B!Time(b)' = B!Time(b) /\ B!Distance(b)' = B!Distance(b)
    BY DEF B!Latest, B!Time, B!Distance
  <1>4. PICK end \in Nat : end = B!Latest - 1 /\ end >= 1
    BY <1>2
  <1>5. /\ candidate \in 0 .. end /\ best \in 0 .. end /\ pivot \in 1 .. end + 1
    BY <1>2, <1>4 DEF SearchTypes
  <1>6. \A b \in 0 .. end : B!Time(b) \in Nat /\ B!Distance(b) \in Nat
    <2> TAKE b \in 0 .. end
    <2>1. B!Time(b) \in Nat
      BY <1>2, <1>4
    <2> QED
      BY <1>1, <2>1 DEF B!Distance
  <1>7. \A b, c \in 0 .. end : b < c => B!Time(b) < B!Time(c)
    BY <1>2, <1>4
  <1>8. /\ best' \in 0 .. end /\ nearest' \in Nat
        /\ nearest' <= nearest /\ nearest' <= B!Distance(candidate)
        /\ nearest' = B!Distance(best')
    <2>1. CASE B!Better
      BY <1>1, <1>5, <1>6, <2>1 DEF B!Better
    <2>2. CASE ~B!Better
      <3>1. nearest <= B!Distance(candidate)
        BY <1>1, <1>5, <1>6, <2>2 DEF B!Better
      <3>2. nearest = B!Distance(best)
        BY <1>1, <1>4, <1>5, <1>6, <3>1 DEF BestIsKnown
      <3> QED
        BY <1>1, <1>5, <2>2, <3>1, <3>2
    <2> QED
      BY <2>1, <2>2
  <1>9. PICK half \in 1 .. end + 1 : half = B!Half /\ 2 * half >= pivot
    BY <1>4, <1>5 DEF B!Half
  <1>10. CASE result' = B!Failed /\ UNCHANGED <<candidate, pivot>>
    <2>1. SearchTypes'
      BY <1>1, <1>3, <1>4, <1>5, <1>8, <1>10 DEF SearchTypes
    <2>2. BestIsKnown'
      BY <1>4, <1>8 DEF BestIsKnown, B!Latest, B!Time, B!Distance
    <2> QED
      BY <2>1, <2>2, <1>10 DEF SearchInv, B!FoundIsNearest, B!Failed, B!NotYet
  <1>11. CASE result' # B!Failed
    <2>1. /\ result' = B!NotYet /\ pivot' = half
          /\ \/ /\ wanted < B!Time(candidate)
                /\ candidate' = candidate - half /\ candidate' \in 0 .. end
             \/ /\ B!Time(candidate) <= wanted
                /\ candidate' = (IF candidate + half > end THEN end ELSE candidate + half)
                /\ candidate' \in 0 .. end
      <3>1. PICK t \in Nat : t = B!Time(candidate)
        BY <1>5, <1>6
      <3>2. CASE t > wanted
        <4>1. ~ (candidate - half < 0) /\ pivot' = half /\ UNCHANGED result
              /\ candidate' = (IF candidate - half > end THEN end ELSE candidate - half)
          BY <1>4, <1>9, <1>11, <3>1, <3>2 DEF B!Move
        <4> QED
          BY <1>1, <1>5, <1>9, <3>1, <3>2, <4>1
      <3>3. CASE ~ (t > wanted)
        <4>1. ~ (candidate + half < 0)
          BY <1>5, <1>9
        <4>2. pivot' = half /\ UNCHANGED result
              /\ candidate' = (IF candidate + half > end THEN end ELSE candidate + half)
          BY <1>4, <1>9, <3>1, <3>3, <4>1 DEF B!Move
        <4> QED
          BY <1>1, <1>4, <1>5, <1>9, <3>1, <3>3, <4>2
      <3> QED
        BY <3>2, <3>3
    <2>2. SearchTypes'
      <3>1. candidate' \in 0 .. end /\ pivot' \in 1 .. end + 1 /\ result' = B!NotYet
        BY <1>9, <2>1
      <3>2. 0 .. B!Latest' - 1 = 0 .. end /\ 1 .. B!Latest' = 1 .. end + 1
        BY <1>2, <1>3, <1>4
      <3>3. result' \in {B!NotYet', B!Failed'} \cup 0 .. end
        BY <3>1 DEF B!NotYet
      <3> QED
        BY <1>1, <1>8, <3>1, <3>2, <3>3 DEF SearchTypes
    <2>3. BestIsKnown'
      BY <1>4, <1>8 DEF BestIsKnown, B!Latest, B!Time, B!Distance
    <2>4. UpperEnd'
      <3>1. SUFFICES \/ candidate' + pivot' >= end
                     \/ \E y \in 0 .. end : y <= candidate' + pivot' /\ wanted < B!Time(y)
                                            /\ nearest' <= B!Distance(y)
        BY <1>4 DEF UpperEnd, B!Latest, B!Time, B!Distance
      <3>2. CASE wanted < B!Time(candidate)
        <4>1. candidate' + pivot' = candidate
          BY <1>1, <1>5, <1>6, <1>9, <2>1, <3>2
        <4> QED
          BY <1>5, <1>8, <3>2, <4>1
      <3>3. CASE ~ (wanted < B!Time(candidate))
        <4>1. candidate' + pivot' >= end \/ candidate' + pivot' >= candidate + pivot
          BY <1>4, <1>5, <1>9, <2>1, <3>3
        <4>2. CASE candidate + pivot >= end
          BY <1>4, <1>5, <1>9, <2>1, <4>1, <4>2
        <4>3. CASE ~ (candidate + pivot >= end)
          <5>1. PICK y \in 0 .. end :
                   y <= candidate + pivot /\ wanted < B!Time(y) /\ nearest <= B!Distance(y)
            BY <1>4, <4>3 DEF UpperEnd
          <5>2. nearest' <= B!Distance(y)
            BY <1>1, <1>6, <1>8, <5>1
          <5>3. candidate' + pivot' >= end \/ y <= candidate' + pivot'
            BY <1>5, <1>9, <2>1, <4>1, <5>1
          <5> QED
            BY <5>1, <5>2, <5>3
        <4> QED
          BY <4>2, <4>3
      <3> QED
        BY <3>2, <3>3
    <2>5. GoesUp'
      <3>1. SUFFICES ASSUME B!Time(end) <= wanted
                     PROVE  candidate' > best' \/ best' = end
        BY <1>4, <1>8 DEF GoesUp, B!Latest, B!Time, B!Distance
      <3>2. \A b \in 0 .. end : B!Time(b) <= wanted
        <4> TAKE b \in 0 .. end
        <4>1. b < end \/ b = end
          BY <1>4
        <4> QED
          BY <1>1, <1>4, <1>6, <1>7, <3>1, <4>1
      <3>3. candidate' = (IF candidate + half > end THEN end ELSE candidate + half)
        BY <1>1, <1>5, <1>6, <2>1, <3>2
      <3>4. CASE B!Better
        BY <1>4, <1>5, <1>9, <3>3, <3>4
      <3>5. CASE ~B!Better
        <4>1. best' = best /\ nearest' = nearest /\ nearest = B!Distance(best)
          BY <1>3, <1>5, <1>8, <3>5
        <4>2. B!Distance(best) <= B!Distance(candidate)
          BY <1>8, <4>1
        <4>3. \A b \in 0 .. end : B!Distance(b) = wanted - B!Time(b)
          BY <1>1, <1>6, <3>2 DEF B!Distance
        <4>4. B!Time(candidate) <= B!Time(best)
          BY <1>1, <1>5, <1>6, <4>2, <4>3
        <4>5. ~ (best < candidate)
          BY <1>5, <1>6, <1>7, <4>4
        <4>6. candidate > best \/ best = end
          BY <1>4, <3>1, <4>1 DEF GoesUp
        <4> QED
          BY <1>5, <4>1, <4>5, <4>6
      <3> QED
        BY <3>4, <3>5
    <2> QED
      BY <2>1, <2>2, <2>3, <2>4, <2>5 DEF SearchInv, B!FoundIsNearest, B!NotYet
  <1> QED
    <2>1. result' = B!Failed => UNCHANGED <<candidate, pivot>>
      BY DEF B!Move, B!Failed, B!NotYet
    <2> QED
      BY <1>10, <1>11, <2>1


\* The answer is next to the time.
LEMMA AnswerIsNext ==
    ASSUME SearchInv, B!Found
    PROVE  result' \in 0 .. B!Latest - 1 /\ NextToTime(result')
  <1>0. result = B!NotYet /\ ~B!Better /\ pivot = 1
    BY DEF B!Found
  <1>1. times \in Timelines /\ wanted \in Nat /\ nearest \in Nat
    BY DEF SearchInv, SearchTypes
  <1>2. /\ B!Latest \in Nat /\ B!Latest >= 2 /\ B!Time(0) = 0
        /\ \A b \in 0 .. B!Latest : B!Time(b) \in Nat
        /\ \A b, c \in 0 .. B!Latest : b < c => B!Time(b) < B!Time(c)
    BY <1>1, TimesGrow
  <1>3. PICK end \in Nat : end = B!Latest - 1 /\ end >= 1
    BY <1>2
  <1>4. candidate \in 0 .. end /\ best \in 0 .. end
    BY <1>3 DEF SearchInv, SearchTypes
  <1>5. \A b \in 0 .. end : B!Time(b) \in Nat /\ B!Distance(b) \in Nat
    <2> TAKE b \in 0 .. end
    <2>1. B!Time(b) \in Nat
      BY <1>2, <1>3
    <2> QED
      BY <1>1, <2>1 DEF B!Distance
  <1>6. \A b, c \in 0 .. end : b < c => B!Time(b) < B!Time(c)
    BY <1>2, <1>3
  <1>7. CASE B!Time(candidate) > wanted
    <2> DEFINE before == {b \in 0 .. candidate : B!Time(b) <= wanted}
    <2>1. result' = Max(before)
      <3>1. B!Max(before) = Max(before)
        BY Zenon DEF B!Max, Max
      <3>2. result' = B!Max(before)
        BY <1>0, <1>7 DEF B!Found
      <3> HIDE DEF before
      <3> QED
        BY <3>1, <3>2
    <2>2. before \subseteq 0 .. candidate /\ 0 \in before
      BY <1>1, <1>2, <1>4
    <2>3. result' \in before /\ \A b \in before : result' >= b
      <3>1. candidate \in Nat /\ before # {}
        BY <1>4, <2>2
      <3> HIDE DEF before
      <3>2. Max(before) \in before /\ \A b \in before : Max(before) >= b
        BY <2>2, <3>1, MaxOfInterval
      <3> QED
        BY <2>1, <3>2
    <2>4. PICK r \in 0 .. end : r = result' /\ B!Time(r) <= wanted
      BY <1>3, <1>4, <2>3
    <2>5. ASSUME NEW b \in 0 .. end, B!Time(b) <= wanted
          PROVE  B!Time(b) <= B!Time(r)
      <3>1. ~ (candidate < b)
        BY <1>1, <1>4, <1>5, <1>6, <1>7, <2>5
      <3>2. b \in before
        BY <1>4, <2>5, <3>1
      <3>3. b < r \/ b = r
        BY <2>3, <2>4, <3>2
      <3> QED
        BY <1>5, <1>6, <3>3
    <2>6. NextToTime(r)
      BY <1>1, <1>3, <1>5, <2>4, <2>5 DEF NextToTime
    <2> QED
      BY <1>3, <2>4, <2>6
  <1>8. CASE ~ (B!Time(candidate) > wanted)
    <2>1. result' = best
      BY <1>0, <1>8 DEF B!Found
    <2>2. nearest <= B!Distance(candidate)
      BY <1>0, <1>1, <1>4, <1>5 DEF B!Better
    <2>3. nearest = B!Distance(best)
      BY <1>1, <1>3, <1>4, <1>5, <2>2 DEF SearchInv, BestIsKnown
    <2>4. B!Distance(candidate) = wanted - B!Time(candidate) /\ B!Time(candidate) <= wanted
      BY <1>1, <1>4, <1>5, <1>8 DEF B!Distance
    <2>5. ASSUME B!Time(best) <= wanted
          PROVE  B!Time(candidate) <= B!Time(best)
      <3>1. B!Distance(best) = wanted - B!Time(best)
        BY <1>1, <1>4, <1>5, <2>5 DEF B!Distance
      <3> QED
        BY <1>1, <1>4, <1>5, <2>2, <2>3, <2>4, <3>1
    <2>6. CASE \A b \in 0 .. end : B!Time(b) <= wanted
      <3>1. B!Time(best) <= wanted /\ B!Time(candidate) <= B!Time(best)
        BY <1>4, <2>5, <2>6
      <3>2. ~ (best < candidate)
        BY <1>4, <1>5, <1>6, <3>1
      <3>3. candidate > best \/ best = end
        BY <1>0, <1>3, <2>3, <2>6 DEF SearchInv, GoesUp
      <3>4. best = end
        BY <1>4, <3>2, <3>3
      <3>5. \A b \in 0 .. end : B!Time(b) <= B!Time(best)
        <4> TAKE b \in 0 .. end
        <4>1. b < best \/ b = best
          BY <1>3, <1>4, <3>4
        <4> QED
          BY <1>4, <1>5, <1>6, <4>1
      <3> QED
        BY <1>1, <1>3, <1>4, <1>5, <2>1, <3>1, <3>5 DEF NextToTime
    <2>7. CASE ~ \A b \in 0 .. end : B!Time(b) <= wanted
      <3>1. PICK y \in 0 .. end : wanted < B!Time(y)
        BY <1>1, <1>5, <2>7
      <3>2. candidate < end
        <4>1. ~ (y < candidate) /\ y # candidate
          BY <1>1, <1>4, <1>5, <1>6, <2>4, <3>1
        <4> QED
          BY <1>3, <1>4, <4>1
      <3>3. candidate + 1 \in 0 .. end
        BY <1>3, <1>4, <3>2
      <3>4. (wanted < B!Time(candidate + 1) /\ nearest <= B!Distance(candidate + 1))
            \/ candidate + 1 = end
        <4>1. UpperEnd
          BY <1>0 DEF SearchInv
        <4>2. ASSUME candidate + pivot >= B!Latest - 1
              PROVE  candidate + 1 = end
          BY <1>0, <1>3, <1>4, <3>2, <4>2
        <4>3. ASSUME NEW x \in 0 .. end, x <= candidate + 1, wanted < B!Time(x),
                     nearest <= B!Distance(x)
              PROVE  x = candidate + 1
          <5>1. ~ (x < candidate) /\ x # candidate
            BY <1>1, <1>4, <1>5, <1>6, <2>4, <4>3
          <5> QED
            BY <1>4, <4>3, <5>1
        <4> QED
          BY <1>0, <1>3, <4>1, <4>2, <4>3 DEF UpperEnd
      <3>5. wanted < B!Time(candidate + 1)
        <4>1. CASE candidate + 1 = end
          <5>1. y < end \/ y = end
            BY <1>3
          <5> QED
            BY <1>1, <1>3, <1>5, <1>6, <3>1, <4>1, <5>1
        <4> QED
          BY <3>4, <4>1
      <3>6. \A b \in 0 .. end :
              \/ B!Time(b) <= B!Time(candidate) /\ B!Time(b) <= wanted
              \/ B!Time(candidate + 1) <= B!Time(b) /\ wanted < B!Time(b)
        <4> TAKE b \in 0 .. end
        <4>1. CASE b < candidate \/ b = candidate
          BY <1>1, <1>4, <1>5, <1>6, <2>4, <4>1
        <4>2. CASE b > candidate + 1 \/ b = candidate + 1
          BY <1>1, <1>4, <1>5, <1>6, <3>3, <3>5, <4>2
        <4> QED
          BY <1>3, <1>4, <4>1, <4>2
      <3>7. CASE B!Time(best) <= wanted
        <4>1. B!Time(candidate) <= B!Time(best)
          BY <2>5, <3>7
        <4> QED
          BY <1>1, <1>3, <1>4, <1>5, <2>1, <3>3, <3>6, <3>7, <4>1 DEF NextToTime
      <3>8. CASE ~ (B!Time(best) <= wanted)
        <4>1. B!Distance(best) = B!Time(best) - wanted /\ wanted < B!Time(best)
          BY <1>1, <1>4, <1>5, <3>8 DEF B!Distance
        <4>2. B!Time(candidate) < wanted
          BY <1>1, <1>4, <1>5, <2>2, <2>3, <2>4, <4>1
        <4>3. B!Time(best) <= B!Time(candidate + 1)
          <5>1. CASE nearest <= B!Distance(candidate + 1)
            <6>1. B!Distance(candidate + 1) = B!Time(candidate + 1) - wanted
              BY <1>1, <1>5, <3>3, <3>5 DEF B!Distance
            <6> QED
              BY <1>1, <1>4, <1>5, <2>3, <3>3, <4>1, <5>1, <6>1
          <5>2. CASE candidate + 1 = end
            <6>1. best < end \/ best = end
              BY <1>3, <1>4
            <6> QED
              BY <1>3, <1>4, <1>5, <1>6, <5>2, <6>1
          <5> QED
            BY <3>4, <5>1, <5>2
        <4> QED
          BY <1>1, <1>3, <1>4, <1>5, <2>1, <3>3, <3>6, <4>1, <4>2, <4>3 DEF NextToTime
      <3> QED
        BY <3>7, <3>8
    <2> QED
      BY <2>6, <2>7
  <1> QED
    <2>1. CASE B!Time(candidate) > wanted
      BY <1>7, <2>1
    <2>2. CASE ~ (B!Time(candidate) > wanted)
      <3>1. result' = best
        BY <1>0, <2>2 DEF B!Found
      <3> QED
        BY <1>3, <1>4, <1>8, <2>2, <3>1
    <2> QED
      BY <2>1, <2>2

\* Every step of the search keeps the invariant.
LEMMA SearchInvStep ==
    ASSUME SearchInv, [Next]_vars
    PROVE  SearchInv'
  <1>1. CASE UNCHANGED ofSearch
    BY <1>1 DEF ofSearch, SearchInv, SearchTypes, BestIsKnown, UpperEnd, GoesUp,
                B!FoundIsNearest, B!Latest, B!Time, B!Distance
  <1>2. CASE B!Nearer
    BY <1>2, MoveKeeps DEF B!Nearer, SearchInv
  <1>3. CASE B!NotNearer
    BY <1>3, MoveKeeps DEF B!NotNearer, SearchInv
  <1>4. CASE B!Found
    <2>1. result' \in 0 .. B!Latest - 1 /\ NextToTime(result')
      BY <1>4, AnswerIsNext
    <2>2. UNCHANGED <<times, wanted, candidate, pivot, best, nearest>>
      BY <1>4 DEF B!Found
    <2>3. SearchTypes'
      BY <2>1, <2>2 DEF SearchInv, SearchTypes, B!Latest
    <2>4. BestIsKnown'
      BY <2>2 DEF SearchInv, BestIsKnown, B!Latest, B!Time, B!Distance
    <2>5. B!FoundIsNearest'
      BY <2>1, <2>2 DEF B!FoundIsNearest, NextToTime, B!Latest, B!Time
    <2>6. result' # B!NotYet
      BY <2>1 DEF B!NotYet
    <2> QED
      BY <2>3, <2>4, <2>5, <2>6 DEF SearchInv, B!NotYet
  <1> QED
    BY <1>1, <1>2, <1>3, <1>4, ComponentSteps DEF B!Next, B!Step


-----------------------------------------------------------------------------
(* Rocket Pool *)

\* The trees in the table and those in the queue are the first ones, and the
\* next look for trees begins below their end.
PoolTrees ==
  /\ published \in 0 .. MaxTrees /\ lastTree \in Nat
  /\ \E stored, kept \in 0 .. published :
       /\ stored <= kept /\ lastTree <= kept
       /\ treeRows = 0 .. stored - 1 /\ treeRows \cup queue = 0 .. kept - 1
  /\ treeData = {} \/ treeData = treeRows

\* The sums of a node are over trees in the table; the claimed ones it claimed.
SumOf(s, trees, claimed) ==
  /\ s \in P!Sums
  /\ s.claimed \cup s.unclaimed \subseteq trees
  /\ s.claimed \cap s.unclaimed = {} /\ s.claimed \subseteq claimed

\* No sum in memory is behind the one in the table, and while the trees are lost
\* from memory, or the nodes are about to be written, every node with a row is
\* in memory, so that none begins anew without trees.
PoolSums ==
  /\ registered \subseteq Nodes /\ claims \in [Nodes -> SUBSET (0 .. MaxTrees - 1)]
  /\ DOMAIN nodes \subseteq registered /\ DOMAIN nodeRows \subseteq registered
  /\ \A n \in DOMAIN nodes : SumOf(nodes[n], treeRows, claims[n])
  /\ \A n \in DOMAIN nodeRows : SumOf(nodeRows[n], treeRows, claims[n])
  /\ \A n \in DOMAIN nodes \cap DOMAIN nodeRows : nodeRows[n].claimed \subseteq nodes[n].claimed
  /\ phase = "save" \/ (treeData = {} /\ treeRows # {}) => DOMAIN nodeRows \subseteq DOMAIN nodes

PoolRound ==
  /\ count \in 0 .. TreesEvery * NodesEvery - 1
  /\ phase \in {"update", "save", "stopped"} /\ lookOld \in BOOLEAN
  /\ rpFaults \in 0 .. MaxRpFaults /\ rpRestarts \in 0 .. MaxRpRestarts

PoolInv == PoolTrees /\ PoolSums /\ PoolRound

\* The invariant implies the types and the properties of a state.
LEMMA PoolInvImplies ==
    ASSUME PoolInv
    PROVE  P!TypeOK /\ P!TreesHaveNoGap /\ P!RowsHaveTrees
  <1>1. PICK stored \in 0 .. published, kept \in 0 .. published :
           /\ stored <= kept /\ lastTree <= kept
           /\ treeRows = 0 .. stored - 1 /\ treeRows \cup queue = 0 .. kept - 1
    BY DEF PoolInv, PoolTrees
  <1>2. MaxTrees \in Nat /\ published \in 0 .. MaxTrees /\ lastTree \in Nat
        /\ (treeData = {} \/ treeData = treeRows)
    BY RoundsAssumption DEF P!RocketPoolAssumption, PoolInv, PoolTrees
  <1>3. /\ lastTree \in 0 .. MaxTrees
        /\ treeRows \subseteq 0 .. MaxTrees - 1 /\ queue \subseteq 0 .. MaxTrees - 1
        /\ treeData \subseteq 0 .. MaxTrees - 1
    <2>1. (0 .. kept - 1) \subseteq 0 .. MaxTrees - 1
      BY <1>2
    <2> QED
      BY <1>1, <1>2, <2>1
  <1>4. P!TreesHaveNoGap
    <2>1. P!Cardinality(treeRows) = Cardinality(treeRows)
      BY Zenon DEF P!Cardinality, Cardinality
    <2>2. Cardinality(treeRows) = stored
      BY <1>1, <1>2, FS_Interval
    <2> QED
      BY <1>1, <2>1, <2>2 DEF P!TreesHaveNoGap
  <1>5. P!RowsHaveTrees
    BY DEF PoolInv, PoolSums, SumOf, P!RowsHaveTrees
  <1>6. P!TypeOK
    <2>1. /\ registered \subseteq Nodes /\ claims \in [Nodes -> SUBSET (0 .. MaxTrees - 1)]
          /\ DOMAIN nodes \subseteq registered /\ DOMAIN nodeRows \subseteq registered
          /\ \A n \in DOMAIN nodes : nodes[n] \in P!Sums
          /\ \A n \in DOMAIN nodeRows : nodeRows[n] \in P!Sums
      BY DEF PoolInv, PoolSums, SumOf
    <2> QED
      BY Zenon, <1>2, <1>3, <2>1 DEF PoolInv, PoolRound, P!TypeOK
  <1> QED
    BY <1>4, <1>5, <1>6

\* There are no trees and no nodes at the start.
LEMMA PoolInvInit ==
    ASSUME Init
    PROVE  PoolInv
  <1>1. P!Init
    BY DEF Init
  <1>2. {MaxTrees, MaxRpFaults, MaxRpRestarts} \subseteq Nat
        /\ TreesEvery \in Nat \ {0} /\ NodesEvery \in Nat \ {0}
    BY RoundsAssumption DEF P!RocketPoolAssumption
  <1>3. PoolTrees
    <2>1. published = 0 /\ lastTree = 0 /\ treeRows = 0 .. -1 /\ treeRows \cup queue = 0 .. -1
          /\ treeData = {}
      BY <1>1 DEF P!Init
    <2> QED
      BY <1>2, <2>1 DEF PoolTrees
  <1>4. PoolSums
    <2>1. DOMAIN nodes = {} /\ DOMAIN nodeRows = {}
      BY <1>1 DEF P!Init, P!NoNodes
    <2> QED
      BY <1>1, <2>1 DEF P!Init, PoolSums
  <1>5. PoolRound
    <2>1. TreesEvery * NodesEvery >= 1
      <3>1. 1 * NodesEvery <= TreesEvery * NodesEvery
        BY <1>2, ProductMonotonic
      <3> QED
        BY <1>2, <3>1
    <2>2. count \in 0 .. TreesEvery * NodesEvery - 1
      BY <1>1, <1>2, <2>1 DEF P!Init
    <2>3. rpFaults \in 0 .. MaxRpFaults /\ rpRestarts \in 0 .. MaxRpRestarts
      BY <1>1, <1>2 DEF P!Init
    <2> QED
      BY <1>1, <2>2, <2>3 DEF P!Init, PoolRound
  <1> QED
    BY <1>3, <1>4, <1>5 DEF PoolInv

\* A look for trees leaves no gap in what is stored or queued, wherever it fails.
LEMMA DownloadKeepsTrees ==
    ASSUME PoolTrees, NEW ok, P!DownloadTrees(ok),
           UNCHANGED <<published, treeRows, treeData>>
    PROVE  PoolTrees'
  <1>1. MaxTrees \in Nat /\ published \in 0 .. MaxTrees /\ lastTree \in Nat
        /\ (treeData = {} \/ treeData = treeRows)
    BY RoundsAssumption DEF P!RocketPoolAssumption, PoolTrees
  <1>2. PICK stored \in 0 .. published, kept \in 0 .. published :
           /\ stored <= kept /\ lastTree <= kept
           /\ treeRows = 0 .. stored - 1 /\ treeRows \cup queue = 0 .. kept - 1
    BY DEF PoolTrees
  <1>3. PICK scanned \in lastTree .. published, had \in 0 .. published :
          LET listed == {i \in P!Scan : i < scanned}
              missing == listed \ (treeData \cup queue)
              got == IF scanned = published THEN {i \in missing : i < had} ELSE {}
          IN /\ queue' = queue \cup got
             /\ lastTree' = P!Max({P!Behind(listed)} \cup got)
    BY DEF P!DownloadTrees
  <1> DEFINE listed == {i \in P!Scan : i < scanned}
             missing == listed \ (treeData \cup queue)
             got == IF scanned = published THEN {i \in missing : i < had} ELSE {}
             seen == listed \cap treeData
  <1>4. queue' = queue \cup got /\ lastTree' = P!Max({P!Behind(listed)} \cup got)
    BY <1>3
  <1>5. P!Scan = lastTree .. published - 1 \/ P!Scan = {}
    BY DEF P!Scan
  <1>6. PICK upto \in 0 .. published :
          kept <= upto /\ (0 .. kept - 1) \cup got = 0 .. upto - 1
    <2>1. CASE got = {}
      BY <1>1, <1>2, <2>1
    <2>2. CASE got # {}
      <3>1. got = {i \in missing : i < had} /\ P!Scan = lastTree .. published - 1
        BY <1>5, <2>2
      <3>2. \A i \in lastTree .. had - 1 : i \in (0 .. kept - 1) \cup got
        <4> TAKE i \in lastTree .. had - 1
        <4>1. i \in P!Scan /\ i < scanned /\ i < had
          BY <1>1, <2>2, <3>1
        <4>2. CASE i \in treeData \cup queue
          BY <1>1, <1>2, <4>2
        <4>3. CASE i \notin treeData \cup queue
          BY <3>1, <4>1, <4>3
        <4> QED
          BY <4>2, <4>3
      <3>3. \A i \in got : i \in 0 .. had - 1
        BY <1>1, <3>1
      <3> HIDE DEF got
      <3>4. CASE had <= kept
        BY <1>1, <1>2, <3>3, <3>4
      <3>5. CASE kept < had
        <4>1. \A i \in 0 .. had - 1 : i \in (0 .. kept - 1) \cup got
          <5> TAKE i \in 0 .. had - 1
          <5>1. CASE i < lastTree
            BY <1>1, <1>2, <5>1
          <5>2. CASE ~ (i < lastTree)
            BY <1>1, <3>2, <5>2
          <5> QED
            BY <5>1, <5>2
        <4>2. (0 .. kept - 1) \cup got = 0 .. had - 1
          BY <1>1, <1>2, <3>3, <3>5, <4>1
        <4> QED
          BY <1>1, <1>2, <3>5, <4>2
      <3> QED
        BY <1>1, <1>2, <3>4, <3>5
    <2> QED
      BY <2>1, <2>2
  <1>7. P!Behind(listed) \in 0 .. upto
    <2>1. P!Max(seen) = Max(seen)
      BY Zenon DEF P!Max, Max
    <2>2. P!Behind(listed) = IF seen = {} THEN lastTree ELSE P!Max(seen) + 1
      BY DEF P!Behind
    <2>3. seen \subseteq 0 .. stored - 1
      BY <1>1, <1>2
    <2>4. CASE seen = {}
      BY <1>1, <1>2, <1>6, <2>2, <2>4
    <2>5. CASE seen # {}
      <3>1. stored - 1 \in Nat
        BY <1>2, <2>3, <2>5
      <3> HIDE DEF seen
      <3>2. Max(seen) \in 0 .. stored - 1
        BY <2>3, <2>5, <3>1, MaxOfInterval
      <3> QED
        BY <1>1, <1>2, <1>6, <2>1, <2>2, <2>5, <3>2
    <2> QED
      BY <2>4, <2>5
  <1>8. lastTree' \in 0 .. upto
    <2> DEFINE ends == {P!Behind(listed)} \cup got
    <2>1. P!Max(ends) = Max(ends)
      BY Zenon DEF P!Max, Max
    <2>2. ends \subseteq 0 .. upto /\ ends # {}
      <3>1. got \subseteq 0 .. upto - 1
        BY <1>6
      <3> HIDE DEF got, listed
      <3> QED
        BY <1>6, <1>7, <3>1
    <2>3. lastTree' = P!Max(ends) /\ upto \in Nat
      BY <1>1, <1>4, <1>6
    <2> HIDE DEF ends
    <2> QED
      BY <2>1, <2>2, <2>3, MaxOfInterval
  <1>9. treeRows' \cup queue' = 0 .. upto - 1
    <2> HIDE DEF got
    <2> QED
      BY <1>2, <1>4, <1>6
  <1> QED
    <2>1. published' = published /\ treeRows' = treeRows /\ treeData' = treeData
      OBVIOUS
    <2>2. stored <= upto /\ upto \in 0 .. published' /\ stored \in 0 .. published'
      BY <1>1, <1>2, <1>6, <2>1
    <2>3. lastTree' \in Nat /\ lastTree' <= upto
      BY <1>1, <1>6, <1>8
    <2>4. published' \in 0 .. MaxTrees' /\ (treeData' = {} \/ treeData' = treeRows')
      BY <1>1, <2>1
    <2>5. treeRows' = 0 .. stored - 1
      BY <1>2, <2>1
    <2> QED
      BY <1>9, <2>2, <2>3, <2>4, <2>5 DEF PoolTrees

\* Every step keeps the trees without a gap.
LEMMA PoolTreesStep ==
    ASSUME PoolTrees, [Next]_vars
    PROVE  PoolTrees'
  <1>1. MaxTrees \in Nat /\ published \in 0 .. MaxTrees /\ lastTree \in Nat
        /\ (treeData = {} \/ treeData = treeRows)
    BY RoundsAssumption DEF P!RocketPoolAssumption, PoolTrees
  <1>2. PICK stored \in 0 .. published, kept \in 0 .. published :
           /\ stored <= kept /\ lastTree <= kept
           /\ treeRows = 0 .. stored - 1 /\ treeRows \cup queue = 0 .. kept - 1
    BY DEF PoolTrees
  <1>3. ASSUME UNCHANGED <<published, lastTree, queue, treeData, treeRows>>
        PROVE  PoolTrees'
    BY <1>3 DEF PoolTrees
  <1>4. CASE UNCHANGED ofRocketPool
    BY <1>3, <1>4 DEF ofRocketPool
  <1>5. CASE P!Publish
    <2>1. published' = published + 1 /\ published' \in 0 .. MaxTrees
          /\ UNCHANGED <<lastTree, queue, treeData, treeRows>>
      BY <1>1, <1>5 DEF P!Publish, P!inMemory, P!inTables
    <2>2. stored \in 0 .. published' /\ kept \in 0 .. published'
      BY <1>1, <1>2, <2>1
    <2> QED
      BY <1>1, <1>2, <2>1, <2>2 DEF PoolTrees
  <1>6. ASSUME NEW n \in Nodes, P!Register(n)
        PROVE  PoolTrees'
    BY <1>3, <1>6 DEF P!Register, P!inMemory, P!inTables
  <1>7. ASSUME NEW n \in Nodes, NEW i \in P!Intervals, P!Claim(n, i)
        PROVE  PoolTrees'
    BY <1>3, <1>7 DEF P!Claim, P!inMemory, P!inTables
  <1>8. CASE P!Update
    <2>1. UNCHANGED <<published, treeRows, treeData>>
      BY <1>8 DEF P!Update, P!onChain, P!inTables
    <2>2. (\E ok \in BOOLEAN : P!DownloadTrees(ok)) \/ UNCHANGED <<queue, lastTree, lookOld>>
      BY <1>8 DEF P!Update
    <2> QED
      BY <1>3, <2>1, <2>2, DownloadKeepsTrees
  <1>9. ASSUME treeRows' = treeRows \cup queue, UNCHANGED <<published, lastTree>>,
               queue' = {} \/ queue' = queue, treeData' = {} \/ treeData' = treeRows'
        PROVE  PoolTrees'
    <2>1. treeRows' = 0 .. kept - 1 /\ treeRows' \cup queue' = 0 .. kept - 1
      BY <1>2, <1>9
    <2> QED
      BY <1>1, <1>2, <1>9, <2>1 DEF PoolTrees
  <1>10. CASE P!Save
    <2>1. queue = {} => treeRows' = treeRows /\ treeData' = treeData
      BY <1>10 DEF P!Save
    <2>2. treeData' = {} \/ treeData' = treeRows'
      BY <1>1, <1>10, <2>1 DEF P!Save
    <2> QED
      BY <1>9, <1>10, <2>2 DEF P!Save, P!onChain
  <1>11. CASE P!RefreshFails
    BY <1>9, <1>11 DEF P!RefreshFails, P!onChain
  <1>12. ASSUME NEW written \in BOOLEAN, P!SaveFails(written)
         PROVE  PoolTrees'
    BY <1>3, <1>12 DEF P!SaveFails, P!onChain
  <1>13. ASSUME NEW ok \in BOOLEAN, P!Restart(ok)
         PROVE  PoolTrees'
    <2>1. P!Max(treeRows) = Max(treeRows)
      BY Zenon DEF P!Max, Max
    <2>2. UNCHANGED <<published, treeRows>> /\ queue' = {} /\ treeData' = treeRows
          /\ lastTree' = (IF treeRows = {} THEN 0 ELSE P!Max(treeRows))
      BY <1>13 DEF P!Restart, P!onChain, P!inTables
    <2>3. lastTree' \in Nat /\ lastTree' <= stored
      <3>1. CASE treeRows = {}
        BY <1>1, <1>2, <2>2, <3>1
      <3>2. CASE treeRows # {}
        <4>1. stored - 1 \in Nat
          BY <1>2, <3>2
        <4>2. Max(treeRows) \in 0 .. stored - 1
          BY <1>2, <3>2, <4>1, MaxOfInterval
        <4> QED
          BY <1>1, <2>1, <2>2, <3>2, <4>1, <4>2
      <3> QED
        BY <3>1, <3>2
    <2> QED
      BY <1>1, <1>2, <2>2, <2>3 DEF PoolTrees
  <1> QED
    BY <1>4, <1>5, <1>6, <1>7, <1>8, <1>10, <1>11, <1>12, <1>13, ComponentSteps
       DEF P!Next, P!Loop

\* Every step keeps the place of the loop and its counters.
LEMMA PoolRoundStep ==
    ASSUME PoolRound, [Next]_vars
    PROVE  PoolRound'
  <1>1. {MaxRpFaults, MaxRpRestarts} \subseteq Nat
        /\ TreesEvery \in Nat \ {0} /\ NodesEvery \in Nat \ {0}
    BY RoundsAssumption DEF P!RocketPoolAssumption
  <1>2. PICK rounds \in Nat \ {0} : rounds = TreesEvery * NodesEvery
    <2>1. 1 * NodesEvery <= TreesEvery * NodesEvery
      BY <1>1, ProductMonotonic
    <2> QED
      BY <1>1, <2>1
  <1>3. count \in 0 .. rounds - 1
    BY <1>2 DEF PoolRound
  <1>4. /\ phase \in {"update", "save", "stopped"} /\ lookOld \in BOOLEAN
        /\ rpFaults \in 0 .. MaxRpFaults /\ rpRestarts \in 0 .. MaxRpRestarts
    BY DEF PoolRound
  <1>5. \/ UNCHANGED ofRocketPool \/ P!Publish
        \/ \E n \in Nodes : P!Register(n) \/ \E i \in P!Intervals : P!Claim(n, i)
        \/ P!Update \/ P!Save \/ P!RefreshFails
        \/ \E written \in BOOLEAN : P!SaveFails(written)
        \/ \E ok \in BOOLEAN : P!Restart(ok)
    BY Zenon, ComponentSteps DEF P!Next, P!Loop
  <1>6. CASE \/ UNCHANGED ofRocketPool \/ P!Publish
             \/ \E n \in Nodes : P!Register(n) \/ \E i \in P!Intervals : P!Claim(n, i)
    <2>1. UNCHANGED <<count, phase, lookOld, rpFaults, rpRestarts>>
      BY Zenon, <1>6 DEF ofRocketPool, P!Publish, P!Register, P!Claim, P!inMemory
    <2> QED
      BY Zenon, <1>4, <2>1 DEF PoolRound
  <1>7. CASE \/ P!Update \/ P!Save \/ P!RefreshFails
             \/ \E written \in BOOLEAN : P!SaveFails(written)
             \/ \E ok \in BOOLEAN : P!Restart(ok)
    <2>1. count' \in 0 .. rounds - 1
      <3>1. count' = count \/ count' = 0 \/ count' = (count + 1) % rounds
        BY <1>2, <1>7 DEF P!Update, P!Save, P!RefreshFails, P!SaveFails, P!Restart
      <3> QED
        BY <1>2, <1>3, <3>1
    <2>2. phase' \in {"update", "save", "stopped"}
      BY Zenon, <1>4, <1>7 DEF P!Update, P!Save, P!RefreshFails, P!SaveFails, P!Restart
    <2>3. lookOld' \in BOOLEAN
      <3>1. ASSUME NEW ok \in BOOLEAN, P!DownloadTrees(ok)
            PROVE  lookOld' \in BOOLEAN
        BY Zenon, <1>4, <3>1 DEF P!DownloadTrees
      <3>2. CASE P!Update
        <4>1. (\E ok \in BOOLEAN : P!DownloadTrees(ok)) \/ UNCHANGED <<queue, lastTree, lookOld>>
          BY <3>2 DEF P!Update
        <4> QED
          BY Zenon, <1>4, <3>1, <4>1
      <3>3. CASE \/ P!Save \/ P!RefreshFails
                 \/ \E written \in BOOLEAN : P!SaveFails(written)
                 \/ \E ok \in BOOLEAN : P!Restart(ok)
        BY Zenon, <1>4, <3>3 DEF P!Save, P!RefreshFails, P!SaveFails, P!Restart
      <3> QED
        BY <1>7, <3>2, <3>3
    <2>4. rpFaults' \in 0 .. MaxRpFaults
      <3>1. rpFaults \in 0 .. MaxRpFaults /\ MaxRpFaults \in Nat
        BY <1>1, <1>4
      <3>2. CASE P!Update
        BY <3>1, <3>2 DEF P!Update
      <3>3. CASE P!Save \/ P!RefreshFails
        BY <3>1, <3>3 DEF P!Save, P!RefreshFails
      <3>4. ASSUME NEW written \in BOOLEAN, P!SaveFails(written)
            PROVE  rpFaults' \in 0 .. MaxRpFaults
        BY <3>1, <3>4 DEF P!SaveFails
      <3>5. ASSUME NEW ok \in BOOLEAN, P!Restart(ok)
            PROVE  rpFaults' \in 0 .. MaxRpFaults
        BY <3>1, <3>5 DEF P!Restart
      <3> QED
        BY <1>7, <3>2, <3>3, <3>4, <3>5
    <2>5. rpRestarts' \in 0 .. MaxRpRestarts
      <3>1. rpRestarts \in 0 .. MaxRpRestarts /\ MaxRpRestarts \in Nat
        BY <1>1, <1>4
      <3>2. CASE P!Update
        BY <3>1, <3>2 DEF P!Update
      <3>3. CASE P!Save \/ P!RefreshFails
        BY <3>1, <3>3 DEF P!Save, P!RefreshFails
      <3>4. ASSUME NEW written \in BOOLEAN, P!SaveFails(written)
            PROVE  rpRestarts' \in 0 .. MaxRpRestarts
        BY <3>1, <3>4 DEF P!SaveFails
      <3>5. ASSUME NEW ok \in BOOLEAN, P!Restart(ok)
            PROVE  rpRestarts' \in 0 .. MaxRpRestarts
        BY <3>1, <3>5 DEF P!Restart
      <3> QED
        BY <1>7, <3>2, <3>3, <3>4, <3>5
    <2> QED
      BY Zenon, <1>2, <2>1, <2>2, <2>3, <2>4, <2>5 DEF PoolRound
  <1> QED
    BY <1>5, <1>6, <1>7

\* Sums stay sums when trees and claims are added.
LEMMA SumsStay ==
    ASSUME NEW s, NEW trees, NEW more, NEW claimed, NEW others,
           SumOf(s, trees, claimed), trees \subseteq more, claimed \subseteq others
    PROVE  SumOf(s, more, others)
  BY DEF SumOf

\* A sum read now is over the trees in memory, or nothing is summed.
LEMMA SummedIsSum ==
    ASSUME PoolTrees, PoolSums, NEW n \in registered, NEW all
    PROVE  /\ SumOf(P!Summed(n, all), treeRows, claims[n])
           /\ n \in DOMAIN nodeRows => nodeRows[n].claimed \subseteq P!Summed(n, all).claimed
  <1> DEFINE sum == [claimed |-> claims[n] \cap treeData,
                     unclaimed |-> P!Unclaimed(n) \cap treeData]
  <1>1. MaxTrees \in Nat /\ published \in 0 .. MaxTrees
        /\ (treeData = {} \/ treeData = treeRows)
    BY RoundsAssumption DEF P!RocketPoolAssumption, PoolTrees
  <1>2. claims[n] \subseteq 0 .. MaxTrees - 1
    BY DEF PoolSums
  <1>3. P!Unclaimed(n) \subseteq 0 .. MaxTrees - 1 /\ P!Unclaimed(n) \cap claims[n] = {}
    BY <1>1 DEF P!Unclaimed, P!Intervals
  <1>4. n \in DOMAIN nodeRows =>
          nodeRows[n].claimed \subseteq treeRows /\ nodeRows[n].claimed \subseteq claims[n]
    BY DEF PoolSums, SumOf
  <1>5. CASE P!Summed(n, all) = sum /\ treeData # {}
    <2>1. treeData = treeRows
      BY <1>1, <1>5
    <2>2. sum \in P!Sums
      BY <1>2, <1>3 DEF P!Sums
    <2>3. SumOf(sum, treeRows, claims[n])
      BY <1>3, <2>1, <2>2 DEF SumOf
    <2>4. n \in DOMAIN nodeRows => nodeRows[n].claimed \subseteq sum.claimed
      BY <1>4, <2>1
    <2> QED
      BY Zenon, <1>5, <2>3, <2>4
  <1>6. CASE n \in DOMAIN nodes /\ P!Summed(n, all) = nodes[n]
    BY <1>6 DEF PoolSums
  <1>7. CASE n \notin DOMAIN nodes /\ treeData = {} /\ P!Summed(n, all) = P!Zero
    <2>1. SumOf(P!Zero, treeRows, claims[n])
      BY DEF SumOf, P!Zero, P!Sums
    <2>2. ASSUME n \in DOMAIN nodeRows
          PROVE  nodeRows[n].claimed = {}
      <3>1. treeRows = {}
        BY <1>7, <2>2 DEF PoolSums
      <3> QED
        BY <1>4, <2>2, <3>1
    <2> QED
      BY <1>7, <2>1, <2>2
  <1>8. \/ P!Summed(n, all) = sum /\ treeData # {}
        \/ n \in DOMAIN nodes /\ P!Summed(n, all) = nodes[n]
        \/ n \notin DOMAIN nodes /\ treeData = {} /\ P!Summed(n, all) = P!Zero
    BY Zenon DEF P!Summed
  <1> HIDE DEF sum
  <1> QED
    BY Zenon, <1>5, <1>6, <1>7, <1>8

\* What is written is what is in memory, and a row that is not in memory stays.
LEMMA WritingKeepsSums ==
    ASSUME PoolSums, NEW trees, treeRows \subseteq trees
    PROVE  /\ DOMAIN P!Upserted = DOMAIN nodeRows \cup DOMAIN nodes
           /\ \A n \in DOMAIN P!Upserted : SumOf(P!Upserted[n], trees, claims[n])
           /\ \A n \in DOMAIN nodes : P!Upserted[n] = nodes[n]
           /\ \A n \in DOMAIN nodeRows : nodeRows[n].claimed \subseteq P!Upserted[n].claimed
  <1>1. DOMAIN P!Upserted = DOMAIN nodeRows \cup DOMAIN nodes
    BY DEF P!Upserted
  <1>2. \A n \in DOMAIN nodes : P!Upserted[n] = nodes[n]
    BY DEF P!Upserted
  <1>3. \A n \in DOMAIN nodeRows \ DOMAIN nodes : P!Upserted[n] = nodeRows[n]
    BY DEF P!Upserted
  <1>4. ASSUME NEW n \in DOMAIN P!Upserted
        PROVE  SumOf(P!Upserted[n], trees, claims[n])
    <2>1. SumOf(P!Upserted[n], treeRows, claims[n])
      BY Zenon, <1>1, <1>2, <1>3, <1>4 DEF PoolSums
    <2> QED
      BY <2>1, SumsStay
  <1>5. ASSUME NEW n \in DOMAIN nodeRows
        PROVE  nodeRows[n].claimed \subseteq P!Upserted[n].claimed
    BY <1>2, <1>3 DEF PoolSums
  <1> QED
    BY <1>1, <1>2, <1>4, <1>5

\* Every step keeps the sums.
LEMMA PoolSumsStep ==
    ASSUME PoolTrees, PoolSums, [Next]_vars
    PROVE  PoolSums'
  <1>1. MaxTrees \in Nat /\ published \in 0 .. MaxTrees
        /\ (treeData = {} \/ treeData = treeRows)
    BY RoundsAssumption DEF P!RocketPoolAssumption, PoolTrees
  <1>2. CASE UNCHANGED ofRocketPool
    BY <1>2 DEF ofRocketPool, PoolSums
  <1>3. CASE P!Publish
    BY <1>3 DEF P!Publish, P!inMemory, P!inTables, PoolSums
  <1>4. ASSUME NEW n \in Nodes, P!Register(n)
        PROVE  PoolSums'
    BY <1>4 DEF P!Register, P!inMemory, P!inTables, PoolSums
  <1>5. ASSUME NEW n \in Nodes, NEW i \in P!Intervals, P!Claim(n, i)
        PROVE  PoolSums'
    <2>1. UNCHANGED <<registered, phase, treeData, nodes, treeRows, nodeRows>>
      BY <1>5 DEF P!Claim, P!inMemory, P!inTables
    <2>2. claims' = [claims EXCEPT ![n] = @ \cup {i}] /\ i \in 0 .. MaxTrees - 1
      BY <1>1, <1>5 DEF P!Claim, P!Intervals
    <2>3. claims' \in [Nodes -> SUBSET (0 .. MaxTrees - 1)]
      BY <2>2 DEF PoolSums
    <2>4. \A m \in Nodes : claims[m] \subseteq claims'[m]
      BY <2>2 DEF PoolSums
    <2>5. DOMAIN nodes \subseteq Nodes /\ DOMAIN nodeRows \subseteq Nodes
      BY DEF PoolSums
    <2>6. \A m \in DOMAIN nodes : SumOf(nodes[m], treeRows, claims'[m])
      BY <2>4, <2>5, SumsStay DEF PoolSums
    <2>7. \A m \in DOMAIN nodeRows : SumOf(nodeRows[m], treeRows, claims'[m])
      BY <2>4, <2>5, SumsStay DEF PoolSums
    <2> QED
      BY <2>1, <2>3, <2>6, <2>7 DEF PoolSums
  <1>6. CASE P!Update
    <2>1. UNCHANGED <<registered, claims, treeData, treeRows, nodeRows>>
      BY <1>6 DEF P!Update, P!onChain, P!inTables
    <2>2. PICK ok \in BOOLEAN :
            P!UpdateNodes(ok) /\ (ok \/ phase' = phase) /\ phase = "update"
      BY <1>6 DEF P!Update
    <2>3. PICK read \in SUBSET registered :
            /\ ok => read = registered
            /\ nodes' = [n \in DOMAIN nodes \cup read |->
                          IF n \in read THEN P!Summed(n, count % NodesEvery = 0) ELSE nodes[n]]
      BY <2>2 DEF P!UpdateNodes
    <2>4. DOMAIN nodes' = DOMAIN nodes \cup read
      BY <2>3
    <2>5. \A n \in read : nodes'[n] = P!Summed(n, count % NodesEvery = 0)
      BY <2>3
    <2>6. \A n \in DOMAIN nodes \ read : nodes'[n] = nodes[n]
      BY <2>3
    <2>7. ASSUME NEW n \in DOMAIN nodes'
          PROVE  /\ SumOf(nodes'[n], treeRows, claims[n])
                 /\ n \in DOMAIN nodeRows => nodeRows[n].claimed \subseteq nodes'[n].claimed
      <3>1. CASE n \in read
        <4>1. n \in registered
          BY <3>1
        <4>2. nodes'[n] = P!Summed(n, count % NodesEvery = 0)
          BY <2>5, <3>1
        <4> QED
          BY <4>1, <4>2, SummedIsSum
      <3>2. CASE n \notin read
        <4>1. n \in DOMAIN nodes /\ nodes'[n] = nodes[n]
          BY <2>4, <2>6, <3>2
        <4> QED
          BY <4>1 DEF PoolSums
      <3> QED
        BY <3>1, <3>2
    <2>8. phase' = "save" \/ (treeData = {} /\ treeRows # {})
            => DOMAIN nodeRows \subseteq DOMAIN nodes'
      <3>1. CASE phase' = "save"
        BY <2>2, <2>3, <2>4, <3>1 DEF PoolSums
      <3>2. CASE treeData = {} /\ treeRows # {}
        BY <2>4, <3>2 DEF PoolSums
      <3> QED
        BY <3>1, <3>2
    <2>9. DOMAIN nodes' \subseteq registered
      BY <2>4 DEF PoolSums
    <2> QED
      BY <2>1, <2>7, <2>8, <2>9 DEF PoolSums
  <1>7. ASSUME phase = "save", phase' = "update", nodeRows' = P!Upserted \/ nodeRows' = nodeRows,
               UNCHANGED <<registered, claims, nodes>>, treeRows \subseteq treeRows'
        PROVE  PoolSums'
    <2>1. DOMAIN nodeRows \subseteq DOMAIN nodes
      BY <1>7 DEF PoolSums
    <2>2. DOMAIN nodeRows' \subseteq DOMAIN nodes
      BY <1>7, <2>1, WritingKeepsSums
    <2>3. \A n \in DOMAIN nodeRows' : SumOf(nodeRows'[n], treeRows', claims[n])
      <3>1. CASE nodeRows' = P!Upserted
        BY <1>7, <3>1, WritingKeepsSums
      <3>2. CASE nodeRows' = nodeRows
        BY <1>7, <3>2, SumsStay DEF PoolSums
      <3> QED
        BY <1>7, <3>1, <3>2
    <2>4. \A n \in DOMAIN nodes : SumOf(nodes[n], treeRows', claims[n])
      BY <1>7, SumsStay DEF PoolSums
    <2>5. \A n \in DOMAIN nodes \cap DOMAIN nodeRows' :
            nodeRows'[n].claimed \subseteq nodes[n].claimed
      <3>1. CASE nodeRows' = P!Upserted
        BY <1>7, <3>1, WritingKeepsSums
      <3>2. CASE nodeRows' = nodeRows
        BY <3>2 DEF PoolSums
      <3> QED
        BY <1>7, <3>1, <3>2
    <2>6. registered' = registered /\ claims' = claims /\ nodes' = nodes
      BY <1>7
    <2>7. DOMAIN nodes \subseteq registered /\ registered \subseteq Nodes
          /\ claims \in [Nodes -> SUBSET (0 .. MaxTrees - 1)]
      BY DEF PoolSums
    <2> QED
      BY <2>2, <2>3, <2>4, <2>5, <2>6, <2>7 DEF PoolSums
  <1>8. CASE P!Save
    BY <1>7, <1>8 DEF P!Save, P!onChain
  <1>9. CASE P!RefreshFails
    BY <1>7, <1>9 DEF P!RefreshFails, P!onChain
  <1>10. ASSUME NEW written \in BOOLEAN, P!SaveFails(written)
         PROVE  PoolSums'
    <2>1. nodeRows' = P!Upserted \/ nodeRows' = nodeRows
      BY <1>10 DEF P!SaveFails
    <2> QED
      BY <1>7, <1>10, <2>1 DEF P!SaveFails, P!onChain
  <1>11. ASSUME NEW ok \in BOOLEAN, P!Restart(ok)
         PROVE  PoolSums'
    <2>1. DOMAIN nodes' = {}
      BY <1>11 DEF P!Restart, P!NoNodes
    <2>2. UNCHANGED <<registered, claims, treeRows, nodeRows>> /\ treeData' = treeRows'
          /\ phase' # "save"
      BY <1>11 DEF P!Restart, P!onChain, P!inTables
    <2> QED
      BY <2>1, <2>2 DEF PoolSums
  <1> QED
    BY <1>2, <1>3, <1>4, <1>5, <1>6, <1>8, <1>9, <1>10, <1>11, ComponentSteps
       DEF P!Next, P!Loop

\* Every step keeps the invariant.
LEMMA PoolInvStep ==
    ASSUME PoolInv, [Next]_vars
    PROVE  PoolInv'
  BY PoolTreesStep, PoolSumsStep, PoolRoundStep DEF PoolInv

\* A step that changes the rows takes no claimed interval out of one.
LEMMA RewardsGrowStep ==
    ASSUME PoolInv, [Next]_vars
    PROVE  nodeRows' # nodeRows =>
             \A n \in DOMAIN nodeRows :
               n \in DOMAIN nodeRows' /\ nodeRows[n].claimed \subseteq nodeRows'[n].claimed
  <1>1. nodeRows' = nodeRows \/ nodeRows' = P!Upserted
    BY Zenon, ComponentSteps
       DEF ofRocketPool, P!Next, P!Loop, P!Publish, P!Register, P!Claim, P!Update, P!Save,
           P!RefreshFails, P!SaveFails, P!Restart, P!inTables
  <1> QED
    BY <1>1, WritingKeepsSums DEF PoolInv

-----------------------------------------------------------------------------
(* Relays *)

\* The payloads an answer is cut from.
Listed == {p \in delivered : offset = 0 \/ p <= offset}
Above(p) == {q \in Listed : q > p}

RelayNumbers ==
  /\ delivered \subseteq L!Payloads /\ blocks \subseteq L!Payloads
  /\ used \subseteq delivered \cap blocks /\ inserted \subseteq delivered \cap blocks
  /\ due \subseteq delivered \cap blocks
  /\ low \in 0 .. MaxPayload /\ offset \in 0 .. MaxPayload
  /\ relayFaults \in 0 .. MaxRelayFaults

\* A walk from the head has stored what it has to store from its cursor on.
FromTheHead ==
  /\ low = 0 \/ low = L!Newest
  /\ \A p \in due : p + Overlap >= L!Newest \/ \A q \in used : p < q
  /\ \A p \in inserted : offset # 0 /\ p >= offset
  /\ \A p \in due : offset # 0 /\ p >= offset => p \in inserted

\* The second walk goes on below what is stored.
FromTheOldest ==
  /\ low = 0 /\ offset # 0
  /\ \A p \in due : p >= offset => p \in used \cup inserted

RelayInv ==
  /\ RelayNumbers
  /\ walk \in {"idle", "new", "old"}
  /\ walk = "idle" => due \subseteq used
  /\ walk = "new" => FromTheHead
  /\ walk = "old" => FromTheOldest

\* The invariant implies the types and the property.
LEMMA RelayInvImplies ==
    ASSUME RelayInv
    PROVE  L!TypeOK /\ L!WalkIsComplete
  <1>1. L!WalkIsComplete
    BY DEF RelayInv, L!WalkIsComplete
  <1> QED
    BY <1>1 DEF RelayInv, RelayNumbers, L!TypeOK

\* Nothing is delivered at the start.
LEMMA RelayInvInit ==
    ASSUME Init
    PROVE  RelayInv
  BY RoundsAssumption DEF Init, L!Init, L!RelayAssumption, RelayInv, RelayNumbers

\* Slots are natural numbers and sets of them are finite.
LEMMA SlotSets ==
    ASSUME NEW S, S \subseteq L!Payloads
    PROVE  /\ S \subseteq 0 .. MaxPayload /\ IsFiniteSet(S) /\ Cardinality(S) \in Nat
           /\ L!Cardinality(S) = Cardinality(S)
           /\ S # {} => /\ L!Max(S) \in S /\ \A y \in S : L!Max(S) >= y
                        /\ L!Min(S) \in S /\ \A y \in S : L!Min(S) <= y
  <1>1. MaxPayload \in Nat
    BY RoundsAssumption DEF L!RelayAssumption
  <1>2. S \subseteq 0 .. MaxPayload
    BY <1>1 DEF L!Payloads
  <1>3. IsFiniteSet(0 .. MaxPayload)
    BY <1>1, FS_Interval
  <1>4. IsFiniteSet(S)
    BY <1>2, <1>3, FS_Subset
  <1>5. Cardinality(S) \in Nat
    BY <1>4, FS_CardinalityType
  <1>6. L!Cardinality(S) = Cardinality(S) /\ L!Max(S) = Max(S) /\ L!Min(S) = Min(S)
    BY Zenon DEF L!Cardinality, Cardinality, L!Max, Max, L!Min, Min
  <1>7. ASSUME S # {}
        PROVE  /\ Max(S) \in S /\ \A y \in S : Max(S) >= y
               /\ Min(S) \in S /\ \A y \in S : Min(S) <= y
    BY <1>1, <1>2, <1>7, MaxOfInterval, MinOfInterval
  <1> QED
    BY <1>2, <1>4, <1>5, <1>6, <1>7

\* The newest payload stored is a slot, and 0 stands for none.
LEMMA NewestOfUsed ==
    ASSUME RelayNumbers
    PROVE  /\ L!Newest \in 0 .. MaxPayload
           /\ used = {} => L!Newest = 0
           /\ used # {} => L!Newest \in used
  <1>1. used \subseteq L!Payloads /\ MaxPayload \in Nat
    BY RoundsAssumption DEF L!RelayAssumption, RelayNumbers
  <1>2. used # {} => L!Max(used) \in used /\ L!Max(used) \in 0 .. MaxPayload
    BY <1>1, SlotSets
  <1> QED
    BY <1>1, <1>2 DEF L!Newest

\* A page holds the newest payloads of the list, all of it when it is not full.
LEMMA PageIsNewest ==
    ASSUME RelayNumbers
    PROVE  /\ L!Page \subseteq Listed /\ Listed \subseteq L!Payloads
           /\ \A x \in L!Page, y \in Listed : x <= y => y \in L!Page
           /\ L!Cardinality(L!Page) < PageSize => L!Page = Listed
  <1>1. PageSize \in Nat \ {0} /\ MaxPayload \in Nat
    BY RoundsAssumption DEF L!RelayAssumption
  <1>2. Listed \subseteq L!Payloads
    BY DEF RelayNumbers, Listed
  <1>3. L!Page = {p \in Listed : L!Cardinality(Above(p)) < PageSize}
    BY DEF L!Page, Listed, Above
  <1>4. \A x : /\ Above(x) \subseteq L!Payloads /\ L!Cardinality(Above(x)) = Cardinality(Above(x))
               /\ IsFiniteSet(Above(x)) /\ Cardinality(Above(x)) \in Nat
    <2> TAKE x
    <2>1. Above(x) \subseteq L!Payloads
      BY <1>2 DEF Above
    <2> QED
      BY <2>1, SlotSets
  <1>5. ASSUME NEW x \in L!Page, NEW y \in Listed, x <= y
        PROVE  y \in L!Page
    <2>1. Above(y) \subseteq Above(x)
      <3>1. x \in Listed /\ \A z \in Listed : z \in Nat
        BY <1>1, <1>2, <1>3 DEF L!Payloads
      <3>2. \A z \in Listed : z > y => z > x
        BY <1>5, <3>1
      <3> QED
        BY <3>2 DEF Above
    <2>2. Cardinality(Above(y)) <= Cardinality(Above(x))
      BY <1>4, <2>1, FS_Subset
    <2>3. L!Cardinality(Above(x)) < PageSize
      BY <1>3
    <2>4. L!Cardinality(Above(y)) < PageSize
      BY <1>1, <1>4, <2>2, <2>3
    <2> QED
      BY <1>3, <2>4
  <1>6. ASSUME L!Cardinality(L!Page) < PageSize
        PROVE  L!Page = Listed
    <2> SUFFICES ASSUME Listed \ L!Page # {}
                 PROVE  FALSE
      BY <1>3
    <2> DEFINE left == Listed \ L!Page
               m == L!Max(left)
    <2>1. left \subseteq L!Payloads
      BY <1>2
    <2> HIDE DEF left
    <2>2. m \in left /\ \A y \in left : m >= y
      BY <2>1, SlotSets DEF left
    <2>3. Above(m) \subseteq L!Page
      <3>1. m \in Listed /\ \A z \in Listed : z \in Nat
        BY <1>1, <1>2, <2>2 DEF L!Payloads, left
      <3>2. \A y \in Above(m) : y \in Listed /\ ~ (m >= y)
        BY <3>1 DEF Above
      <3> QED
        BY <2>2, <3>2 DEF left
    <2>4. L!Page \subseteq L!Payloads
      BY <1>2, <1>3
    <2>5. IsFiniteSet(L!Page) /\ L!Cardinality(L!Page) = Cardinality(L!Page)
          /\ Cardinality(L!Page) \in Nat
      BY <2>4, SlotSets
    <2>6. Cardinality(Above(m)) <= Cardinality(L!Page)
      BY <2>3, <2>5, FS_Subset
    <2>7. L!Cardinality(Above(m)) < PageSize
      BY <1>1, <1>4, <1>6, <2>5, <2>6
    <2>8. m \in Listed /\ m \notin L!Page
      BY <2>2 DEF left
    <2> HIDE DEF m
    <2> QED
      BY <1>3, <2>7, <2>8
  <1>7. L!Page \subseteq Listed
    BY <1>3
  <1> QED
    BY <1>2, <1>5, <1>6, <1>7

\* A page from the head or below what was stored: what is due is stored, in the
\* open transaction or in the page, down to the least payload of the page.
LEMMA PageCovers ==
    ASSUME RelayInv, walk # "idle", NEW x \in L!Page, NEW p \in due, p >= x
    PROVE  \/ p \in inserted \cup (L!Page \cap blocks)
           \/ walk = "old" /\ p \in used
  <1>1. MaxPayload \in Nat
    BY RoundsAssumption DEF L!RelayAssumption
  <1>2. /\ p \in delivered /\ p \in blocks /\ p \in 0 .. MaxPayload
        /\ offset \in 0 .. MaxPayload
    BY <1>1 DEF RelayInv, RelayNumbers, L!Payloads
  <1>3. x \in 0 .. MaxPayload
    BY <1>1, PageIsNewest DEF RelayInv, L!Payloads
  <1>4. CASE p \in Listed
    <2>1. p \in L!Page
      BY <1>2, <1>3, <1>4, PageIsNewest DEF RelayInv
    <2> QED
      BY <1>2, <2>1
  <1>5. CASE p \notin Listed
    <2>1. offset # 0 /\ p >= offset
      BY <1>2, <1>5 DEF Listed
    <2> QED
      BY <2>1 DEF RelayInv, FromTheHead, FromTheOldest
  <1> QED
    BY <1>4, <1>5

\* When all that is listed is in the page, all that is due is stored with it.
LEMMA WholePageCovers ==
    ASSUME RelayInv, walk # "idle", L!Page = Listed, NEW p \in due
    PROVE  p \in used \cup inserted \cup (L!Page \cap blocks)
  <1>1. p \in delivered /\ p \in blocks /\ p \in Nat /\ offset \in Nat
    BY RoundsAssumption DEF RelayInv, RelayNumbers, L!Payloads, L!RelayAssumption
  <1>2. CASE p \in Listed
    BY <1>1, <1>2
  <1>3. CASE p \notin Listed
    <2>1. offset # 0 /\ p >= offset
      BY <1>1, <1>3 DEF Listed
    <2> QED
      BY <2>1 DEF RelayInv, FromTheHead, FromTheOldest
  <1> QED
    BY <1>2, <1>3

\* A page that is not the last one.
LEMMA WalkKeeps ==
    ASSUME RelayInv, L!Walk
    PROVE  RelayInv'
  <1>1. MaxPayload \in Nat /\ PageSize \in Nat \ {0}
    BY RoundsAssumption DEF L!RelayAssumption
  <1>2. L!Page \subseteq Listed /\ Listed \subseteq L!Payloads
        /\ ~ (L!Cardinality(L!Page) < PageSize)
    BY PageIsNewest DEF RelayInv, L!Walk, L!LastPage
  <1>3. L!Page \subseteq L!Payloads
    BY <1>2
  <1>4. L!Page # {}
    <2>1. L!Cardinality(L!Page) = Cardinality(L!Page) /\ Cardinality(L!Page) \in Nat
          /\ IsFiniteSet(L!Page)
      BY <1>3, SlotSets
    <2>2. Cardinality(L!Page) # 0
      BY <1>1, <1>2, <2>1
    <2> QED
      BY <2>2, FS_EmptySet
  <1>5. L!Min(L!Page) \in L!Page /\ \A y \in L!Page : L!Min(L!Page) <= y
    BY <1>3, <1>4, SlotSets
  <1>6. PICK x \in L!Page : x = L!Min(L!Page) /\ \A y \in L!Page : x <= y
    BY <1>5
  <1>7. /\ walk # "idle" /\ walk' = walk /\ offset' = x
        /\ inserted' = inserted \cup (L!Page \cap blocks)
        /\ UNCHANGED <<delivered, blocks, used, low, due, relayFaults>>
    BY <1>6 DEF L!Walk
  <1>8. x \in 1 .. MaxPayload /\ (offset = 0 \/ x <= offset) /\ L!Page \subseteq delivered
    BY <1>2, <1>3 DEF L!Payloads, Listed
  <1>9. RelayNumbers'
    BY <1>1, <1>7, <1>8 DEF RelayInv, RelayNumbers
  <1>10. L!Newest' = L!Newest
    BY <1>7 DEF L!Newest
  <1>11. ASSUME NEW p \in due, p >= x
         PROVE  p \in inserted' \/ (walk = "old" /\ p \in used)
    BY <1>7, <1>11, PageCovers
  <1>12. CASE walk = "new"
    <2>1. \A p \in inserted' : p >= x
      <3> TAKE p \in inserted'
      <3>1. CASE p \in inserted
        <4>1. offset # 0 /\ p >= offset /\ p \in Nat /\ offset \in Nat
          BY <1>1, <1>12, <3>1 DEF RelayInv, FromTheHead, RelayNumbers, L!Payloads
        <4> QED
          BY <1>8, <4>1
      <3>2. CASE p \in L!Page
        <4>1. x <= p /\ p \in Nat
          BY <1>1, <1>3, <1>6, <3>2 DEF L!Payloads
        <4> QED
          BY <1>8, <4>1
      <3> QED
        BY <1>7, <3>1, <3>2
    <2>2. \A p \in due : p >= x => p \in inserted'
      BY <1>11, <1>12
    <2>3. (low = 0 \/ low = L!Newest)
          /\ \A p \in due : p + Overlap >= L!Newest \/ \A q \in used : p < q
      BY <1>12 DEF RelayInv, FromTheHead
    <2>4. FromTheHead'
      BY <1>7, <1>8, <1>10, <2>1, <2>2, <2>3 DEF FromTheHead
    <2> QED
      BY <1>7, <1>9, <1>12, <2>4 DEF RelayInv
  <1>13. CASE walk = "old"
    <2>1. FromTheOldest'
      BY <1>7, <1>8, <1>11, <1>13 DEF RelayInv, FromTheOldest
    <2> QED
      BY <1>7, <1>9, <1>13, <2>1 DEF RelayInv
  <1> QED
    BY <1>7, <1>12, <1>13 DEF RelayInv

\* The last page and the commit.
LEMMA FinishKeeps ==
    ASSUME RelayInv, L!Finish
    PROVE  RelayInv'
  <1>1. MaxPayload \in Nat /\ PageSize \in Nat \ {0} /\ Overlap \in Nat
    BY RoundsAssumption DEF L!RelayAssumption
  <1>2. L!Page \subseteq Listed /\ Listed \subseteq L!Payloads
        /\ (L!Cardinality(L!Page) < PageSize => L!Page = Listed)
    BY PageIsNewest DEF RelayInv
  <1>3. /\ walk # "idle" /\ L!LastPage
        /\ used' = used \cup inserted \cup (L!Page \cap blocks)
        /\ inserted' = {} /\ UNCHANGED <<delivered, blocks, due, relayFaults>>
    BY DEF L!Finish
  <1>4. L!Page \subseteq delivered
    BY <1>2 DEF Listed
  <1>5. used' \subseteq L!Payloads /\ used' \subseteq delivered \cap blocks
    BY <1>3, <1>4 DEF RelayInv, RelayNumbers
  <1>6. used' # {} => L!Min(used') \in used' /\ \A y \in used' : L!Min(used') <= y
    BY <1>5, SlotSets
  <1>7. \/ walk = "new" /\ used' # {} /\ walk' = "old" /\ low' = 0 /\ offset' = L!Min(used')
        \/ ~ (walk = "new" /\ used' # {}) /\ walk' = "idle" /\ low' = 0 /\ offset' = 0
    BY Zenon DEF L!Finish
  <1>8. RelayNumbers'
    <2>1. offset' \in 0 .. MaxPayload /\ low' \in 0 .. MaxPayload
      <3>1. \A y \in used' : y \in 0 .. MaxPayload
        BY <1>1, <1>5 DEF L!Payloads
      <3> QED
        BY <1>1, <1>6, <1>7, <3>1
    <2> QED
      BY <1>3, <1>5, <2>1 DEF RelayInv, RelayNumbers
  <1>9. ASSUME L!Page = Listed
        PROVE  due \subseteq used'
    BY <1>3, <1>9, WholePageCovers
  <1>10. ASSUME ~ (L!Page = Listed)
         PROVE  walk = "new" /\ used # {}
                /\ \E x \in L!Page : \A p \in due : ~ (p >= x) => \A q \in used : p < q
    <2>1. PICK x \in L!Page : x < L!MinSlot
      BY <1>2, <1>3, <1>10 DEF L!LastPage
    <2>2. x \in 0 .. MaxPayload
      BY <1>1, <1>2 DEF L!Payloads
    <2>3. low \in 0 .. MaxPayload
      BY DEF RelayInv, RelayNumbers
    <2>4. low > Overlap /\ x < low - Overlap
      BY <1>1, <2>1, <2>2, <2>3 DEF L!MinSlot
    <2>5. walk = "new"
      BY <1>1, <1>3, <2>3, <2>4 DEF RelayInv, FromTheOldest
    <2>6. low = L!Newest
      BY <1>1, <2>3, <2>4, <2>5 DEF RelayInv, FromTheHead
    <2>7. used # {}
      BY <1>1, <2>4, <2>6, NewestOfUsed DEF RelayInv
    <2>8. ASSUME NEW p \in due, ~ (p >= x)
          PROVE  \A q \in used : p < q
      <3>1. p \in 0 .. MaxPayload
        BY <1>1 DEF RelayInv, RelayNumbers, L!Payloads
      <3>2. ~ (p + Overlap >= L!Newest)
        BY <1>1, <2>2, <2>3, <2>4, <2>6, <2>8, <3>1
      <3> QED
        BY <2>5, <3>2 DEF RelayInv, FromTheHead
    <2> QED
      BY <2>5, <2>7, <2>8
  <1>11. ASSUME NEW p \in due, NEW u \in used', p >= u, walk = "new"
         PROVE  p \in used'
    <2>1. p \in Nat /\ u \in Nat /\ p \in blocks /\ p \in delivered /\ offset \in Nat
      BY <1>1, <1>5 DEF RelayInv, RelayNumbers, L!Payloads
    <2>2. CASE L!Page = Listed
      BY <1>9, <2>2
    <2>3. CASE ~ (L!Page = Listed)
      <3>1. PICK x \in L!Page : \A r \in due : ~ (r >= x) => \A q \in used : r < q
        BY <1>10, <2>3
      <3>2. CASE p >= x
        BY <1>3, <1>11, <3>2, PageCovers
      <3>3. CASE ~ (p >= x)
        <4>1. u \notin used
          BY <1>11, <2>1, <3>1, <3>3
        <4>2. CASE u \in L!Page
          BY <1>3, <1>11, <4>2, PageCovers
        <4>3. CASE u \in inserted
          <5>1. offset # 0 /\ u >= offset
            BY <1>11, <4>3 DEF RelayInv, FromTheHead
          <5>2. offset # 0 /\ p >= offset
            BY <1>11, <2>1, <5>1
          <5> QED
            BY <1>3, <1>11, <5>2 DEF RelayInv, FromTheHead
        <4> QED
          BY <1>3, <4>1, <4>2, <4>3
      <3> QED
        BY <3>2, <3>3
    <2> QED
      BY <2>2, <2>3
  <1>12. CASE walk = "new" /\ used' # {} /\ walk' = "old" /\ low' = 0 /\ offset' = L!Min(used')
    <2>1. offset' \in used' /\ offset' # 0
      BY <1>1, <1>5, <1>6, <1>12 DEF L!Payloads
    <2>2. \A p \in due : p >= offset' => p \in used'
      BY <1>11, <1>12, <2>1
    <2>3. FromTheOldest'
      BY <1>3, <1>12, <2>1, <2>2 DEF FromTheOldest
    <2> QED
      BY <1>8, <1>12, <2>3 DEF RelayInv
  <1>13. CASE ~ (walk = "new" /\ used' # {}) /\ walk' = "idle" /\ low' = 0 /\ offset' = 0
    <2>1. L!Page = Listed
      <3>1. CASE walk = "new"
        BY <1>3, <1>10, <1>13, <3>1
      <3>2. CASE walk # "new"
        BY <1>10, <3>2
      <3> QED
        BY <3>1, <3>2
    <2>2. due' \subseteq used'
      BY <1>3, <1>9, <2>1
    <2> QED
      BY <1>8, <1>13, <2>2 DEF RelayInv
  <1> QED
    BY <1>7, <1>12, <1>13

\* Every step of the relay, the chain export and the walk keeps the invariant.
LEMMA RelayInvStep ==
    ASSUME RelayInv, [Next]_vars
    PROVE  RelayInv'
  <1>1. MaxPayload \in Nat /\ MaxRelayFaults \in Nat /\ Overlap \in Nat
    BY RoundsAssumption DEF L!RelayAssumption
  <1>2. CASE UNCHANGED ofRelays
    BY <1>2 DEF ofRelays, RelayInv, RelayNumbers, FromTheHead, FromTheOldest, L!Newest
  <1>3. ASSUME NEW s \in L!Payloads, L!Deliver(s) \/ L!StoreBlock(s)
        PROVE  RelayInv'
    <2>1. UNCHANGED <<used, walk, low, offset, inserted, due, relayFaults>>
      BY <1>3 DEF L!Deliver, L!StoreBlock
    <2>2. /\ delivered' = delivered \cup {s} \/ delivered' = delivered
          /\ blocks' = blocks \cup {s} \/ blocks' = blocks
      BY <1>3 DEF L!Deliver, L!StoreBlock
    <2>3. RelayNumbers'
      BY <2>1, <2>2 DEF RelayInv, RelayNumbers
    <2>4. L!Newest' = L!Newest
      BY <2>1 DEF L!Newest
    <2> QED
      BY <2>1, <2>3, <2>4 DEF RelayInv, FromTheHead, FromTheOldest
  <1>4. ASSUME NEW readFails \in BOOLEAN, L!Start(readFails)
        PROVE  RelayInv'
    <2>1. /\ walk' = "new" /\ offset' = 0 /\ inserted' = {} /\ due' = L!Due
          /\ low' = 0 \/ low' = L!Newest
          /\ UNCHANGED <<delivered, blocks, used>>
      BY <1>4 DEF L!Start
    <2>2. relayFaults' \in 0 .. MaxRelayFaults
      BY <1>1, <1>4 DEF L!Start, RelayInv, RelayNumbers
    <2>3. L!Newest \in 0 .. MaxPayload
      BY NewestOfUsed DEF RelayInv
    <2>4. L!Due \subseteq delivered \cap blocks
      BY DEF L!Due
    <2>5. RelayNumbers'
      BY <1>1, <2>1, <2>2, <2>3, <2>4 DEF RelayInv, RelayNumbers
    <2>6. L!Newest' = L!Newest
      BY <2>1 DEF L!Newest
    <2>7. FromTheHead'
      BY <2>1, <2>6 DEF FromTheHead, L!Due
    <2> QED
      BY <2>1, <2>5, <2>7 DEF RelayInv
  <1>5. CASE L!Fail
    <2>1. relayFaults' \in 0 .. MaxRelayFaults
      BY <1>1, <1>5 DEF L!Fail, RelayInv, RelayNumbers
    <2>2. RelayNumbers'
      BY <1>1, <1>5, <2>1 DEF L!Fail, RelayInv, RelayNumbers
    <2> QED
      BY <1>5, <2>2 DEF L!Fail, RelayInv
  <1> QED
    BY <1>2, <1>3, <1>4, <1>5, WalkKeeps, FinishKeeps, ComponentSteps DEF L!Next, L!Export

-----------------------------------------------------------------------------
(* The collectors of notifications *)

Notices == [epoch : Nat, state : Nat \cup {N!Back, N!Keep}]
Mishaps == [stall : Nat, fault : Nat, change : Nat]
Rows == [kind : Kinds, created : Nat, epoch : Nat \cup {N!Never}, ts : Nat \cup {N!Never},
         state : Nat \cup {N!Back}, threshold : N!Thresholds]

ChainNumbers ==
  /\ head \in 2 .. MaxEpoch /\ fin \in 0 .. head - 2
  /\ attested \subseteq 0 .. head /\ 0 \in attested
  /\ proposed \subseteq 0 .. head /\ slashed \in 0 .. head \cup {N!Never}

RoundTypes ==
  /\ sub \in Rows /\ sub.created = 1
  /\ pc \in {"idle", "queue", "stamp"} /\ stamps \subseteq Nat /\ found \subseteq Notices
  /\ spent \in Mishaps
  /\ \A t \in told : t.epoch \in Nat /\ t.at \in 0 .. head

\* What a round holds between its steps: notices when it has found some, and
\* of other kinds than proposals a single one.
RoundShape ==
  /\ pc = "idle" => found = {} /\ stamps = {}
  /\ pc = "queue" => stamps = {}
  /\ pc # "idle" => found # {}
  /\ stamps \subseteq {n.epoch : n \in found}
  /\ pc # "idle" /\ sub.kind # "proposal" => \E n \in Notices : found = {n}

\* The epochs from which somebody is offline and the stages of that time.
Limit == IF sub.threshold < MinThreshold THEN MinThreshold ELSE sub.threshold
Away == head - N!LastSeen
Stage == N!LastSeen + Limit + ((Away - Limit) \div Repeat) * Repeat

\* What a collector looks at before it finds something.
Fits(n) ==
  /\ sub.kind = "slashed" =>
       n.epoch = slashed /\ slashed \in Nat
  /\ sub.kind = "attestation" => n.epoch > sub.epoch
  /\ sub.kind = "machine" =>
       sub.epoch = N!Never \/ sub.epoch < n.epoch - EpochGap["machine"]
  /\ sub.kind = "collateral" =>
       \/ sub.epoch = N!Never \/ n.epoch < EpochGap["collateral"]
       \/ sub.epoch < n.epoch - EpochGap["collateral"]
  /\ sub.kind \in N!TimeKinds =>
       sub.ts = N!Never \/ head - sub.ts >= TimeGap[sub.kind]

FitsSlashed == sub.epoch = N!Never \/ sub.epoch > fin

FitsOffline(n) ==
  \/ /\ n.state = N!LastSeen /\ n.epoch = Stage /\ Limit <= Away
     /\ sub.epoch = N!Never \/ sub.epoch # Stage
  \/ n.state = N!Back /\ n.epoch = head /\ Away < Limit /\ sub.state # N!Back

\* The constants of the collectors.
LEMMA CollectorConstants ==
           /\ {MaxEpoch, MinThreshold, Repeat, Window, LookBack} \subseteq Nat
           /\ Repeat \in Nat \ {0} /\ MaxEpoch >= 2
           /\ EpochGap["machine"] \in Nat /\ EpochGap["collateral"] \in Nat
           /\ \A k \in N!TimeKinds : TimeGap[k] \in Nat
           /\ N!Thresholds \subseteq Nat /\ Kinds \subseteq N!Names
  BY RoundsAssumption DEF N!CollectorsAssumption, N!EpochKinds, N!Thresholds

\* The epoch of the last attestation.
LEMMA LastSeenIs ==
    ASSUME ChainNumbers
    PROVE  /\ N!LastSeen \in attested /\ N!LastSeen \in 0 .. head
           /\ \A e \in attested : e <= N!LastSeen
  <1>1. N!LastSeen = Max(attested)
    <2>1. N!Max(attested) = Max(attested)
      BY Zenon DEF N!Max, Max
    <2> QED
      BY <2>1 DEF N!LastSeen
  <1>2. head \in Nat /\ attested \subseteq 0 .. head /\ attested # {}
    BY CollectorConstants DEF ChainNumbers
  <1>3. Max(attested) \in attested /\ \A e \in attested : Max(attested) >= e
    BY <1>2, MaxOfInterval
  <1> QED
    BY <1>1, <1>2, <1>3

\* The limit and the stages are numbers of epochs.
LEMMA StageIs ==
    ASSUME ChainNumbers, RoundTypes
    PROVE  /\ Limit \in Nat /\ Away \in Nat
           /\ Limit <= Away => Stage \in Nat
  <1>1. Limit \in Nat
    BY CollectorConstants DEF RoundTypes, Rows, Limit
  <1>2. N!LastSeen \in 0 .. head /\ head \in Nat
    BY LastSeenIs, CollectorConstants DEF ChainNumbers
  <1>3. Away \in Nat
    BY <1>2 DEF Away
  <1>4. ASSUME Limit <= Away
        PROVE  Stage \in Nat
    <2>1. PICK d \in Nat : d = Away - Limit
      BY <1>1, <1>3, <1>4
    <2>2. d \div Repeat \in Nat
      BY CollectorConstants, QuotientBounds
    <2>3. (d \div Repeat) * Repeat \in Nat
      BY <2>2, CollectorConstants
    <2> HIDE DEF Limit, Away
    <2> QED
      BY <1>1, <1>2, <2>1, <2>3 DEF Stage
  <1> QED
    BY <1>1, <1>3, <1>4

\* A collector finds nothing, or a notice that fits the row; the collector of
\* proposals can find several.
LEMMA FoundIs ==
    ASSUME ChainNumbers, RoundTypes, NEW f \in N!Due
    PROVE  /\ f \subseteq Notices
           /\ sub.kind # "proposal" /\ f # {} =>
                \E n \in Notices : /\ f = {n} /\ Fits(n)
                                   /\ sub.kind = "offline" => FitsOffline(n)
                                   /\ sub.kind = "slashed" => FitsSlashed
  <1>1. head \in Nat /\ fin \in Nat /\ sub.created = 1
        /\ sub.epoch \in Nat \cup {N!Never} /\ sub.ts \in Nat \cup {N!Never}
        /\ slashed \in Nat \cup {N!Never}
    BY CollectorConstants DEF ChainNumbers, RoundTypes, Rows
  <1>2. sub.kind \in N!Names
    BY CollectorConstants DEF RoundTypes, Rows
  <1>3. ASSUME NEW e \in Nat, NEW s \in Nat \cup {N!Back, N!Keep}
        PROVE  N!Notice(e, s) \in Notices /\ N!Notice(e, s).epoch = e
               /\ N!Notice(e, s).state = s
    BY <1>3 DEF N!Notice, Notices
  <1>4. CASE sub.kind = "slashed"
    <2>1. N!Due = N!Slashings
      BY <1>4 DEF N!Due
    <2>2. CASE f # {}
      <3>1. /\ f = {N!Notice(slashed, N!Keep)} /\ slashed > 0
            /\ sub.epoch = N!Never \/ sub.epoch > fin
        <4>1. PICK old \in Nat : old = IF fin > LookBack THEN fin - LookBack ELSE 0
          BY <1>1, CollectorConstants
        <4> QED
          BY <1>1, <2>1, <2>2, <4>1 DEF N!Slashings, N!Never
      <3>2. slashed \in Nat
        BY <1>1, <3>1 DEF N!Never
      <3> QED
        BY <1>3, <1>4, <3>1, <3>2 DEF Fits, FitsSlashed, N!TimeKinds
    <2> QED
      BY <2>2
  <1>5. CASE sub.kind = "proposal"
    <2>1. N!Due = N!Proposals
      BY <1>5 DEF N!Due
    <2>2. \A e \in proposed : e \in Nat
      BY <1>1 DEF ChainNumbers
    <2>3. f = {N!Notice(e, N!Keep) : e \in {p \in proposed : p >= fin - Window /\ N!New(p)}}
      BY <2>1 DEF N!Proposals
    <2>4. \A e \in proposed : N!Notice(e, N!Keep) \in Notices
      BY Zenon, <1>3, <2>2
    <2>5. f \subseteq Notices
      BY Zenon, <2>3, <2>4
    <2> QED
      BY Zenon, <1>5, <2>5
  <1>6. CASE sub.kind = "attestation"
    <2>1. N!Due = N!Attestations
      BY <1>6 DEF N!Due
    <2>2. CASE f # {}
      <3>1. PICK e \in (fin - 4) .. (fin - 2) : f = {N!Notice(e, N!Keep)} /\ e >= 0 /\ N!New(e)
        BY <2>1, <2>2 DEF N!Attestations
      <3>2. e \in Nat /\ e > sub.epoch
        BY <1>1, <3>1 DEF N!New, N!Never
      <3> QED
        BY <1>3, <1>6, <3>1, <3>2 DEF Fits, N!TimeKinds
    <2> QED
      BY <2>2
  <1>7. CASE sub.kind = "offline"
    <2>1. N!Due = N!Offline
      BY <1>7 DEF N!Due
    <2>2. Limit \in Nat /\ Away \in Nat /\ (Limit <= Away => Stage \in Nat)
      BY StageIs
    <2>3. N!LastSeen \in Nat
      BY <1>1, LastSeenIs
    <2>4. CASE f # {}
      <3>1. \/ /\ f = {N!Notice(Stage, N!LastSeen)} /\ Limit <= Away
               /\ ~ (sub.epoch # N!Never /\ sub.epoch = Stage)
            \/ f = {N!Notice(head, N!Back)} /\ ~ (Limit <= Away) /\ sub.state # N!Back
        <4>1. f \in IF Limit <= Away
                    THEN IF sub.epoch # N!Never /\ (sub.epoch = Stage \/ N!LastSeen < sub.created)
                         THEN {{}} ELSE {{N!Notice(Stage, N!LastSeen)}}
                    ELSE IF sub.state = N!Back THEN {{}} ELSE {{N!Notice(head, N!Back)}}
          BY <2>1 DEF N!Offline, Stage, Limit, Away
        <4> QED
          BY Zenon, <2>4, <4>1
      <3>2. CASE /\ f = {N!Notice(Stage, N!LastSeen)} /\ Limit <= Away
                 /\ ~ (sub.epoch # N!Never /\ sub.epoch = Stage)
        <4>1. Stage \in Nat /\ N!LastSeen \in Nat \cup {N!Back, N!Keep}
          BY <2>2, <2>3, <3>2
        <4>2. /\ N!Notice(Stage, N!LastSeen) \in Notices
              /\ N!Notice(Stage, N!LastSeen).epoch = Stage
              /\ N!Notice(Stage, N!LastSeen).state = N!LastSeen
          BY Zenon, <1>3, <4>1
        <4>3. FitsOffline(N!Notice(Stage, N!LastSeen))
          BY Zenon, <3>2, <4>2 DEF FitsOffline
        <4>4. Fits(N!Notice(Stage, N!LastSeen))
          BY <1>7 DEF Fits, N!TimeKinds
        <4> QED
          BY Zenon, <1>7, <3>2, <4>2, <4>3, <4>4
      <3>3. CASE f = {N!Notice(head, N!Back)} /\ ~ (Limit <= Away) /\ sub.state # N!Back
        <4>1. /\ N!Notice(head, N!Back) \in Notices
              /\ N!Notice(head, N!Back).epoch = head
              /\ N!Notice(head, N!Back).state = N!Back
          BY <1>1, <1>3
        <4>2. Away < Limit
          BY <2>2, <3>3
        <4>3. FitsOffline(N!Notice(head, N!Back))
          BY Zenon, <3>3, <4>1, <4>2 DEF FitsOffline
        <4>4. Fits(N!Notice(head, N!Back))
          BY <1>7 DEF Fits, N!TimeKinds
        <4> QED
          BY Zenon, <1>7, <3>3, <4>1, <4>3, <4>4
      <3> QED
        BY <3>1, <3>2, <3>3
    <2> QED
      BY <2>4
  <1>8. CASE sub.kind = "machine"
    <2>1. N!Due = N!Machine
      BY <1>8 DEF N!Due
    <2>2. CASE f # {}
      <3>1. f = {N!Notice(fin, N!Keep)}
            /\ (sub.epoch = N!Never \/ sub.epoch < fin - EpochGap["machine"])
        BY <2>1, <2>2 DEF N!Machine
      <3> QED
        BY <1>1, <1>3, <1>8, <3>1 DEF Fits, N!TimeKinds
    <2> QED
      BY <2>2
  <1>9. CASE sub.kind = "collateral"
    <2>1. N!Due = N!Collateral
      BY <1>9 DEF N!Due
    <2>2. CASE f # {}
      <3>1. f = {N!Notice(fin, N!Keep)}
            /\ (\/ sub.epoch = N!Never \/ fin - EpochGap["collateral"] < 0
                \/ sub.epoch < fin - EpochGap["collateral"])
        BY <2>1, <2>2 DEF N!Collateral
      <3>2. N!Notice(fin, N!Keep) \in Notices /\ N!Notice(fin, N!Keep).epoch = fin
        BY Zenon, <1>1, <1>3
      <3>3. \/ sub.epoch = N!Never \/ fin < EpochGap["collateral"]
            \/ sub.epoch < fin - EpochGap["collateral"]
        BY <1>1, <3>1, CollectorConstants
      <3>4. Fits(N!Notice(fin, N!Keep))
        BY Zenon, <1>9, <3>2, <3>3 DEF Fits, N!TimeKinds
      <3> QED
        BY Zenon, <1>9, <3>1, <3>2, <3>4
    <2> QED
      BY <2>2
  <1>10. CASE sub.kind \in N!TimeKinds
    <2>1. \E condition : N!Due = N!Timed(sub.kind, condition)
      BY <1>10 DEF N!Due, N!TimeKinds, N!Network, N!Fee, N!ClaimRound, N!SyncCommittee,
                   N!ClientUpdate, N!TaxReport
    <2>2. CASE f # {}
      <3>1. f = {N!Notice(sub.created, N!Keep)} /\ ~ N!Paused(sub.kind)
        BY <2>1, <2>2 DEF N!Timed
      <3>2. sub.ts = N!Never \/ head - sub.ts >= TimeGap[sub.kind]
        BY <1>1, <1>10, <3>1, CollectorConstants DEF N!Paused
      <3>3. N!Notice(sub.created, N!Keep) \in Notices
        BY <1>1, <1>3
      <3>4. sub.kind \notin {"slashed", "attestation", "machine", "collateral", "offline"}
        BY <1>10 DEF N!TimeKinds
      <3>5. Fits(N!Notice(sub.created, N!Keep))
        BY Zenon, <3>2, <3>4 DEF Fits
      <3> QED
        BY Zenon, <3>1, <3>3, <3>4, <3>5
    <2> QED
      BY <2>2
  <1> QED
    BY <1>2, <1>4, <1>5, <1>6, <1>7, <1>8, <1>9, <1>10
       DEF N!Names, N!ChainKinds, N!EpochKinds, N!TimeKinds

\* What is spent is counted.
LEMMA SpendIs ==
    ASSUME spent \in Mishaps, NEW what \in {"stall", "fault", "change"}, NEW limit,
           N!Spend(what, limit)
    PROVE  /\ spent' \in Mishaps
           /\ what = "fault" => spent'.fault # 0
           /\ what # "fault" => spent'.fault = spent.fault
           /\ what = "change" => spent'.change # 0
           /\ what # "change" => spent'.change = spent.change
  BY DEF N!Spend, Mishaps

\* A stamp writes the epoch and the time, or fails.
LEMMA StampIs ==
    ASSUME ChainNumbers, RoundTypes, N!Stamp
    PROVE  \E e \in stamps :
             /\ stamps' = stamps \ {e} /\ spent' \in Mishaps
             /\ \/ /\ sub' \in Rows /\ sub'.epoch = e /\ sub'.ts = head
                   /\ sub'.kind = sub.kind /\ sub'.created = sub.created
                   /\ sub'.state = sub.state /\ sub'.threshold = sub.threshold
                   /\ UNCHANGED spent
                \/ UNCHANGED sub /\ spent'.fault # 0
  <1>1. sub \in Rows /\ spent \in Mishaps /\ stamps \subseteq Nat
    BY DEF RoundTypes
  <1>2. head \in Nat
    BY CollectorConstants DEF ChainNumbers
  <1>3. PICK e \in stamps : /\ stamps' = stamps \ {e}
                            /\ \/ sub' = [sub EXCEPT !.epoch = e, !.ts = head] /\ UNCHANGED spent
                               \/ UNCHANGED sub /\ N!Spend("fault", MaxMishaps)
    BY DEF N!Stamp
  <1>4. CASE sub' = [sub EXCEPT !.epoch = e, !.ts = head] /\ UNCHANGED spent
    <2>1. e \in Nat /\ sub \in Rows /\ sub' = [sub EXCEPT !.epoch = e, !.ts = head]
      BY <1>1, <1>4
    <2>2. /\ sub' \in Rows /\ sub'.epoch = e /\ sub'.ts = head
          /\ sub'.kind = sub.kind /\ sub'.created = sub.created
          /\ sub'.state = sub.state /\ sub'.threshold = sub.threshold
      BY ONLY <1>2, <2>1 DEF Rows
    <2> QED
      BY <1>1, <1>3, <1>4, <2>2
  <1>5. CASE UNCHANGED sub /\ N!Spend("fault", MaxMishaps)
    <2>1. spent' \in Mishaps /\ spent'.fault # 0
      BY <1>1, <1>5, SpendIs
    <2> QED
      BY <1>3, <1>5, <2>1
  <1> QED
    BY <1>3, <1>4, <1>5

\* The column of the state.
LEMMA RowStored ==
    ASSUME sub \in Rows, NEW s \in Nat \cup {N!Back}, NEW r, r = [sub EXCEPT !.state = s]
    PROVE  /\ r \in Rows /\ r.epoch = sub.epoch /\ r.ts = sub.ts
           /\ r.kind = sub.kind /\ r.created = sub.created /\ r.state = s
           /\ r.threshold = sub.threshold
  BY DEF Rows

\* The column the user writes.
LEMMA RowChanged ==
    ASSUME sub \in Rows, NEW u \in N!Thresholds, NEW r, r = [sub EXCEPT !.threshold = u]
    PROVE  /\ r \in Rows /\ r.epoch = sub.epoch /\ r.ts = sub.ts
           /\ r.kind = sub.kind /\ r.created = sub.created /\ r.state = sub.state
  BY DEF Rows

\* A step in which an epoch passes, and a step in which none does.
Passes ==
  /\ head' = head + 1 /\ fin <= fin'
  /\ N!LastSeen' = N!LastSeen \/ N!LastSeen' = head'
  /\ slashed' = slashed \/ (slashed = N!Never /\ slashed' = head')
  /\ UNCHANGED <<sub, pc, found, stamps, told>>
  /\ spent'.fault = spent.fault /\ spent'.change = spent.change

\* The chain as it is saved.
LEMMA ChainStep ==
    ASSUME ChainNumbers, spent \in Mishaps, [Next]_vars
    PROVE  /\ ChainNumbers'
           /\ \/ N!Epoch /\ Passes /\ spent' \in Mishaps
              \/ UNCHANGED <<head, fin, attested, slashed>> /\ N!LastSeen' = N!LastSeen
  <1>1. MaxEpoch \in Nat /\ head \in 2 .. MaxEpoch /\ fin \in 0 .. head - 2
    BY CollectorConstants DEF ChainNumbers
  <1>2. CASE UNCHANGED <<head, fin, attested, proposed, slashed>>
    BY <1>2 DEF ChainNumbers, N!LastSeen
  <1>3. CASE N!Epoch
    <2>1. head' = head + 1 /\ head' \in 2 .. MaxEpoch
      BY <1>1, <1>3 DEF N!Epoch
    <2>2. fin' \in 0 .. head' - 2 /\ fin <= fin'
      BY <1>1, <1>3, <2>1 DEF N!Epoch
    <2>3. attested' = attested \cup {head'} \/ attested' = attested
      BY <1>3 DEF N!Epoch
    <2>4. proposed' = proposed \cup {head'} \/ proposed' = proposed
      BY <1>3 DEF N!Epoch
    <2>5. slashed' = slashed \/ (slashed = N!Never /\ slashed' = head')
      BY <1>3 DEF N!Epoch
    <2>6. (0 .. head) \subseteq 0 .. head' /\ head' \in 0 .. head'
      BY <1>1, <2>1
    <2>7. ChainNumbers'
      BY <2>1, <2>2, <2>3, <2>4, <2>5, <2>6 DEF ChainNumbers, N!Never
    <2>8. N!LastSeen' = N!LastSeen \/ N!LastSeen' = head'
      <3>1. CASE attested' = attested
        BY <3>1 DEF N!LastSeen
      <3>2. CASE attested' = attested \cup {head'}
        <4>1. N!LastSeen' = Max(attested')
          <5>1. N!Max(attested') = Max(attested')
            BY Zenon DEF N!Max, Max
          <5> QED
            BY <5>1 DEF N!LastSeen
        <4>2. head' \in Nat /\ attested' \subseteq 0 .. head' /\ attested' # {}
          BY <1>1, <2>1, <2>7, <3>2 DEF ChainNumbers
        <4>3. Max(attested') \in attested' /\ \A e \in attested' : Max(attested') >= e
          BY <4>2, MaxOfInterval
        <4>4. Max(attested') = head'
          <5>1. head' \in attested'
            BY <3>2
          <5>2. Max(attested') >= head' /\ Max(attested') \in 0 .. head'
            BY <4>2, <4>3, <5>1
          <5> QED
            BY <4>2, <5>2
        <4> QED
          BY <4>1, <4>4
      <3> QED
        BY <2>3, <3>1, <3>2
    <2>9. spent' \in Mishaps /\ spent'.fault = spent.fault /\ spent'.change = spent.change
      BY <1>3, SpendIs DEF N!Epoch
    <2>10. UNCHANGED <<sub, pc, found, stamps, told>>
      BY <1>3 DEF N!Epoch
    <2>11. Passes
      BY Zenon, <2>1, <2>2, <2>5, <2>8, <2>9, <2>10 DEF Passes
    <2> QED
      BY Zenon, <1>3, <2>7, <2>9, <2>11
  <1> QED
    BY <1>2, <1>3, ComponentSteps
       DEF ofEvents, N!Next, N!Collect, N!CollectFails, N!Queue, N!Stamp, N!StoreState,
           N!Crash, N!ChangeThreshold, N!chain

\* The types of what a round carries.
LEMMA RoundTypesStep ==
    ASSUME ChainNumbers, RoundTypes, RoundShape, [Next]_vars
    PROVE  RoundTypes'
  <1>1. /\ sub \in Rows /\ sub.created = 1 /\ spent \in Mishaps
        /\ pc \in {"idle", "queue", "stamp"} /\ stamps \subseteq Nat /\ found \subseteq Notices
        /\ \A t \in told : t.epoch \in Nat /\ t.at \in 0 .. head
    BY DEF RoundTypes
  <1>2. head \in Nat
    BY CollectorConstants DEF ChainNumbers
  <1>3. CASE UNCHANGED ofEvents
    BY <1>3 DEF ofEvents, RoundTypes
  <1>4. CASE N!Epoch
    <2>1. head' = head + 1 /\ UNCHANGED <<sub, pc, found, stamps, told>> /\ spent' \in Mishaps
      BY <1>1, <1>4, SpendIs DEF N!Epoch
    <2>2. \A t \in told' : t.epoch \in Nat /\ t.at \in 0 .. head'
      BY <1>1, <1>2, <2>1
    <2> QED
      BY <1>1, <2>1, <2>2 DEF RoundTypes
  <1>5. CASE N!Collect
    <2>1. found' \subseteq Notices
      BY <1>5, FoundIs DEF N!Collect
    <2>2. pc' \in {"idle", "queue", "stamp"} /\ UNCHANGED <<head, sub, stamps, told, spent>>
      BY <1>5 DEF N!Collect, N!chain
    <2> QED
      BY <1>1, <2>1, <2>2 DEF RoundTypes
  <1>6. CASE N!CollectFails
    BY <1>1, <1>6, SpendIs DEF N!CollectFails, N!chain, RoundTypes
  <1>7. CASE N!Queue
    <2>1. /\ pc' = "stamp" /\ UNCHANGED <<head, sub, found, spent>>
          /\ stamps' = {n.epoch : n \in found}
      BY <1>7 DEF N!Queue, N!chain
    <2>2. \A t \in told' : \/ t \in told
                           \/ \E n \in found : t.epoch = n.epoch /\ (t.at = 0 \/ t.at = head)
      BY <1>7 DEF N!Queue
    <2>3. \A n \in found : n.epoch \in Nat
      BY <1>1 DEF Notices
    <2>4. \A t \in told' : t.epoch \in Nat /\ t.at \in 0 .. head
      BY <1>1, <1>2, <2>2, <2>3
    <2>5. stamps' \subseteq Nat
      BY <2>1, <2>3
    <2> QED
      BY <1>1, <2>1, <2>4, <2>5 DEF RoundTypes
  <1>8. CASE N!Stamp
    <2>1. PICK e \in stamps :
            /\ stamps' = stamps \ {e} /\ spent' \in Mishaps
            /\ (sub' \in Rows /\ sub'.created = sub.created) \/ UNCHANGED sub
      BY <1>8, StampIs
    <2>4. UNCHANGED <<head, pc, found, told>>
      BY <1>8 DEF N!Stamp, N!chain
    <2> QED
      BY <1>1, <2>1, <2>4 DEF RoundTypes
  <1>9. CASE N!StoreState
    <2>1. \A s \in {n.state : n \in found} \ {N!Keep} : s \in Nat \cup {N!Back}
      BY <1>1 DEF Notices
    <2>2. sub' = sub \/ \E s \in Nat \cup {N!Back} : sub' = [sub EXCEPT !.state = s]
      BY <1>9, <2>1 DEF N!StoreState
    <2>3. sub' \in Rows /\ sub'.created = 1
      BY <1>1, <2>2, RowStored
    <2>4. spent' \in Mishaps
      BY <1>1, <1>9, SpendIs DEF N!StoreState
    <2>5. pc' = "idle" /\ found' = {} /\ UNCHANGED <<head, stamps, told>>
      BY <1>9 DEF N!StoreState, N!chain
    <2> QED
      BY <1>1, <2>3, <2>4, <2>5 DEF RoundTypes
  <1>10. CASE N!Crash
    BY <1>1, <1>10, SpendIs DEF N!Crash, N!chain, RoundTypes
  <1>11. CASE N!ChangeThreshold
    <2>1. \E u \in N!Thresholds : sub' = [sub EXCEPT !.threshold = u]
      BY <1>11 DEF N!ChangeThreshold
    <2>2. sub' \in Rows /\ sub'.created = 1
      BY <1>1, <2>1, RowChanged
    <2>3. spent' \in Mishaps /\ UNCHANGED <<head, pc, found, stamps, told>>
      BY <1>1, <1>11, SpendIs DEF N!ChangeThreshold, N!chain
    <2> QED
      BY <1>1, <2>2, <2>3 DEF RoundTypes
  <1> QED
    BY <1>3, <1>4, <1>5, <1>6, <1>7, <1>8, <1>9, <1>10, <1>11, ComponentSteps DEF N!Next

\* The state is written, and the round is over.
LEMMA StoreStateIs ==
    ASSUME RoundTypes, N!StoreState
    PROVE  /\ sub' \in Rows /\ sub'.epoch = sub.epoch /\ sub'.ts = sub.ts
           /\ sub'.kind = sub.kind /\ sub'.created = sub.created
           /\ sub'.threshold = sub.threshold
           /\ spent' \in Mishaps /\ spent'.change = spent.change
           /\ \/ spent'.fault # 0
              \/ /\ UNCHANGED spent
                 /\ \A n \in Notices : found = {n} /\ n.state # N!Keep => sub'.state = n.state
  <1>1. sub \in Rows /\ spent \in Mishaps /\ found \subseteq Notices
    BY DEF RoundTypes
  <1> DEFINE states == {n.state : n \in found} \ {N!Keep}
  <1>2. states \subseteq Nat \cup {N!Back}
    BY <1>1 DEF Notices
  <1>3. CASE states = {} /\ UNCHANGED sub /\ UNCHANGED spent
    BY <1>1, <1>3
  <1>4. CASE states # {} /\ UNCHANGED spent /\ \E s \in states : sub' = [sub EXCEPT !.state = s]
    <2>1. PICK s \in states : sub' = [sub EXCEPT !.state = s]
      BY <1>4
    <2>2. s \in Nat \cup {N!Back} /\ sub \in Rows /\ sub' = [sub EXCEPT !.state = s]
      BY <1>1, <1>2, <2>1
    <2>3. /\ sub' \in Rows /\ sub'.epoch = sub.epoch /\ sub'.ts = sub.ts
          /\ sub'.kind = sub.kind /\ sub'.created = sub.created
          /\ sub'.threshold = sub.threshold /\ sub'.state = s
      BY ONLY <2>2 DEF Rows
    <2>4. \A n \in Notices : found = {n} => s = n.state
      OBVIOUS
    <2> QED
      BY <1>1, <1>4, <2>3, <2>4
  <1>5. CASE UNCHANGED sub /\ N!Spend("fault", MaxMishaps)
    BY <1>1, <1>5, SpendIs
  <1> QED
    BY Zenon, <1>3, <1>4, <1>5 DEF N!StoreState

\* The user changes the threshold.
LEMMA ThresholdIs ==
    ASSUME RoundTypes, N!ChangeThreshold
    PROVE  /\ sub' \in Rows /\ sub'.epoch = sub.epoch /\ sub'.ts = sub.ts
           /\ sub'.kind = sub.kind /\ sub'.created = sub.created /\ sub'.state = sub.state
           /\ spent' \in Mishaps /\ spent'.change # 0 /\ spent'.fault = spent.fault
  <1>1. sub \in Rows /\ spent \in Mishaps
    BY DEF RoundTypes
  <1>2. PICK u \in N!Thresholds : sub' = [sub EXCEPT !.threshold = u]
    BY DEF N!ChangeThreshold
  <1>3. /\ sub' \in Rows /\ sub'.epoch = sub.epoch /\ sub'.ts = sub.ts
        /\ sub'.kind = sub.kind /\ sub'.created = sub.created /\ sub'.state = sub.state
    BY <1>1, <1>2, RowChanged
  <1>4. spent' \in Mishaps /\ spent'.change # 0 /\ spent'.fault = spent.fault
    BY <1>1, SpendIs DEF N!ChangeThreshold
  <1> QED
    BY <1>3, <1>4

\* The actions of the subscription: a step of another component is none.
RoundSteps ==
  \/ UNCHANGED ofEvents
  \/ N!Epoch \/ N!Collect \/ N!CollectFails \/ N!Queue \/ N!Stamp \/ N!StoreState
  \/ N!Crash \/ N!ChangeThreshold

\* Every step is one of those.
LEMMA RoundStepsAre ==
    ASSUME [Next]_vars
    PROVE  RoundSteps
  BY ComponentSteps DEF N!Next, RoundSteps

\* An epoch passes.
LEMMA EpochPasses ==
    ASSUME ChainNumbers, RoundTypes, [Next]_vars, N!Epoch
    PROVE  Passes
  <1>1. head \in Nat /\ head' = head + 1
    BY CollectorConstants DEF ChainNumbers, N!Epoch
  <1>2. ~ UNCHANGED <<head, fin, attested, slashed>>
    BY <1>1
  <1> QED
    BY <1>2, ChainStep DEF RoundTypes

\* What fails is counted.
LEMMA FailureIs ==
    ASSUME spent \in Mishaps, N!CollectFails \/ N!Crash
    PROVE  spent'.fault # 0 /\ spent' \in Mishaps
  BY SpendIs DEF N!CollectFails, N!Crash

\* The kind of the row stays.
LEMMA KindStays ==
    ASSUME ChainNumbers, RoundTypes, [Next]_vars
    PROVE  sub'.kind = sub.kind
  <1>1. CASE N!Stamp
    BY <1>1, StampIs
  <1>2. CASE N!StoreState
    BY <1>2, StoreStateIs
  <1>3. CASE N!ChangeThreshold
    BY <1>3, ThresholdIs
  <1> QED
    BY <1>1, <1>2, <1>3, RoundStepsAre
       DEF RoundSteps, ofEvents, N!Epoch, N!Collect, N!CollectFails, N!Queue, N!Crash

\* What a round holds.
LEMMA RoundShapeStep ==
    ASSUME ChainNumbers, RoundTypes, RoundShape, [Next]_vars
    PROVE  RoundShape'
  <1>1. sub'.kind = sub.kind
    BY KindStays
  <1>2. CASE UNCHANGED <<pc, found, stamps>>
    BY <1>1, <1>2 DEF RoundShape
  <1>3. CASE N!Collect
    <2>1. found' \in N!Due /\ pc' = (IF found' = {} THEN "idle" ELSE "queue") /\ stamps' = stamps
          /\ pc = "idle"
      BY <1>3 DEF N!Collect
    <2>2. sub.kind # "proposal" /\ found' # {} => \E n \in Notices : found' = {n}
      BY <2>1, FoundIs
    <2> QED
      BY <1>1, <2>1, <2>2 DEF RoundShape
  <1>4. CASE N!Queue
    BY <1>1, <1>4 DEF N!Queue, RoundShape
  <1>5. CASE N!Stamp
    <2>1. pc = "stamp" /\ pc' = pc /\ found' = found /\ stamps' \subseteq stamps
      BY <1>5 DEF N!Stamp
    <2> QED
      BY <1>1, <2>1 DEF RoundShape
  <1>6. CASE N!StoreState \/ N!Crash
    <2>1. pc' = "idle" /\ found' = {} /\ stamps' = {}
      BY <1>6 DEF N!StoreState, N!Crash
    <2> QED
      BY <2>1 DEF RoundShape
  <1> QED
    BY <1>2, <1>3, <1>4, <1>5, <1>6, RoundStepsAre
       DEF RoundSteps, ofEvents, N!Epoch, N!CollectFails, N!ChangeThreshold

-----------------------------------------------------------------------------
(* Nobody is told too often: all kinds but proposals and offline times *)

\* What is to be queued still fits the row, and a slashing has one epoch.
FoundFits ==
  /\ pc = "queue" /\ sub.kind # "proposal" => \A n \in found : Fits(n)
  /\ sub.kind = "slashed" =>
       /\ sub.epoch = N!Never \/ sub.epoch = slashed
       /\ \A n \in found : n.epoch = slashed /\ slashed \in Nat

\* When no statement failed, the row is stamped with the last epoch told, or
\* the round is about to stamp it.
StampedWithLast ==
  /\ pc # "stamp" \/ stamps = {} => \A t \in told : t.epoch <= sub.epoch
  /\ pc = "stamp" /\ stamps # {} => \E e \in Nat : stamps = {e} /\ \A t \in told : t.epoch <= e
ToldOnce ==
  spent.fault = 0 /\ sub.kind \notin {"proposal", "offline"} => StampedWithLast

\* The same of the time of the last notice.
TimeStamped ==
  spent.fault = 0 /\ sub.kind \in N!TimeKinds =>
    (pc # "stamp" \/ stamps = {} => \A t \in told : t.at <= sub.ts)

\* Every step keeps what was found fit.
LEMMA FoundFitsStep ==
    ASSUME ChainNumbers, RoundTypes, RoundShape, FoundFits, [Next]_vars
    PROVE  FoundFits'
  <1>1. sub'.kind = sub.kind /\ head \in Nat /\ fin \in Nat
        /\ sub.ts \in Nat \cup {N!Never}
    BY KindStays, CollectorConstants DEF ChainNumbers, RoundTypes, Rows
  <1>2. ASSUME UNCHANGED <<head, slashed, pc, found>>,
               sub'.epoch = sub.epoch, sub'.ts = sub.ts
        PROVE  FoundFits'
    BY <1>1, <1>2 DEF FoundFits, Fits
  <1>3. CASE N!Epoch
    <2>1. Passes
      BY <1>3, EpochPasses
    <2>2. head' = head + 1 /\ UNCHANGED <<sub, pc, found>>
          /\ (slashed' = slashed \/ (slashed = N!Never /\ slashed' = head'))
      BY <2>1 DEF Passes
    <2>3. ASSUME NEW n, Fits(n)
          PROVE  Fits(n)'
      <3>1. sub.kind \in N!TimeKinds =>
              sub.ts = N!Never \/ head' - sub.ts >= TimeGap[sub.kind]
        BY <1>1, <2>2, <2>3, CollectorConstants DEF Fits, N!Never
      <3>2. sub.kind = "slashed" => n.epoch = slashed' /\ slashed' \in Nat
        BY <2>2, <2>3 DEF Fits, N!Never
      <3> QED
        BY <2>2, <2>3, <3>1, <3>2 DEF Fits
    <2>4. ASSUME sub.kind = "slashed"
          PROVE  /\ sub.epoch = N!Never \/ sub.epoch = slashed'
                 /\ \A n \in found : n.epoch = slashed' /\ slashed' \in Nat
      BY <2>2, <2>4 DEF FoundFits, N!Never
    <2> QED
      BY <2>2, <2>3, <2>4 DEF FoundFits
  <1>4. CASE N!Collect
    <2>1. found' \in N!Due /\ UNCHANGED <<head, fin, slashed, sub>>
      BY <1>4 DEF N!Collect, N!chain
    <2>2. sub.kind # "proposal" => \A n \in found' : Fits(n)
      BY <2>1, FoundIs
    <2>3. sub.kind = "slashed" => \A n \in found' : n.epoch = slashed /\ slashed \in Nat
      BY <2>2 DEF Fits
    <2> QED
      BY <2>1, <2>2, <2>3 DEF FoundFits, Fits
  <1>5. CASE N!Queue
    <2>1. pc' = "stamp" /\ UNCHANGED <<slashed, sub, found>>
      BY <1>5 DEF N!Queue, N!chain
    <2> QED
      BY <2>1 DEF FoundFits
  <1>6. CASE N!Stamp
    <2>1. PICK e \in stamps : sub'.epoch = e \/ UNCHANGED sub
      BY <1>6, StampIs
    <2>2. pc' = "stamp" /\ UNCHANGED <<slashed, found>>
      BY <1>6 DEF N!Stamp, N!chain
    <2>3. \E n \in found : e = n.epoch
      BY DEF RoundShape
    <2> QED
      BY <1>1, <2>1, <2>2, <2>3 DEF FoundFits
  <1>7. CASE N!StoreState \/ N!Crash
    <2>1. pc' = "idle" /\ found' = {} /\ UNCHANGED slashed
      BY <1>7 DEF N!StoreState, N!Crash, N!chain
    <2>2. sub'.epoch = sub.epoch
      BY <1>7, StoreStateIs DEF N!Crash
    <2> QED
      BY <1>1, <2>1, <2>2 DEF FoundFits
  <1>8. CASE N!ChangeThreshold
    <2>1. sub'.epoch = sub.epoch /\ sub'.ts = sub.ts
      BY <1>8, ThresholdIs
    <2> QED
      BY <1>2, <1>8, <2>1 DEF N!ChangeThreshold, N!chain
  <1>9. CASE UNCHANGED ofEvents \/ N!CollectFails
    BY <1>2, <1>9 DEF ofEvents, N!CollectFails, N!chain
  <1> QED
    BY <1>3, <1>4, <1>5, <1>6, <1>7, <1>8, <1>9, RoundStepsAre DEF RoundSteps

\* When nothing failed, a notice that is found is not behind what was told: no
\* later epoch of a missed attestation, an alarm or a slashing was told.
LEMMA ToldOnceStep ==
    ASSUME ChainNumbers, RoundTypes, RoundShape, FoundFits, ToldOnce, [Next]_vars
    PROVE  ToldOnce'
  <1>1. sub'.kind = sub.kind /\ spent \in Mishaps /\ found \subseteq Notices
        /\ \A t \in told : t.epoch \in Nat
    BY KindStays DEF RoundTypes
  <1>2. SUFFICES ASSUME spent'.fault = 0, sub.kind \notin {"proposal", "offline"}
                 PROVE  StampedWithLast'
    BY <1>1 DEF ToldOnce
  <1>3. ASSUME UNCHANGED <<pc, stamps, told>>, sub'.epoch = sub.epoch, spent'.fault = spent.fault
        PROVE  StampedWithLast'
    BY <1>2, <1>3 DEF ToldOnce, StampedWithLast
  <1>4. CASE N!Epoch
    BY <1>3, <1>4, EpochPasses DEF Passes
  <1>5. CASE N!Collect
    <2>1. pc = "idle" /\ pc' # "stamp" /\ UNCHANGED <<sub, told, spent>>
      BY <1>5 DEF N!Collect
    <2> QED
      BY <1>2, <2>1 DEF ToldOnce, StampedWithLast
  <1>6. CASE N!Queue
    <2>1. /\ pc = "queue" /\ pc' = "stamp" /\ UNCHANGED <<sub, found, spent>>
          /\ stamps' = {n.epoch : n \in found}
      BY <1>6 DEF N!Queue
    <2>2. PICK n \in Notices : found = {n}
      BY <1>2, <2>1 DEF RoundShape
    <2>3. stamps' = {n.epoch} /\ n.epoch \in Nat
      BY <2>1, <2>2 DEF Notices
    <2>4. \A t \in told : t.epoch <= sub.epoch
      BY <1>2, <2>1 DEF ToldOnce, StampedWithLast
    <2>5. CASE sub.kind \in N!ChainKinds
      <3>1. \A t \in told' : t \in told \/ t.epoch = n.epoch
        BY <1>6, <2>2, <2>5 DEF N!Queue
      <3>2. sub.kind = "attestation" \/ sub.kind = "slashed"
        BY <1>2, <2>5 DEF N!ChainKinds
      <3>3. sub.epoch <= n.epoch /\ sub.epoch \in Int
        <4>1. Fits(n) /\ sub.epoch \in Nat \cup {N!Never}
          BY <1>2, <2>1, <2>2 DEF FoundFits, RoundTypes, Rows
        <4>2. CASE sub.kind = "attestation"
          BY <2>3, <4>1, <4>2 DEF Fits, N!Never
        <4>3. CASE sub.kind = "slashed"
          <5>1. (sub.epoch = N!Never \/ sub.epoch = slashed) /\ n.epoch = slashed
            BY <2>2, <4>3 DEF FoundFits
          <5> QED
            BY <2>3, <4>1, <5>1 DEF N!Never
        <4> QED
          BY <3>2, <4>2, <4>3
      <3>4. \A t \in told' : t.epoch <= n.epoch
        BY <1>1, <2>3, <2>4, <3>1, <3>3
      <3> QED
        BY <2>1, <2>3, <3>4 DEF StampedWithLast
    <2>6. CASE sub.kind \notin N!ChainKinds
      <3>1. \A t \in told' : t.epoch = n.epoch
        BY <1>6, <2>2, <2>6 DEF N!Queue
      <3>2. \A t \in told' : t.epoch <= n.epoch
        BY <2>3, <3>1
      <3> QED
        BY <2>1, <2>3, <3>2 DEF StampedWithLast
    <2> QED
      BY <2>5, <2>6
  <1>7. CASE N!Stamp
    <2>1. pc = "stamp" /\ pc' = "stamp" /\ told' = told /\ stamps # {}
      BY <1>7 DEF N!Stamp
    <2>2. PICK e \in stamps : stamps' = stamps \ {e} /\ sub'.epoch = e /\ UNCHANGED spent
      BY <1>2, <1>7, StampIs
    <2>3. stamps = {e} /\ \A t \in told : t.epoch <= e
      BY <1>2, <2>1, <2>2 DEF ToldOnce, StampedWithLast
    <2> QED
      BY <2>1, <2>2, <2>3 DEF StampedWithLast
  <1>8. CASE N!StoreState
    <2>1. stamps = {} /\ pc' = "idle" /\ told' = told
      BY <1>8 DEF N!StoreState
    <2>2. sub'.epoch = sub.epoch /\ UNCHANGED spent
      BY <1>2, <1>8, StoreStateIs
    <2> QED
      BY <1>2, <2>1, <2>2 DEF ToldOnce, StampedWithLast
  <1>9. CASE N!ChangeThreshold
    BY <1>3, <1>9, ThresholdIs DEF N!ChangeThreshold
  <1>10. CASE N!CollectFails \/ N!Crash
    BY <1>1, <1>2, <1>10, FailureIs
  <1>11. CASE UNCHANGED ofEvents
    BY <1>3, <1>11 DEF ofEvents
  <1> QED
    BY <1>4, <1>5, <1>6, <1>7, <1>8, <1>9, <1>10, <1>11, RoundStepsAre DEF RoundSteps

\* The time of a stamp is not before the notice it is for.
LEMMA TimeStampedStep ==
    ASSUME ChainNumbers, RoundTypes, RoundShape, TimeStamped, [Next]_vars
    PROVE  TimeStamped'
  <1>1. sub'.kind = sub.kind /\ spent \in Mishaps /\ head \in Nat
        /\ \A t \in told : t.at \in 0 .. head
    BY KindStays, CollectorConstants DEF RoundTypes, ChainNumbers
  <1>2. SUFFICES ASSUME spent'.fault = 0, sub.kind \in N!TimeKinds, pc' # "stamp" \/ stamps' = {}
                 PROVE  \A t \in told' : t.at <= sub'.ts
    BY <1>1 DEF TimeStamped
  <1>3. ASSUME UNCHANGED told, sub'.ts = sub.ts, spent'.fault = spent.fault,
               pc # "stamp" \/ stamps = {}
        PROVE  \A t \in told' : t.at <= sub'.ts
    BY <1>2, <1>3 DEF TimeStamped
  <1>4. CASE N!Epoch
    BY <1>2, <1>3, <1>4, EpochPasses DEF Passes
  <1>5. CASE N!Collect
    BY <1>3, <1>5 DEF N!Collect
  <1>6. CASE N!Queue
    <2>1. pc' = "stamp" /\ stamps' = {n.epoch : n \in found} /\ pc = "queue"
      BY <1>6 DEF N!Queue
    <2>2. found # {}
      BY <2>1 DEF RoundShape
    <2> QED
      BY <1>2, <2>1, <2>2
  <1>7. CASE N!Stamp
    <2>1. sub'.ts = head
      BY <1>2, <1>7, StampIs
    <2>2. told' = told
      BY <1>7 DEF N!Stamp
    <2> QED
      BY <1>1, <2>1, <2>2
  <1>8. CASE N!StoreState
    <2>1. sub'.ts = sub.ts /\ UNCHANGED spent
      BY <1>2, <1>8, StoreStateIs
    <2> QED
      BY <1>3, <1>8, <2>1 DEF N!StoreState
  <1>9. CASE N!ChangeThreshold
    BY <1>2, <1>3, <1>9, ThresholdIs DEF N!ChangeThreshold
  <1>10. CASE N!CollectFails \/ N!Crash
    BY <1>1, <1>2, <1>10, FailureIs
  <1>11. CASE UNCHANGED ofEvents
    BY <1>2, <1>3, <1>11 DEF ofEvents
  <1> QED
    BY <1>4, <1>5, <1>6, <1>7, <1>8, <1>9, <1>10, <1>11, RoundStepsAre DEF RoundSteps

\* The pauses at the step that queues.
LEMMA PausesKeptStep ==
    ASSUME ChainNumbers, RoundTypes, RoundShape, FoundFits, ToldOnce, TimeStamped,
           pc = "queue", N!NoFaults, NEW n \in found, NEW t \in told
    PROVE  /\ sub.kind \in N!TimeKinds => head - t.at >= TimeGap[sub.kind]
           /\ sub.kind = "machine" => n.epoch - t.epoch > EpochGap["machine"]
           /\ sub.kind = "collateral" /\ n.epoch >= EpochGap["collateral"]
                => n.epoch - t.epoch > EpochGap["collateral"]
  <1>1. /\ head \in Nat /\ t.epoch \in Nat /\ t.at \in Nat /\ spent.fault = 0
        /\ sub.epoch \in Nat \cup {N!Never} /\ sub.ts \in Nat \cup {N!Never}
        /\ n.epoch \in Nat
    BY CollectorConstants DEF ChainNumbers, RoundTypes, Rows, Notices, N!NoFaults
  <1>2. ASSUME sub.kind \in N!TimeKinds
        PROVE  head - t.at >= TimeGap[sub.kind]
    <2>1. Fits(n) /\ t.at <= sub.ts
      BY <1>1, <1>2 DEF FoundFits, TimeStamped, N!TimeKinds
    <2>2. head - sub.ts >= TimeGap[sub.kind]
      BY <1>1, <1>2, <2>1 DEF Fits, N!Never
    <2> QED
      BY <1>1, <1>2, <2>1, <2>2, CollectorConstants DEF N!Never
  <1>3. ASSUME sub.kind \in {"machine", "collateral"}
        PROVE  Fits(n) /\ t.epoch <= sub.epoch
    BY <1>1, <1>3 DEF FoundFits, ToldOnce, StampedWithLast
  <1>4. ASSUME sub.kind = "machine"
        PROVE  n.epoch - t.epoch > EpochGap["machine"]
    <2>1. sub.epoch < n.epoch - EpochGap["machine"] /\ t.epoch <= sub.epoch
      BY <1>1, <1>3, <1>4 DEF Fits, N!Never
    <2> QED
      BY <1>1, <2>1, CollectorConstants DEF N!Never
  <1>5. ASSUME sub.kind = "collateral", n.epoch >= EpochGap["collateral"]
        PROVE  n.epoch - t.epoch > EpochGap["collateral"]
    <2>1. t.epoch <= sub.epoch /\ sub.epoch # N!Never
      BY <1>1, <1>3, <1>5 DEF N!Never
    <2>2. sub.epoch < n.epoch - EpochGap["collateral"]
      BY <1>1, <1>3, <1>5, <2>1, CollectorConstants DEF Fits
    <2> QED
      BY <1>1, <2>1, <2>2, CollectorConstants DEF N!Never
  <1> QED
    BY <1>2, <1>4, <1>5

-----------------------------------------------------------------------------
(* Nobody is told too often: offline times *)

\* A notice of an offline time names an attestation that is not after the last
\* one, and a stage that was reached; a notice of its end names an epoch at which
\* the attestations were near.
Fresh(x) ==
  /\ x.state \in Int /\ x.epoch \in Nat /\ x.state <= N!LastSeen
  /\ x.state = N!LastSeen => Limit <= Away /\ x.epoch <= Stage
  /\ x.state = N!Back => x.epoch <= head /\ (x.epoch = head => Away < Limit)

\* Between rounds the row holds the last stage of the present offline time, and
\* knows of an end told in this epoch.
RowKnows(t) ==
  /\ t.state = N!LastSeen => t.epoch <= sub.epoch /\ sub.epoch <= Stage
  /\ t.state = N!Back /\ t.epoch = head => sub.state = N!Back

\* What is found follows what was told of the same offline time.
Follows(n, t) ==
  /\ t.state = N!LastSeen =>
       n.state = N!LastSeen /\ t.epoch <= n.epoch /\ (pc = "queue" => t.epoch < n.epoch)
  /\ t.state = N!Back /\ t.epoch = head => pc = "stamp" /\ n.state = N!Back

OfflineRound ==
  /\ \A t \in told : Fresh(t)
  /\ \A n \in found : Fresh(n) /\ n.state # N!Keep
  /\ pc = "idle" => \A t \in told : RowKnows(t)
  /\ \A n \in found, t \in told : Follows(n, t)
  /\ pc = "stamp" => \A n \in found : stamps = {n.epoch} \/ (stamps = {} /\ sub.epoch = n.epoch)
OfflineTold ==
  spent.fault = 0 /\ spent.change = 0 /\ sub.kind = "offline" => OfflineRound

\* The state in the row is that of an attestation which is not after the last
\* one, and of one the offline time still lasts since.
StateIsOld ==
  sub.state # N!Back => sub.state <= N!LastSeen /\ (sub.state = N!LastSeen => Limit <= Away)

\* Between rounds the row says whether the last notice said "offline"; a round
\* that has queued its notice is about to write that down.
OfflineRow ==
  spent.fault = 0 /\ sub.kind = "offline" =>
    /\ believed \in {"online", "offline"}
    /\ pc # "stamp" => (sub.state = N!Back <=> believed = "online")
    /\ \A n \in found : n.state # N!Keep
    /\ pc = "stamp" => \A n \in found : n.state = N!Back <=> believed = "online"
    /\ spent.change = 0 => StateIsOld

\* While no attestation comes the stages grow.
LEMMA StageGrows ==
    ASSUME ChainNumbers, RoundTypes, Passes, N!LastSeen' = N!LastSeen
    PROVE  /\ Limit' = Limit /\ Away' = Away + 1
           /\ Limit <= Away => Stage <= Stage' /\ Stage' \in Nat
  <1>1. N!LastSeen \in Nat /\ Limit \in Nat /\ Away \in Nat /\ Repeat \in Nat \ {0}
    BY LastSeenIs, StageIs, CollectorConstants DEF ChainNumbers
  <1>2. Limit' = Limit
    BY DEF Passes, Limit
  <1>3. Away' = Away + 1
    <2>1. head \in Nat /\ head' = head + 1
      BY CollectorConstants DEF ChainNumbers, Passes
    <2> QED
      BY <1>1, <2>1 DEF Away
  <1>4. ASSUME Limit <= Away
        PROVE  Stage <= Stage' /\ Stage' \in Nat
    <2>1. PICK c \in Nat, l \in Nat, a \in Nat : c = N!LastSeen /\ l = Limit /\ a = Away
      BY <1>1
    <2>2. PICK d \in Nat : d = a - l
      BY <1>4, <2>1
    <2>3. PICK q \in Nat, r \in Nat : q = d \div Repeat /\ r = (d + 1) \div Repeat
      BY <1>1, <2>2, QuotientBounds
    <2>4. q <= r
      BY <1>1, <2>2, <2>3, QuotientMonotonic
    <2>5. q * Repeat <= r * Repeat
      BY <1>1, <2>3, <2>4, ProductMonotonic
    <2>6. Stage = c + l + q * Repeat
      BY <2>1, <2>2, <2>3 DEF Stage
    <2>7. (a + 1) - l = d + 1
      BY <2>1, <2>2
    <2>8. Stage' = c + l + r * Repeat
      BY <1>2, <1>3, <2>1, <2>3, <2>7 DEF Stage
    <2>9. q * Repeat \in Nat /\ r * Repeat \in Nat
      BY <1>1, <2>3
    <2> QED
      BY <2>1, <2>5, <2>6, <2>8, <2>9
  <1> QED
    BY <1>2, <1>3, <1>4

\* An epoch passes over what was told.
LEMMA FreshStays ==
    ASSUME ChainNumbers, RoundTypes, Passes, NEW x, Fresh(x)
    PROVE  /\ Fresh(x)'
           /\ x.state = N!LastSeen' => x.state = N!LastSeen /\ Stage <= Stage'
           /\ ~ (x.state = N!Back /\ x.epoch = head')
  <1>1. N!LastSeen \in 0 .. head /\ head \in Nat /\ head' = head + 1
        /\ x.epoch \in Nat /\ x.state \in Int /\ x.state <= N!LastSeen
    BY LastSeenIs, CollectorConstants DEF ChainNumbers, Passes, Fresh
  <1>2. x.state = N!Back => x.epoch <= head
    BY DEF Fresh
  <1>3. ~ (x.state = N!Back /\ x.epoch = head')
    BY <1>1, <1>2
  <1>4. CASE N!LastSeen' = N!LastSeen
    <2>1. Limit' = Limit /\ Away' = Away + 1 /\ (Limit <= Away => Stage <= Stage' /\ Stage' \in Nat)
          /\ Limit \in Nat /\ Away \in Nat /\ (Limit <= Away => Stage \in Nat)
      BY <1>4, StageGrows, StageIs
    <2>2. x.state = N!LastSeen => Limit <= Away /\ x.epoch <= Stage
      BY DEF Fresh
    <2>3. x.state = N!LastSeen => Limit <= Away + 1 /\ x.epoch <= Stage'
      <3>1. Limit <= Away => Stage' \in Int
        BY <2>1
      <3> QED
        BY <1>1, <2>1, <2>2, <3>1
    <2>4. x.state <= N!LastSeen'
      BY <1>1, <1>4
    <2>5. x.state = N!Back => x.epoch <= head' /\ (x.epoch = head' => Away' < Limit')
      BY <1>1, <1>2
    <2>6. x.state = N!LastSeen' => Limit' <= Away' /\ x.epoch <= Stage'
      BY <1>4, <2>1, <2>3
    <2>7. Fresh(x)'
      BY <1>1, <2>4, <2>5, <2>6 DEF Fresh, N!Back
    <2> QED
      BY <1>3, <1>4, <2>1, <2>2, <2>7
  <1>5. CASE N!LastSeen' = head'
    <2>1. x.state < N!LastSeen'
      BY <1>1, <1>5
    <2>2. x.state # N!LastSeen' /\ x.state <= N!LastSeen'
      BY <1>1, <1>5, <2>1
    <2>3. x.state = N!Back => x.epoch <= head' /\ (x.epoch = head' => Away' < Limit')
      BY <1>1, <1>2
    <2>4. Fresh(x)'
      BY <1>1, <2>2, <2>3 DEF Fresh, N!Back
    <2> QED
      BY <1>3, <2>2, <2>4
  <1> QED
    BY <1>4, <1>5 DEF Passes

\* What is found was not told before.
LEMMA OfflineFound ==
    ASSUME ChainNumbers, RoundTypes, NEW n \in Notices, FitsOffline(n), OfflineRound,
           pc = "idle"
    PROVE  /\ Fresh(n) /\ n.state # N!Keep
           /\ \A t \in told : /\ t.state = N!LastSeen => n.state = N!LastSeen /\ t.epoch < n.epoch
                              /\ ~ (t.state = N!Back /\ t.epoch = head)
  <1>1. N!LastSeen \in Nat /\ head \in Nat /\ Limit \in Nat /\ Away \in Nat
        /\ (Limit <= Away => Stage \in Nat) /\ n.epoch \in Nat
        /\ sub.epoch \in Nat \cup {N!Never}
    BY LastSeenIs, StageIs, CollectorConstants DEF ChainNumbers, Notices, RoundTypes, Rows
  <1>2. CASE /\ n.state = N!LastSeen /\ n.epoch = Stage /\ Limit <= Away
             /\ sub.epoch = N!Never \/ sub.epoch # Stage
    <2>1. Fresh(n) /\ n.state # N!Keep
      BY <1>1, <1>2 DEF Fresh, N!Back, N!Keep
    <2>2. ASSUME NEW t \in told
          PROVE  /\ t.state = N!LastSeen => n.state = N!LastSeen /\ t.epoch < n.epoch
                 /\ ~ (t.state = N!Back /\ t.epoch = head)
      <3>1. Fresh(t) /\ RowKnows(t) /\ t.epoch \in Nat
        BY DEF OfflineRound, Fresh
      <3>2. ASSUME t.state = N!LastSeen
            PROVE  t.epoch < n.epoch
        <4>1. t.epoch <= sub.epoch /\ sub.epoch <= Stage
          BY <3>1, <3>2 DEF RowKnows
        <4>2. sub.epoch \in Nat /\ sub.epoch # Stage
          BY <1>1, <1>2, <3>1, <4>1 DEF N!Never
        <4> QED
          BY <1>1, <1>2, <3>1, <4>1, <4>2
      <3>3. ~ (t.state = N!Back /\ t.epoch = head)
        BY <1>1, <1>2, <3>1 DEF Fresh
      <3> QED
        BY <1>2, <3>2, <3>3
    <2> QED
      BY <2>1, <2>2
  <1>3. CASE n.state = N!Back /\ n.epoch = head /\ Away < Limit /\ sub.state # N!Back
    <2>1. Fresh(n) /\ n.state # N!Keep
      BY <1>1, <1>3 DEF Fresh, N!Back, N!Keep
    <2>2. ASSUME NEW t \in told
          PROVE  t.state # N!LastSeen /\ ~ (t.state = N!Back /\ t.epoch = head)
      <3>1. Fresh(t) /\ RowKnows(t)
        BY DEF OfflineRound
      <3>2. ~ (Limit <= Away)
        BY <1>1, <1>3
      <3> QED
        BY <1>3, <3>1, <3>2 DEF Fresh, RowKnows
    <2> QED
      BY <2>1, <2>2
  <1> QED
    BY <1>2, <1>3 DEF FitsOffline

\* Every step keeps what is known of the offline times.
LEMMA OfflineToldStep ==
    ASSUME ChainNumbers, RoundTypes, RoundShape, OfflineTold, [Next]_vars
    PROVE  OfflineTold'
  <1>1. sub'.kind = sub.kind /\ spent \in Mishaps /\ found \subseteq Notices
        /\ pc \in {"idle", "queue", "stamp"}
    BY KindStays DEF RoundTypes
  <1>2. SUFFICES ASSUME spent'.fault = 0, spent'.change = 0, sub.kind = "offline"
                 PROVE  OfflineRound'
    BY <1>1 DEF OfflineTold
  <1>3. ASSUME spent'.fault = spent.fault, spent'.change = spent.change
        PROVE  OfflineRound
    BY <1>2, <1>3 DEF OfflineTold
  <1>4. ASSUME UNCHANGED <<head, sub>>, N!LastSeen' = N!LastSeen
        PROVE  /\ Limit' = Limit /\ Away' = Away /\ Stage' = Stage
               /\ \A x : Fresh(x)' = Fresh(x)
    <2>1. Limit' = Limit /\ Away' = Away
      BY <1>4 DEF Limit, Away
    <2>2. Stage' = Stage
      BY <1>4, <2>1 DEF Stage
    <2> QED
      BY <1>4, <2>1, <2>2 DEF Fresh
  <1>5. CASE N!Epoch
    <2>1. Passes
      BY <1>5, EpochPasses
    <2>2. OfflineRound
      BY <1>3, <2>1 DEF Passes
    <2>3. UNCHANGED <<sub, pc, found, stamps, told>>
      BY <2>1 DEF Passes
    <2>4. sub.epoch \in Int
      BY DEF RoundTypes, Rows, N!Never
    <2>5. \A x : Fresh(x) => /\ Fresh(x)'
                             /\ x.state = N!LastSeen' => x.state = N!LastSeen /\ Stage <= Stage'
                             /\ ~ (x.state = N!Back /\ x.epoch = head')
      BY <2>1, FreshStays
    <2>6. ASSUME NEW t \in told, RowKnows(t)
          PROVE  RowKnows(t)'
      <3>1. Fresh(t)
        BY <2>2 DEF OfflineRound
      <3>2. ASSUME t.state = N!LastSeen'
            PROVE  t.epoch <= sub.epoch /\ sub.epoch <= Stage'
        <4>1. t.state = N!LastSeen /\ Stage <= Stage'
          BY <2>5, <3>1, <3>2
        <4>2. N!LastSeen' = N!LastSeen
          BY <3>2, <4>1
        <4>3. Limit <= Away
          BY <3>1, <4>1 DEF Fresh
        <4>4. Stage \in Nat /\ Stage' \in Nat
          BY <2>1, <4>2, <4>3, StageIs, StageGrows
        <4> QED
          BY <2>4, <2>6, <4>1, <4>4 DEF RowKnows
      <3> QED
        BY <2>3, <2>5, <3>1, <3>2 DEF RowKnows, N!Back
    <2>7. ASSUME NEW n \in found, NEW t \in told, Follows(n, t)
          PROVE  Follows(n, t)'
      <3>1. Fresh(t)
        BY <2>2 DEF OfflineRound
      <3>2. ASSUME t.state = N!LastSeen'
            PROVE  t.state = N!LastSeen
        BY <2>5, <3>1, <3>2
      <3> QED
        BY <2>3, <2>5, <2>7, <3>1, <3>2 DEF Follows, N!Back
    <2>8. (\A t \in told' : Fresh(t)') /\ (\A n \in found' : Fresh(n)' /\ n.state # N!Keep)
      BY <2>2, <2>3, <2>5 DEF OfflineRound
    <2>9. pc' = "idle" => \A t \in told' : RowKnows(t)'
      BY <2>2, <2>3, <2>6 DEF OfflineRound
    <2>10. \A n \in found', t \in told' : Follows(n, t)'
      BY <2>2, <2>3, <2>7 DEF OfflineRound
    <2>11. pc' = "stamp" =>
             \A n \in found' :
               stamps' = {n.epoch} \/ (stamps' = {} /\ sub'.epoch = n.epoch)
      BY <2>2, <2>3 DEF OfflineRound
    <2> QED
      BY <2>8, <2>9, <2>10, <2>11 DEF OfflineRound, N!Keep
  <1>6. CASE N!Collect
    <2>1. /\ pc = "idle" /\ found' \in N!Due /\ (found' = {} \/ pc' = "queue")
          /\ pc' # "stamp" /\ UNCHANGED <<head, attested, sub, stamps, told, spent>>
      BY <1>6 DEF N!Collect, N!chain
    <2>2. N!LastSeen' = N!LastSeen
      BY <2>1 DEF N!LastSeen
    <2>3. OfflineRound /\ \A x : Fresh(x)' = Fresh(x)
      BY <1>3, <1>4, <2>1, <2>2
    <2>4. ASSUME NEW n \in found'
          PROVE  /\ Fresh(n) /\ n.state # N!Keep
                 /\ \A t \in told :
                      /\ t.state = N!LastSeen => n.state = N!LastSeen /\ t.epoch < n.epoch
                      /\ ~ (t.state = N!Back /\ t.epoch = head)
      <3>1. n \in Notices /\ FitsOffline(n)
        BY <1>2, <2>1, FoundIs
      <3> QED
        BY <2>1, <2>3, <3>1, OfflineFound
    <2>5. \A t \in told : RowKnows(t)'
      <3>1. \A t \in told : RowKnows(t)
        BY <2>1, <2>3 DEF OfflineRound
      <3>2. Stage' = Stage
        BY <1>4, <2>1, <2>2
      <3> QED
        BY <2>1, <2>2, <3>1, <3>2 DEF RowKnows, N!Back
    <2>6. \A n \in found', t \in told' : Follows(n, t)'
      <3> SUFFICES ASSUME NEW n \in found', NEW t \in told'
                   PROVE  Follows(n, t)'
        OBVIOUS
      <3>1. t \in told /\ t.epoch \in Nat /\ n.epoch \in Nat
        BY <2>1, <2>3, <2>4 DEF OfflineRound, Fresh
      <3>2. t.state = N!LastSeen => n.state = N!LastSeen /\ t.epoch < n.epoch
        BY <2>4, <3>1
      <3>3. ~ (t.state = N!Back /\ t.epoch = head)
        BY <2>4, <3>1
      <3> QED
        BY <2>1, <2>2, <3>1, <3>2, <3>3 DEF Follows, N!Back
    <2>7. (\A t \in told' : Fresh(t)') /\ (\A n \in found' : Fresh(n)' /\ n.state # N!Keep)
      BY <2>1, <2>3, <2>4 DEF OfflineRound
    <2> QED
      BY <2>1, <2>5, <2>6, <2>7 DEF OfflineRound, N!Keep
  <1>7. CASE N!Queue
    <2>1. /\ pc = "queue" /\ pc' = "stamp" /\ UNCHANGED <<head, attested, sub, found, spent>>
          /\ stamps' = {n.epoch : n \in found}
      BY <1>7 DEF N!Queue, N!chain
    <2>2. N!LastSeen' = N!LastSeen
      BY <2>1 DEF N!LastSeen
    <2>3. OfflineRound /\ \A x : Fresh(x)' = Fresh(x)
      BY <1>3, <1>4, <2>1, <2>2
    <2>4. PICK n \in Notices : found = {n}
      BY <1>2, <2>1 DEF RoundShape
    <2>5. \A t \in told' : t \in told \/ (t.epoch = n.epoch /\ t.state = n.state)
      BY <1>2, <1>7, <2>4 DEF N!Queue, N!ChainKinds
    <2>6. Fresh(n) /\ n.state # N!Keep /\ \A t \in told : Follows(n, t) /\ Fresh(t)
      BY <2>3, <2>4 DEF OfflineRound
    <2>7. \A t \in told' : Fresh(t)'
      <3> SUFFICES ASSUME NEW t \in told'
                   PROVE  Fresh(t)
        BY <2>3
      <3> QED
        BY <2>5, <2>6 DEF Fresh
    <2>8. \A t \in told' : Follows(n, t)'
      <3> SUFFICES ASSUME NEW t \in told'
                   PROVE  Follows(n, t)'
        OBVIOUS
      <3>1. n.epoch \in Nat
        BY <2>6 DEF Fresh
      <3>2. CASE t \in told
        BY <2>1, <2>2, <2>6, <3>2 DEF Follows, N!Back
      <3>3. CASE t.epoch = n.epoch /\ t.state = n.state
        BY <2>1, <2>2, <3>1, <3>3 DEF Follows, N!Back
      <3> QED
        BY <2>5, <3>2, <3>3
    <2> QED
      BY <2>1, <2>3, <2>4, <2>6, <2>7, <2>8 DEF OfflineRound, N!Keep
  <1>8. CASE N!Stamp
    <2>1. pc = "stamp" /\ UNCHANGED <<head, attested, pc, found, told>>
      BY <1>8 DEF N!Stamp, N!chain
    <2>2. PICK e \in stamps :
            /\ stamps' = stamps \ {e} /\ UNCHANGED spent
            /\ sub'.epoch = e /\ sub'.threshold = sub.threshold
      BY <1>2, <1>8, StampIs
    <2>3. N!LastSeen' = N!LastSeen
      BY <2>1 DEF N!LastSeen
    <2>4. OfflineRound
      BY <1>3, <2>2
    <2>5. Limit' = Limit /\ Away' = Away
      BY <2>1, <2>2, <2>3 DEF Limit, Away
    <2>6. Stage' = Stage
      BY <2>3, <2>5 DEF Stage
    <2>7. \A x : Fresh(x)' = Fresh(x)
      BY <2>1, <2>3, <2>5, <2>6 DEF Fresh, N!Back
    <2>8. \A n, t : Follows(n, t)' = Follows(n, t)
      BY <2>1, <2>3 DEF Follows, N!Back
    <2>9. \A n \in found : stamps' = {} /\ sub'.epoch = n.epoch
      BY <2>1, <2>2, <2>4 DEF OfflineRound
    <2> QED
      BY <2>1, <2>4, <2>7, <2>8, <2>9 DEF OfflineRound, N!Keep
  <1>9. CASE N!StoreState
    <2>1. /\ pc = "stamp" /\ pc' = "idle" /\ stamps = {} /\ found' = {}
          /\ UNCHANGED <<head, attested, told>>
      BY <1>9 DEF N!StoreState, N!chain
    <2>2. /\ sub'.epoch = sub.epoch /\ sub'.threshold = sub.threshold /\ UNCHANGED spent
          /\ \A n \in Notices : found = {n} /\ n.state # N!Keep => sub'.state = n.state
      BY <1>2, <1>9, StoreStateIs
    <2>3. N!LastSeen' = N!LastSeen
      BY <2>1 DEF N!LastSeen
    <2>4. OfflineRound
      BY <1>3, <2>2
    <2>5. Limit' = Limit /\ Away' = Away
      BY <2>1, <2>2, <2>3 DEF Limit, Away
    <2>6. Stage' = Stage
      BY <2>3, <2>5 DEF Stage
    <2>7. \A x : Fresh(x)' = Fresh(x)
      BY <2>1, <2>3, <2>5, <2>6 DEF Fresh, N!Back
    <2>8. PICK n \in Notices : found = {n}
      BY <1>2, <2>1 DEF RoundShape
    <2>9. Fresh(n) /\ sub'.state = n.state /\ sub.epoch = n.epoch
      BY <2>1, <2>2, <2>4, <2>8 DEF OfflineRound
    <2>10. ASSUME NEW t \in told
           PROVE  RowKnows(t)'
      <3>1. Follows(n, t)
        BY <2>4, <2>8 DEF OfflineRound
      <3> QED
        BY <2>1, <2>2, <2>3, <2>6, <2>9, <3>1 DEF Follows, RowKnows, Fresh, N!Back
    <2> QED
      BY <2>1, <2>4, <2>7, <2>10 DEF OfflineRound
  <1>10. CASE N!ChangeThreshold
    BY <1>2, <1>10, ThresholdIs
  <1>11. CASE N!CollectFails \/ N!Crash
    BY <1>2, <1>1, <1>11, FailureIs
  <1>12. CASE UNCHANGED ofEvents
    <2>1. UNCHANGED <<head, attested, sub, pc, found, stamps, told, spent>>
      BY <1>12 DEF ofEvents
    <2>2. N!LastSeen' = N!LastSeen
      BY <2>1 DEF N!LastSeen
    <2>3. OfflineRound /\ Stage' = Stage /\ \A x : Fresh(x)' = Fresh(x)
      BY <1>3, <1>4, <2>1, <2>2
    <2>4. \A n, t : Follows(n, t)' = Follows(n, t)
      BY <2>1, <2>2 DEF Follows, N!Back
    <2>5. \A t : RowKnows(t)' = RowKnows(t)
      BY <2>1, <2>2, <2>3 DEF RowKnows, N!Back
    <2> QED
      BY <2>1, <2>3, <2>4, <2>5 DEF OfflineRound, N!Keep
  <1> QED
    BY <1>5, <1>6, <1>7, <1>8, <1>9, <1>10, <1>11, <1>12, RoundStepsAre DEF RoundSteps

\* Every step keeps what the row says of the last notice.
LEMMA OfflineRowStep ==
    ASSUME ChainNumbers, RoundTypes, RoundShape, OfflineTold, OfflineRow, [Next]_vars
    PROVE  OfflineRow'
  <1>1. sub'.kind = sub.kind /\ spent \in Mishaps /\ found \subseteq Notices
        /\ pc \in {"idle", "queue", "stamp"}
    BY KindStays DEF RoundTypes
  <1>2. SUFFICES ASSUME spent'.fault = 0, sub.kind = "offline"
                 PROVE  /\ believed' \in {"online", "offline"}
                        /\ pc' # "stamp" => (sub'.state = N!Back <=> believed' = "online")
                        /\ \A n \in found' : n.state # N!Keep
                        /\ pc' = "stamp" =>
                             \A n \in found' : n.state = N!Back <=> believed' = "online"
                        /\ spent'.change = 0 => StateIsOld'
    BY <1>1 DEF OfflineRow, N!Back, N!Keep
  <1>3. ASSUME spent'.fault = spent.fault
        PROVE  /\ believed \in {"online", "offline"}
               /\ pc # "stamp" => (sub.state = N!Back <=> believed = "online")
               /\ \A n \in found : n.state # N!Keep
               /\ pc = "stamp" => \A n \in found : n.state = N!Back <=> believed = "online"
               /\ spent.change = 0 => StateIsOld
    BY <1>2, <1>3 DEF OfflineRow
  <1>4. ASSUME UNCHANGED <<head, attested>>, sub'.state = sub.state,
               sub'.threshold = sub.threshold
        PROVE  StateIsOld' = StateIsOld
    <2>1. N!LastSeen' = N!LastSeen
      BY <1>4 DEF N!LastSeen
    <2>2. Limit' = Limit /\ Away' = Away
      BY <1>4, <2>1 DEF Limit, Away
    <2> QED
      BY <1>4, <2>1, <2>2 DEF StateIsOld, N!Back
  <1>5. CASE N!Epoch
    <2>1. Passes /\ believed' = believed
      BY <1>5, EpochPasses DEF N!Epoch
    <2>2. /\ head \in Nat /\ head' = head + 1 /\ N!LastSeen \in 0 .. head
          /\ UNCHANGED <<sub, pc, found>>
          /\ spent'.fault = spent.fault /\ spent'.change = spent.change
      BY <2>1, LastSeenIs, CollectorConstants DEF Passes, ChainNumbers
    <2>3. ASSUME StateIsOld
          PROVE  StateIsOld'
      <3>1. CASE N!LastSeen' = N!LastSeen
        <4>1. Limit' = Limit /\ Away' = Away + 1 /\ Limit \in Nat /\ Away \in Nat
          BY <2>1, <3>1, StageGrows, StageIs
        <4>2. Limit <= Away => Limit' <= Away'
          BY <4>1
        <4> QED
          BY <2>2, <2>3, <3>1, <4>2 DEF StateIsOld, N!Back
      <3>2. CASE N!LastSeen' = head'
        <4>1. sub.state \in Int
          BY DEF RoundTypes, Rows, N!Back
        <4>2. sub.state # N!Back => sub.state < head'
          BY <2>2, <2>3, <4>1 DEF StateIsOld
        <4>3. sub.state # N!Back => sub.state <= N!LastSeen' /\ sub.state # N!LastSeen'
          BY <2>2, <3>2, <4>1, <4>2
        <4> QED
          BY <2>2, <4>3 DEF StateIsOld, N!Back
      <3> QED
        BY <2>1, <3>1, <3>2 DEF Passes
    <2> QED
      BY <1>3, <2>1, <2>2, <2>3
  <1>6. CASE N!Collect
    <2>1. /\ pc = "idle" /\ found' \in N!Due /\ pc' # "stamp"
          /\ UNCHANGED <<head, attested, sub, believed, spent>>
      BY <1>6 DEF N!Collect, N!chain
    <2>2. \A n \in found' : FitsOffline(n)
      BY <1>2, <2>1, FoundIs
    <2>3. N!LastSeen \in Nat
      BY LastSeenIs DEF ChainNumbers
    <2>4. \A n \in found' : n.state # N!Keep
      BY <2>2, <2>3 DEF FitsOffline, N!Back, N!Keep
    <2> QED
      BY <1>3, <1>4, <2>1, <2>4
  <1>7. CASE N!Queue
    <2>1. /\ pc = "queue" /\ pc' = "stamp" /\ UNCHANGED <<head, attested, sub, found, spent>>
          /\ believed' = IF \E n \in found : n.state = N!Back THEN "online"
                         ELSE IF \E n \in found : n.state # N!Keep THEN "offline" ELSE believed
      BY <1>7 DEF N!Queue, N!chain
    <2>2. PICK n \in Notices : found = {n}
      BY <1>2, <2>1 DEF RoundShape
    <2>3. n.state # N!Keep
      BY <1>3, <2>1, <2>2
    <2>4. believed' = IF n.state = N!Back THEN "online" ELSE "offline"
      BY <2>1, <2>2, <2>3
    <2> QED
      BY <1>3, <1>4, <2>1, <2>2, <2>3, <2>4
  <1>8. CASE N!Stamp
    <2>1. pc = "stamp" /\ UNCHANGED <<head, attested, pc, found, believed>>
      BY <1>8 DEF N!Stamp, N!chain
    <2>2. UNCHANGED spent /\ sub'.state = sub.state /\ sub'.threshold = sub.threshold
      BY <1>2, <1>8, StampIs
    <2> QED
      BY <1>3, <1>4, <2>1, <2>2
  <1>9. CASE N!StoreState
    <2>1. /\ pc = "stamp" /\ pc' = "idle" /\ found' = {}
          /\ UNCHANGED <<head, attested, believed>>
      BY <1>9 DEF N!StoreState, N!chain
    <2>2. PICK n \in Notices : found = {n}
      BY <1>2, <2>1 DEF RoundShape
    <2>3. UNCHANGED spent /\ sub'.threshold = sub.threshold
      BY <1>2, <1>9, StoreStateIs
    <2>4. n.state # N!Keep /\ (n.state = N!Back <=> believed = "online")
      BY <1>3, <2>1, <2>2, <2>3
    <2>5. sub'.state = n.state
      BY <1>2, <1>9, <2>2, <2>4, StoreStateIs
    <2>6. ASSUME spent'.change = 0
          PROVE  StateIsOld'
      <3>1. OfflineRound
        BY <1>2, <2>3, <2>6 DEF OfflineTold
      <3>2. Fresh(n)
        BY <2>2, <3>1 DEF OfflineRound
      <3>3. N!LastSeen' = N!LastSeen
        BY <2>1 DEF N!LastSeen
      <3>4. Limit' = Limit /\ Away' = Away
        BY <2>1, <2>3, <3>3 DEF Limit, Away
      <3> QED
        BY <2>5, <3>2, <3>3, <3>4 DEF StateIsOld, Fresh, N!Back
    <2> QED
      BY <1>3, <2>1, <2>3, <2>4, <2>5, <2>6
  <1>10. CASE N!ChangeThreshold
    <2>1. sub'.state = sub.state /\ spent'.change # 0 /\ spent'.fault = spent.fault
      BY <1>10, ThresholdIs
    <2>2. UNCHANGED <<pc, found, believed>>
      BY <1>10 DEF N!ChangeThreshold
    <2> QED
      BY <1>3, <2>1, <2>2
  <1>11. CASE N!CollectFails \/ N!Crash
    BY <1>1, <1>2, <1>11, FailureIs
  <1>12. CASE UNCHANGED ofEvents
    <2>1. UNCHANGED <<head, attested, sub, pc, found, believed, spent>>
      BY <1>12 DEF ofEvents
    <2> QED
      BY <1>3, <1>4, <2>1
  <1> QED
    BY <1>5, <1>6, <1>7, <1>8, <1>9, <1>10, <1>11, <1>12, RoundStepsAre DEF RoundSteps

\* The end of an offline time is told to who was told of its beginning.
LEMMA BackWasAwayStep ==
    ASSUME ChainNumbers, RoundTypes, RoundShape, OfflineRow, [Next]_vars,
           N!Collects, N!NoFaults, sub.kind = "offline", NEW n \in found', n.state = N!Back
    PROVE  believed = "offline" /\ (spent.change = 0 => N!LastSeen > sub.state)
  <1>1. pc = "idle" /\ found' # {} /\ spent.fault = 0
    BY DEF N!Collects, N!NoFaults
  <1>2. found = {}
    BY <1>1 DEF RoundShape
  <1>3. found' \in N!Due
    BY <1>1, <1>2, RoundStepsAre
       DEF RoundSteps, ofEvents, N!Epoch, N!Collect, N!CollectFails, N!Queue, N!Stamp,
           N!StoreState, N!Crash, N!ChangeThreshold
  <1>4. FitsOffline(n)
    BY <1>1, <1>3, FoundIs
  <1>5. N!LastSeen \in Nat /\ Limit \in Nat /\ Away \in Nat /\ sub.state \in Int
    BY LastSeenIs, StageIs DEF ChainNumbers, RoundTypes, Rows, N!Back
  <1>6. sub.state # N!Back /\ Away < Limit
    BY <1>4, <1>5 DEF FitsOffline, N!Back
  <1>7. believed = "offline"
    BY <1>1, <1>6 DEF OfflineRow
  <1>8. ASSUME spent.change = 0
        PROVE  N!LastSeen > sub.state
    <2>1. StateIsOld
      BY <1>1, <1>8 DEF OfflineRow
    <2>2. ~ (Limit <= Away)
      BY <1>5, <1>6
    <2>3. sub.state <= N!LastSeen /\ sub.state # N!LastSeen
      BY <1>6, <2>1, <2>2 DEF StateIsOld
    <2> QED
      BY <1>5, <2>3
  <1> QED
    BY <1>7, <1>8

\* No notice that is found was told before.
LEMMA NoRepeatStep ==
    ASSUME ChainNumbers, RoundTypes, RoundShape, FoundFits, ToldOnce, OfflineTold,
           [Next]_vars, N!Collects, N!NoFaults,
           \/ sub.kind \in {"attestation", "machine"}
           \/ sub.kind = "offline" /\ spent.change = 0
           \/ sub.kind = "slashed" /\ slashed <= fin,
           NEW n \in found'
    PROVE  ~ N!ToldOf(n)
  <1>1. pc = "idle" /\ found' # {} /\ spent.fault = 0
    BY DEF N!Collects, N!NoFaults
  <1>2. found = {} /\ sub.epoch \in Nat \cup {N!Never} /\ \A t \in told : t.epoch \in Nat
    BY <1>1 DEF RoundShape, RoundTypes, Rows
  <1>3. found' \in N!Due
    BY <1>1, <1>2, RoundStepsAre
       DEF RoundSteps, ofEvents, N!Epoch, N!Collect, N!CollectFails, N!Queue, N!Stamp,
           N!StoreState, N!Crash, N!ChangeThreshold
  <1>4. n \in Notices /\ Fits(n) /\ (sub.kind = "offline" => FitsOffline(n))
        /\ (sub.kind = "slashed" => FitsSlashed)
    BY <1>1, <1>3, FoundIs
  <1>5. SUFFICES ASSUME NEW t \in told, t.epoch = n.epoch, t.state = n.state
                 PROVE  FALSE
    BY DEF N!ToldOf
  <1>6. sub.kind # "offline" => t.epoch <= sub.epoch
    BY <1>1 DEF ToldOnce, StampedWithLast
  <1>7. CASE sub.kind = "attestation"
    BY <1>2, <1>4, <1>5, <1>6, <1>7 DEF Fits, N!Never
  <1>8. CASE sub.kind = "machine"
    BY <1>2, <1>4, <1>5, <1>6, <1>8, CollectorConstants DEF Fits, N!Never
  <1>9. CASE sub.kind = "slashed" /\ slashed <= fin
    <2>1. sub.epoch # N!Never
      BY <1>2, <1>6, <1>9 DEF N!Never
    <2>2. sub.epoch = slashed /\ sub.epoch > fin /\ sub.epoch \in Nat
      BY <1>2, <1>4, <1>9, <2>1 DEF FoundFits, FitsSlashed
    <2>3. fin \in Nat
      BY CollectorConstants DEF ChainNumbers
    <2> QED
      BY <1>9, <2>2, <2>3
  <1>10. CASE sub.kind = "offline" /\ spent.change = 0
    <2>1. OfflineRound
      BY <1>1, <1>10 DEF OfflineTold
    <2>2. /\ t.state = N!LastSeen => n.state = N!LastSeen /\ t.epoch < n.epoch
          /\ ~ (t.state = N!Back /\ t.epoch = head)
      BY <1>1, <1>4, <1>10, <2>1, OfflineFound
    <2> QED
      BY <1>2, <1>4, <1>5, <1>10, <2>2 DEF FitsOffline
  <1> QED
    BY <1>7, <1>8, <1>9, <1>10

-----------------------------------------------------------------------------
(* The collectors: the invariant *)

CollectorInv ==
  ChainNumbers /\ RoundTypes /\ RoundShape /\ FoundFits /\ ToldOnce /\ TimeStamped
    /\ OfflineTold /\ OfflineRow

\* The invariant implies the types.
LEMMA CollectorInvImplies ==
    ASSUME CollectorInv
    PROVE  N!TypeOK
  <1>1. {MaxEpoch} \subseteq Nat
    BY CollectorConstants
  <1>2. head \in 0 .. MaxEpoch /\ fin \in 0 .. head /\ attested \subseteq 0 .. head
        /\ proposed \subseteq 0 .. head /\ slashed \in 0 .. head \cup {N!Never}
    BY <1>1 DEF CollectorInv, ChainNumbers
  <1> QED
    BY <1>2 DEF CollectorInv, RoundTypes, N!TypeOK, Rows, Notices

\* At the start nobody was told of anything.
LEMMA CollectorInvInit ==
    ASSUME Init
    PROVE  CollectorInv
  <1>1. /\ head = 2 /\ fin = 0 /\ attested = {0, 1, 2} /\ proposed = {} /\ slashed = N!Never
        /\ pc = "idle" /\ found = {} /\ stamps = {} /\ told = {}
        /\ spent = [stall |-> 0, fault |-> 0, change |-> 0]
    BY DEF Init, N!Init
  <1>2. PICK k \in Kinds, t \in N!Thresholds :
          sub = [kind |-> k, created |-> 1, epoch |-> N!Never, ts |-> N!Never,
                 state |-> N!Back, threshold |-> t]
    BY DEF Init, N!Init
  <1>3. MaxEpoch \in Nat /\ MaxEpoch >= 2
    BY CollectorConstants
  <1>4. ChainNumbers
    BY <1>1, <1>3 DEF ChainNumbers
  <1>5. RoundTypes
    <2>1. sub \in Rows /\ sub.created = 1
      BY <1>2 DEF Rows
    <2>2. spent \in Mishaps
      BY <1>1 DEF Mishaps
    <2> QED
      BY <1>1, <2>1, <2>2 DEF RoundTypes
  <1>6. RoundShape
    BY <1>1 DEF RoundShape
  <1>7. FoundFits
    BY <1>1, <1>2 DEF FoundFits
  <1>8. ToldOnce /\ TimeStamped
    BY <1>1 DEF ToldOnce, StampedWithLast, TimeStamped
  <1>9. OfflineTold
    BY <1>1 DEF OfflineTold, OfflineRound
  <1>10. OfflineRow
    <2>1. believed = "online"
      BY DEF Init, N!Init
    <2> QED
      BY <1>1, <1>2, <2>1 DEF OfflineRow, StateIsOld
  <1> QED
    BY <1>4, <1>5, <1>6, <1>7, <1>8, <1>9, <1>10 DEF CollectorInv

\* Every step keeps the invariant.
LEMMA CollectorInvStep ==
    ASSUME CollectorInv, [Next]_vars
    PROVE  CollectorInv'
  <1>1. /\ ChainNumbers /\ RoundTypes /\ RoundShape /\ FoundFits /\ ToldOnce
        /\ TimeStamped /\ OfflineTold /\ OfflineRow
    BY DEF CollectorInv
  <1>2. ChainNumbers'
    <2>1. spent \in Mishaps
      BY <1>1 DEF RoundTypes
    <2> QED
      BY <1>1, <2>1, ChainStep
  <1>3. RoundTypes' /\ RoundShape' /\ FoundFits'
    BY <1>1, RoundTypesStep, RoundShapeStep, FoundFitsStep
  <1>4. ToldOnce' /\ TimeStamped' /\ OfflineTold' /\ OfflineRow'
    BY <1>1, ToldOnceStep, TimeStampedStep, OfflineToldStep, OfflineRowStep
  <1> QED
    BY <1>2, <1>3, <1>4 DEF CollectorInv

\* A round that collects finds nothing it told of before.
LEMMA NoRepeatIs ==
    ASSUME CollectorInv, [Next]_vars
    PROVE  [N!Collects /\ N!NoFaults
              /\ \/ sub.kind \in {"attestation", "machine"}
                 \/ sub.kind = "offline" /\ spent.change = 0
                 \/ sub.kind = "slashed" /\ slashed <= fin
              => \A n \in found' : ~ N!ToldOf(n)]_(N!vars)
  <1>1. /\ ChainNumbers /\ RoundTypes /\ RoundShape /\ FoundFits /\ ToldOnce
        /\ OfflineTold
    BY DEF CollectorInv
  <1>2. ASSUME N!Collects, N!NoFaults,
               \/ sub.kind \in {"attestation", "machine"}
               \/ sub.kind = "offline" /\ spent.change = 0
               \/ sub.kind = "slashed" /\ slashed <= fin,
               NEW n \in found'
        PROVE  ~ N!ToldOf(n)
    BY <1>1, <1>2, NoRepeatStep
  <1> QED
    BY <1>2

\* A round that queues keeps the pause since the last notice.
LEMMA PausesKeptIs ==
    ASSUME CollectorInv, [Next]_vars
    PROVE  [pc = "queue" /\ pc' = "stamp" /\ N!NoFaults =>
              \A n \in found, t \in told :
                /\ sub.kind \in N!TimeKinds => head - t.at >= TimeGap[sub.kind]
                /\ sub.kind = "machine" => n.epoch - t.epoch > EpochGap["machine"]
                /\ sub.kind = "collateral" /\ n.epoch >= EpochGap["collateral"]
                     => n.epoch - t.epoch > EpochGap["collateral"]]_(N!vars)
  <1>1. /\ ChainNumbers /\ RoundTypes /\ RoundShape /\ FoundFits /\ ToldOnce
        /\ TimeStamped
    BY DEF CollectorInv
  <1>2. ASSUME pc = "queue", N!NoFaults, NEW n \in found, NEW t \in told
        PROVE  /\ sub.kind \in N!TimeKinds => head - t.at >= TimeGap[sub.kind]
               /\ sub.kind = "machine" => n.epoch - t.epoch > EpochGap["machine"]
               /\ sub.kind = "collateral" /\ n.epoch >= EpochGap["collateral"]
                    => n.epoch - t.epoch > EpochGap["collateral"]
    BY <1>1, <1>2, PausesKeptStep
  <1> QED
    BY <1>2

\* A round that finds somebody back online follows one that told of the offline time.
LEMMA BackWasAwayIs ==
    ASSUME CollectorInv, [Next]_vars
    PROVE  [N!Collects /\ N!NoFaults /\ sub.kind = "offline" =>
              \A n \in found' : n.state = N!Back =>
                believed = "offline" /\ (spent.change = 0 => N!LastSeen > sub.state)]_(N!vars)
  <1>1. ChainNumbers /\ RoundTypes /\ RoundShape /\ OfflineRow
    BY DEF CollectorInv
  <1>2. ASSUME N!Collects, N!NoFaults, sub.kind = "offline", NEW n \in found', n.state = N!Back
        PROVE  believed = "offline" /\ (spent.change = 0 => N!LastSeen > sub.state)
    BY <1>1, <1>2, BackWasAwayStep
  <1> QED
    BY <1>2

-----------------------------------------------------------------------------
(* The theorems *)

RoundsInv == TagsInv /\ StoreInv /\ SearchInv /\ PoolInv /\ RelayInv /\ CollectorInv

\* The start.
LEMMA RoundsInvInit ==
    ASSUME Init
    PROVE  RoundsInv
  BY TagsInvInit, StoreInvInit, SearchInvInit, PoolInvInit, RelayInvInit, CollectorInvInit
     DEF RoundsInv

\* Every step, of whatever component.
LEMMA RoundsInvStep ==
    ASSUME RoundsInv, [Next]_vars
    PROVE  RoundsInv'
  BY TagsInvStep, StoreInvStep, SearchInvStep, PoolInvStep, RelayInvStep, CollectorInvStep
     DEF RoundsInv

\* The invariant of every component holds for ever.
THEOREM RoundsInvAlways == Spec => []RoundsInv
  <1>1. Init => RoundsInv
    BY RoundsInvInit
  <1>2. RoundsInv /\ [Next]_vars => RoundsInv'
    BY RoundsInvStep
  <1> QED
    BY <1>1, <1>2, PTL DEF Spec

\* The variables of every loop have their types.
THEOREM RoundsTypes == Spec => []TypeOK
  <1>1. RoundsInv => TypeOK
    BY StoreInvImplies, SearchInvImplies, PoolInvImplies, RelayInvImplies,
       CollectorInvImplies DEF RoundsInv, TypeOK, TagsInv
  <1> QED
    BY <1>1, RoundsInvAlways, PTL

\* What the exporters have stored is right: the walks over the payloads of a
\* relay leave none out (relays.go), a day of ETH.STORE is over, the tags 'ssv'
\* are those of the last message, no tree of Rocket Pool is skipped or counted
\* before it is stored, and the block found for a time is the nearest one.
THEOREM ExportersStaySound == Spec => []ExportersSound
  <1>1. RoundsInv => ExportersSound
    BY StoreInvImplies, SearchInvImplies, PoolInvImplies, RelayInvImplies
       DEF RoundsInv, ExportersSound, TagsInv
  <1> QED
    BY <1>1, RoundsInvAlways, PTL

\* The cumulative rewards in a row of rocketpool_nodes never go down, whatever
\* the exporter loses at a restart (rocketpool.go:1194, :1617).
THEOREM RewardsNeverFall == Spec => RewardsGrow
  <1>1. RoundsInv /\ [Next]_vars =>
          [\A n \in DOMAIN nodeRows :
             n \in DOMAIN nodeRows' /\ nodeRows[n].claimed \subseteq nodeRows'[n].claimed]_nodeRows
    BY RewardsGrowStep DEF RoundsInv
  <1> QED
    BY <1>1, RoundsInvAlways, PTL DEF Spec, RewardsGrow, P!RewardsGrow

\* Unless a statement failed, nobody is told twice of a missed attestation, of
\* a machine, of a stage of an offline time or of a final slashing, the pause of
\* a limited kind is kept, and the end of an offline time is told only to who was
\* told of that time and only after a later attestation (notifications.go:
\* last_sent_epoch, last_sent_ts, internal_state).
THEOREM NobodyIsToldTooOften == Spec => NotTooOften
  <1>1. RoundsInv /\ [Next]_vars =>
          [N!Collects /\ N!NoFaults
             /\ \/ sub.kind \in {"attestation", "machine"}
                \/ sub.kind = "offline" /\ spent.change = 0
                \/ sub.kind = "slashed" /\ slashed <= fin
             => \A n \in found' : ~ N!ToldOf(n)]_(N!vars)
    BY NoRepeatIs DEF RoundsInv
  <1>2. RoundsInv /\ [Next]_vars =>
          [pc = "queue" /\ pc' = "stamp" /\ N!NoFaults =>
             \A n \in found, t \in told :
               /\ sub.kind \in N!TimeKinds => head - t.at >= TimeGap[sub.kind]
               /\ sub.kind = "machine" => n.epoch - t.epoch > EpochGap["machine"]
               /\ sub.kind = "collateral" /\ n.epoch >= EpochGap["collateral"]
                    => n.epoch - t.epoch > EpochGap["collateral"]]_(N!vars)
    BY PausesKeptIs DEF RoundsInv
  <1>3. RoundsInv /\ [Next]_vars =>
          [N!Collects /\ N!NoFaults /\ sub.kind = "offline" =>
             \A n \in found' : n.state = N!Back =>
               believed = "offline" /\ (spent.change = 0 => N!LastSeen > sub.state)]_(N!vars)
    BY BackWasAwayIs DEF RoundsInv
  <1> QED
    BY <1>1, <1>2, <1>3, RoundsInvAlways, PTL DEF Spec, NotTooOften,
                            N!NotTooOften, N!NoRepeat, N!PausesKept, N!BackWasAway

=============================================================================
