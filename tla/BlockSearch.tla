----------------------------- MODULE BlockSearch -----------------------------
(***************************************************************************)
(* exporter/rocketpool.go, GetELBlockHeaderForTime: a bisection for the    *)
(* execution block of a time.  The headers it reads are of blocks 0 to     *)
(* Latest and their times grow.                                            *)
(***************************************************************************)
EXTENDS Integers, Sequences, FiniteSetsExt

CONSTANT
  Timelines    \* the chains: sequences of the times of their blocks, from block 0

BlockSearchAssumption ==
  \A t \in Timelines :
    /\ t \in Seq(Nat) /\ Len(t) >= 3 /\ t[1] = 0
    /\ \A b, c \in 1 .. Len(t) : b < c => t[b] < t[c]

VARIABLES
  times,       \* times[b + 1] is the time of block b
  wanted,      \* targetTime
  candidate, pivot, best, nearest,   \* the local variables of the loop
  result

searchVars == <<times, wanted, candidate, pivot, best, nearest, result>>

NotYet == -1
Failed == -2
Latest == Len(times) - 1
Time(b) == times[b + 1]
Distance(b) == IF Time(b) < wanted THEN wanted - Time(b) ELSE Time(b) - wanted

\* The search is for a time after the first block; math.Inf(1) is a distance
\* no block has.
Init ==
  /\ times \in Timelines
  /\ wanted \in 0 .. times[Len(times)] + 1
  /\ candidate = Latest \div 2
  /\ pivot = candidate /\ best = candidate
  /\ nearest = times[Len(times)] + 2
  /\ result = NotYet

TypeOK ==
  /\ wanted \in Nat
  /\ candidate \in 0 .. Latest - 1 /\ best \in 0 .. Latest - 1
  /\ pivot \in 1 .. Latest /\ nearest \in Nat
  /\ result \in {NotYet, Failed} \cup 0 .. Latest - 1

Half == (pivot + 1) \div 2

\* The next candidate, half a pivot away on the side of the time and not
\* beyond the block before the latest.  The pivots are rounded up, so that they
\* can lead below block 0, of which there is no header.
Move ==
  LET to == IF Time(candidate) > wanted THEN candidate - Half ELSE candidate + Half
  IN IF to < 0
     THEN result' = Failed /\ UNCHANGED <<candidate, pivot>>
     ELSE /\ pivot' = Half
          /\ candidate' = IF to > Latest - 1 THEN Latest - 1 ELSE to
          /\ UNCHANGED result

Better == Distance(candidate) < nearest

Nearer ==
  /\ result = NotYet /\ Better
  /\ nearest' = Distance(candidate) /\ best' = candidate
  /\ Move
  /\ UNCHANGED <<times, wanted>>

NotNearer ==
  /\ result = NotYet /\ ~Better /\ pivot # 1
  /\ Move
  /\ UNCHANGED <<times, wanted, best, nearest>>

\* The last candidate is no better: the best one is the answer, or the first
\* block not after the time, going back from a candidate that is.
Found ==
  /\ result = NotYet /\ ~Better /\ pivot = 1
  /\ result' = IF Time(candidate) > wanted
               THEN Max({b \in 0 .. candidate : Time(b) <= wanted})
               ELSE best
  /\ UNCHANGED <<times, wanted, candidate, pivot, best, nearest>>

Step == Nearer \/ NotNearer \/ Found
Next == Step

\* The block found is next to the time: no block but the latest, which the
\* search leaves out, lies between them (rocketpool.go:396-437).
FoundIsNearest ==
  result \in Nat =>
    \A b \in 0 .. Latest - 1 :
      ~ \/ Time(result) < Time(b) /\ Time(b) <= wanted
        \/ wanted <= Time(b) /\ Time(b) < Time(result)

\* The bisection ends, with a block or because it left the chain.
SearchEnds == <>(result # NotYet)
=============================================================================
