-------------------------- MODULE ValidatorHistory --------------------------
(***************************************************************************)
(* db/bigtable.go: what became of the duties of validators, in a table     *)
(* that is only ever added to.  Each export of an epoch adds cells, also   *)
(* when it repeats an earlier one, comes after a reorganisation or ends    *)
(* halfway, and the readers make a history of the cells.                   *)
(*                                                                         *)
(* The four column families have rows of their own kind and are looked at  *)
(* one at a time: attestations, proposals and sync committee duties by     *)
(* slot, balances by epoch (the first slot stands for it).                 *)
(***************************************************************************)
EXTENDS Integers, FiniteSetsExt

CONSTANTS
  MaxSlot,        \* bound: the last slot
  SlotsPerEpoch,
  Validators,     \* numbers, in the order of their columns
  InclusionDelay, \* bound: slots between an attestation and its inclusion
  MaxShown,       \* bound: duties that all exported blocks show fulfilled
  MaxKey          \* max_block_number and max_epoch, 10^9 in the code

HistoryAssumption ==
  /\ {MaxSlot, InclusionDelay, MaxShown} \subseteq Nat /\ SlotsPerEpoch \in Nat \ {0}
  /\ Validators \subseteq Nat /\ MaxKey \in Nat /\ MaxKey > MaxSlot + InclusionDelay

VARIABLES
  family,    \* "at", "pr", "sc" or "vb"
  cells,     \* timestamps of the cells, by row and column
  assigned,  \* history: duties an export has named
  included   \* history: <<v, duty, slot>>, duties fulfilled in an exported block

historyVars == <<family, cells, assigned, included>>

Slots == 0 .. MaxSlot
Epoch(s) == s \div SlotsPerEpoch
Epochs == 0 .. Epoch(MaxSlot)
RowsOf(e) == IF family = "vb" THEN {e * SlotsPerEpoch} \cap Slots ELSE {s \in Slots : Epoch(s) = e}
Duties == {d \in Validators \X Slots : d[2] \in RowsOf(Epoch(d[2]))}

Empty ==
  /\ cells = [d \in Validators \X Slots |-> {}]
  /\ assigned = {} /\ included = {}

Init == family \in {"at", "pr", "sc", "vb"} /\ Empty

\* The one initial state of a run that looks at another component.
Idle == family = "vb" /\ Empty

TypeOK ==
  /\ family \in {"at", "pr", "sc", "vb"}
  /\ cells \in [Validators \X Slots -> SUBSET (0 .. MaxKey)]
  /\ assigned \subseteq Duties /\ included \subseteq Validators \X Slots \X Slots

----------------------------------------------------------------------------
(* Writing *)

\* The three assignments and the balances are written with timestamp 0.
SaveAssignments(e) ==
  \E duties \in SUBSET {d \in Duties : Epoch(d[2]) = e} :
    /\ duties # {}
    /\ cells' = [d \in DOMAIN cells |-> IF d \in duties THEN cells[d] \cup {0} ELSE cells[d]]
    /\ assigned' = assigned \cup duties
    /\ UNCHANGED <<family, included>>

\* The slots at which blocks can show that a duty was fulfilled.
InclusionsOf(s) == IF family = "at" THEN s + 1 .. s + InclusionDelay ELSE {s}

\* Slip: the slot itself is the timestamp.
SlipStamp(slot) == slot

\* The later the slot of the block, the smaller the timestamp.
Stamp(slot) == MaxKey - slot

\* SaveAttestations, SaveProposals and SaveSyncComitteeDuties of the blocks of
\* an epoch: of each attestation the earliest block counts.
SaveBlocks(e) ==
  \E n \in 1 .. MaxShown :
  \E shown \in kSubset(n, {t \in Validators \X Slots \X Slots :
                            Epoch(t[3]) = e /\ t[3] \in InclusionsOf(t[2])}) :
    /\ family # "vb" /\ Cardinality(included \cup shown) <= MaxShown
    /\ LET earliest(d) == Min({t[3] : t \in {u \in shown : u[1] = d[1] /\ u[2] = d[2]}})
           fulfilled == {<<t[1], t[2]>> : t \in shown}
       IN cells' = [d \in DOMAIN cells |->
                      IF d \in fulfilled THEN cells[d] \cup {Stamp(earliest(d))} ELSE cells[d]]
    /\ included' = included \cup shown
    /\ UNCHANGED <<family, assigned>>

Next == \E e \in Epochs : SaveAssignments(e) \/ SaveBlocks(e)

----------------------------------------------------------------------------
(* Reading *)

\* reversedPaddedEpoch: MaxKey - epoch on nine digits.  Of 10^9 and more, for
\* epoch 0 and for those that wrapped below it, it makes ten digits that begin
\* with 1, which sort before the nine digits of any other.
KeyOf(epoch) == MaxKey - epoch
Before(k, l) == IF (k >= MaxKey) = (l >= MaxKey) THEN k < l ELSE k >= MaxKey

\* Slip: the second is not left out.
EpochsThrough(from, to) ==
  {e \in Epochs : ~Before(KeyOf(e), KeyOf(from)) /\ ~Before(KeyOf(to), KeyOf(e))}
\* The epochs of the rows between the keys of two epochs, the second left out.
EpochRange(from, to) ==
  {e \in Epochs : ~Before(KeyOf(e), KeyOf(from)) /\ Before(KeyOf(e), KeyOf(to))}

\* LatestNFilter(1)
Latest(d) == Max(cells[d])

\* GetValidatorSyncDutiesHistory and GetValidatorProposalHistory take the
\* timestamp of the first column of the row for every column.
CellOf(vs, v, s) ==
  IF family = "at" THEN Latest(<<v, s>>)
  ELSE Latest(<<Min({w \in vs : cells[<<w, s>>] # {}}), s>>)

\* A duty with timestamp 0 is a missed one.
Entry(vs, v, s) ==
  [validator |-> v, slot |-> s, status |-> IF CellOf(vs, v, s) = 0 THEN 0 ELSE 1,
   inclusion |-> IF CellOf(vs, v, s) = 0 THEN 0 ELSE MaxKey - CellOf(vs, v, s)]

History(vs, from, to) ==
  {Entry(vs, d[1], d[2]) : d \in
     {c \in vs \X Slots : Epoch(c[2]) \in EpochRange(from, to) /\ cells[c] # {}}}

\* GetValidatorAttestationHistory, ...SyncDutiesHistory, ...ProposalHistory and
\* ...BalanceHistory
GetHistory(vs, startEpoch, limit) == History(vs, startEpoch, startEpoch - limit)

\* GetValidatorMissedAttestationsCount for the epochs of a day, all validators.
MissedAttestations(v, first, last) ==
  MapThenSumSet(
    LAMBDA i : Cardinality({a \in GetHistory(Validators, i, 1) : a.validator = v /\ a.status = 0}),
    first .. last)

\* GetValidatorBalanceStatistics
BalanceEpochs(v, first, last) ==
  {Epoch(b.slot) : b \in {c \in History(Validators, last, first - 1) : c.validator = v}}

----------------------------------------------------------------------------
(* What the cells should say. *)
Inclusions(v, s) == {t[3] : t \in {u \in included : u[1] = v /\ u[2] = s}}
Known(v, s) == <<v, s>> \in assigned \/ Inclusions(v, s) # {}
Told(v, s) ==
  [validator |-> v, slot |-> s, status |-> IF Inclusions(v, s) = {} THEN 0 ELSE 1,
   inclusion |-> IF Inclusions(v, s) = {} THEN 0 ELSE Min(Inclusions(v, s))]

\* The history of a validator has each of its duties once, with the earliest
\* block that fulfilled it, in whatever order assignments and blocks were
\* exported and exported again, if it does not reach back to epoch 0
\* (bigtable.go:117-360, :438-525).
HistoryIsTrue ==
  \A v \in Validators, start \in Epochs : \A limit \in 1 .. start - 1 :
    GetHistory({v}, start, limit) =
      {Told(v, s) : s \in {r \in Slots : /\ start - limit < Epoch(r) /\ Epoch(r) <= start
                                         /\ Known(v, r)}}

\* The statistics of a day count each missed attestation, and the balance, of
\* each of its epochs once (statistics.go:39, :94).
DayIsCounted ==
  \A v \in Validators, last \in Epochs : \A first \in 2 .. last :
    LET day == {s \in Slots : first <= Epoch(s) /\ Epoch(s) <= last /\ Known(v, s)}
    IN /\ family = "at" =>
            MissedAttestations(v, first, last) = Cardinality({s \in day : Inclusions(v, s) = {}})
       /\ family = "vb" => BalanceEpochs(v, first, last) = {Epoch(s) : s \in day}
=============================================================================
