--------------------------- MODULE SyncAgreement ---------------------------
(***************************************************************************)
(* What one undisturbed full check achieves.  ChainSync is observed by two *)
(* history variables that no action of it reads: the checks that began     *)
(* when nothing stale was in flight and that saw no reorganisation, fault  *)
(* or crash since, and the slots such checks have covered.                 *)
(***************************************************************************)
EXTENDS ChainSync, Functions

VARIABLES
    undisturbed,  \* the running checks that began clean and stayed clean, each
                  \* with the slot it began in
    covered       \* the slots the finished ones among them compared

allVars == <<vars, undisturbed, covered>>

\* No saver, no other check and no queued block holds data of another branch.
NothingStale(c) ==
    /\ \A g \in Savers : savers[g].pc = "idle"
    /\ \A d \in Checkers \ {c} : checks[d].pc = "off"
    /\ \A b \in Range(newBlocks) \cup Range(inHand) : chain[b[1]] = b[2]

(***************************************************************************)
(* The slots a check compared, up to the last block the node answered and  *)
(* to the slot it began in: a block of a later slot may appear after the   *)
(* check asked for that slot and before it asked for the next one, and is  *)
(* then marked orphaned until the next check.  Slot 0 is not among them:   *)
(* the client never exports it.                                            *)
(***************************************************************************)
Compared(c, slot) ==
    {s \in 1 .. slot : /\ EpochOfSlot(s) \in checks[c].start .. checks[c].head
                       /\ \E b \in checks[c].seen : s <= b[1]}

Begins(c) == checks[c].pc = "head" /\ checks'[c].pc = "db"
Finishes(c) == checks[c].pc = "finalize" /\ checks'[c].pc = "off"

Observe ==
    IF used' # used
    THEN undisturbed' = {} /\ covered' = {}
    ELSE /\ undisturbed' =
                {u \in undisturbed : ~ Finishes(u[1])}
                    \cup {c \in Checkers : Begins(c) /\ NothingStale(c)} \X {clock}
         /\ covered' =
                covered \cup UNION {Compared(u[1], u[2]) :
                                        u \in {v \in undisturbed : Finishes(v[1])}}

AgreementInit == Init /\ undisturbed = {} /\ covered = {}
AgreementNext == Next /\ Observe
AgreementSpec == AgreementInit /\ [][AgreementNext]_allVars

\* One full check that begins after the last reorganisation repairs the table,
\* however many stale exports ran before it: once its exports are saved, the
\* proposed rows of every slot it compared are the canonical block and no other.
\* New blocks, later checks and re-exports keep it so.  Only an epoch that the
\* exporter has excluded may lack its blocks.
Agreement ==
    (\A g \in Savers : savers[g].pc = "idle") =>
        \A s \in covered : \A r \in BlockRoots :
            /\ blocks[s][r] = "proposed" => chain[s] = r
            /\ blacklist[EpochOfSlot(s)] <= BlacklistLimit /\ chain[s] = r =>
                    blocks[s][r] = "proposed"
=============================================================================
