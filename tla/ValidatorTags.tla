--------------------------- MODULE ValidatorTags ---------------------------
(***************************************************************************)
(* The table validator_tags and its three writers: the ssv exporter        *)
(* (exporter/ssv.go), the Rocket Pool exporter (TagValidators) and the     *)
(* updater of pool tags (exporter/pubkey_tags.go).  Each writes in one     *)
(* transaction.                                                            *)
(***************************************************************************)
EXTENDS Integers, FiniteSets

CONSTANTS
  Keys,        \* validator public keys
  Minipools,   \* keys of Rocket Pool minipools
  PoolKeys     \* keys with a deposit from the address of another pool

VARIABLES
  network,     \* table validators
  tags,        \* table validator_tags: pairs of a key and a tag
  answer       \* history: the keys of the last answer of the ssv exporter that was saved

TagsAssumption == Minipools \subseteq Keys /\ PoolKeys \subseteq Keys

tagVars == <<network, tags, answer>>

TypeOK ==
  /\ network \subseteq Keys /\ answer \subseteq Keys
  /\ tags \subseteq Keys \X {"ssv", "rocketpool", "pool"}

Init == network = {} /\ tags = {} /\ answer = {}

\* The validators of an epoch are saved (db.go saveValidators).
Join(k) ==
  /\ k \notin network
  /\ network' = network \cup {k}
  /\ UNCHANGED <<tags, answer>>

\* saveSSV: all tags of the keys tagged 'ssv' go, those of the answer are
\* tagged, then the tags of keys that are no validators go.
Tagged(tag) == {k \in Keys : <<k, tag>> \in tags}
Corrected(keys) ==
  {t \in (tags \ (Tagged("ssv") \X {"ssv", "rocketpool", "pool"})) \cup (keys \X {"ssv"}) :
     t[1] \in network}

\* One message; exportSSV asks when it connects and every ten minutes.  A
\* message that is lost or cannot be saved changes nothing.
SaveSSV(keys) ==
  /\ tags' = Corrected(keys)
  /\ answer' = keys
  /\ UNCHANGED network

TagValidators ==
  /\ tags' = tags \cup (Minipools \X {"rocketpool"})
  /\ UNCHANGED <<network, answer>>

UpdatePubkeyTag ==
  /\ tags' = tags \cup (PoolKeys \X {"pool"})
  /\ UNCHANGED <<network, answer>>

Next ==
  \/ \E k \in Keys : Join(k)
  \/ \E keys \in SUBSET Keys : SaveSSV(keys)
  \/ TagValidators
  \/ UpdatePubkeyTag

\* Only validators the last answer named carry the tag 'ssv', so one that was
\* marked wrongly is corrected with the next answer (ssv.go:102-104, :144).
SsvIsLastAnswer == Tagged("ssv") \subseteq answer \cap network

\* The tags of the other two writers, which the ssv exporter deletes along
\* with its own, come back (ssv.go:104, pubkey_tags.go:19, rocketpool.go:1451).
TagsComeBack ==
  /\ \A k \in Minipools : []<>(<<k, "rocketpool">> \in tags)
  /\ \A k \in PoolKeys : []<>(<<k, "pool">> \in tags)
=============================================================================
