--------------------------- MODULE AddressTables ---------------------------
(***************************************************************************)
(* db/bigtable_eth1.go: the rows a block of the execution layer writes for *)
(* the addresses in it, and the reader who scrolls through the rows of one *)
(* address while the indexer writes and deletes blocks.                    *)
(*                                                                         *)
(* An item (a transaction, a transfer, a block) has a row of its own and   *)
(* index rows that name it.  The key of an index row is a path, the time   *)
(* of the block, counted down, and two indices; a page is the next rows of *)
(* a path and the items they name, read one after the other.  Rows with    *)
(* other paths (TO, FROM, METHOD, ...) are written but read by no page.    *)
(***************************************************************************)
EXTENDS Integers, Sequences, SequencesExt

CONSTANTS
  Chains,    \* the branches, sequences of blocks that begin with the same one
  Body,      \* what is in a block: time, miner, uncles, txs
  Address,   \* the address that is looked at
  Token,     \* a token whose transfers are looked at
  PageSize,  \* rows of a page, 25 in the code
  MaxJobs    \* bound: blocks written or deleted while the reader scrolls

\* The positions of a sequence, from 0.
Positions(s) == 0 .. Len(s) - 1

\* A block has a time and lists, and no address in it is the word of the keys.
HasLists(b) ==
  /\ Body[b].time \in Nat /\ {Len(Body[b].uncles), Len(Body[b].txs)} \subseteq Nat
  /\ \A i \in Positions(Body[b].txs) :
       LET tx == Body[b].txs[i + 1]
       IN /\ {Len(tx.itx), Len(tx.logs)} \subseteq Nat
          /\ \A j \in Positions(tx.logs) : "TIME" \notin {tx.logs[j + 1].from, tx.logs[j + 1].to}

\* Blocks of the same time are of the same slot.
TablesAssumption ==
  /\ \A b, c \in DOMAIN Body : Body[b].time = Body[c].time => b = c
  /\ IsFiniteSet(DOMAIN Body) /\ Chains \subseteq Seq(DOMAIN Body)
  /\ \A b \in DOMAIN Body : HasLists(b)
  /\ Address # "TIME" /\ PageSize \in Nat \ {0} /\ MaxJobs \in Nat

VARIABLES
  page,     \* the pages that are read
  present,  \* the keys in the data table, of index rows and of items
  whole,    \* the blocks that are written and not being deleted
  job,      \* the bulk write or delete that is half done
  jobs,     \* how many were begun
  phase,    \* "idle", "items" between the two reads, or "end"
  token,    \* the last key of the page before, or none
  rows,     \* the index rows that were read
  shown,    \* history: the rows whose items are on the screen
  stable    \* history: rows that were there since the first page was read

tableVars == <<page, present, whole, job, jobs, phase, token, rows, shown, stable>>

----------------------------------------------------------------------------
(* Rows *)
Row(b, path, i, j, item, empty) ==
  [path |-> path, time |-> Body[b].time, i |-> i, j |-> j, item |-> item, empty |-> empty]

BlockRows(b) == {Row(b, <<"B", Body[b].miner, "TIME">>, 0, 0, <<"B", Body[b].number>>, FALSE)}

UncleRows(b) ==
  {Row(b, <<"U", Body[b].uncles[i + 1], "TIME">>, i, 0, <<"U", Body[b].number, i>>, FALSE) :
     i \in Positions(Body[b].uncles)}

TxRows(b) ==
  {Row(b, <<"TX", Address, "TIME">>, i, 0, <<"TX", Body[b].txs[i + 1].hash>>, FALSE) :
     i \in {n \in Positions(Body[b].txs) : Address \in {Body[b].txs[n + 1].from, Body[b].txs[n + 1].to}}}

\* The call of the transaction itself is left out.
ItxRows(b) ==
  UNION {LET tx == Body[b].txs[i + 1]
         IN {Row(b, <<"ITX", Address, "TIME">>, i, j, <<"ITX", tx.hash, j>>, tx.itx[j + 1].empty) :
               j \in {n \in Positions(tx.itx) : /\ ~tx.itx[n + 1].top
                                                /\ Address \in {tx.itx[n + 1].from, tx.itx[n + 1].to}}} :
         i \in Positions(Body[b].txs)}

\* The paths under which a transfer of tokens is listed.
TransferPaths(kind, log) ==
  {<<kind, log.from, "TIME">>, <<kind, log.to, "TIME">>, <<kind, log.token, "ALL", "TIME">>,
   <<kind, log.token, log.from, "TIME">>, <<kind, log.token, log.to, "TIME">>}

TransferRows(b, kind) ==
  UNION {LET tx == Body[b].txs[i + 1]
         IN UNION {{Row(b, path, i, j, <<kind, tx.hash, j>>, FALSE) :
                      path \in TransferPaths(kind, tx.logs[j + 1])} :
                   j \in {n \in Positions(tx.logs) : tx.logs[n + 1].kind = kind}} :
         i \in Positions(Body[b].txs)}

Erc20Rows(b) == TransferRows(b, "ERC20")
Erc721Rows(b) == TransferRows(b, "ERC721")
Erc1155Rows(b) == TransferRows(b, "ERC1155")

RowsOf == [b \in DOMAIN Body |->
  BlockRows(b) \cup UncleRows(b) \cup TxRows(b) \cup ItxRows(b)
    \cup Erc20Rows(b) \cup Erc721Rows(b) \cup Erc1155Rows(b)]

----------------------------------------------------------------------------
(* Pages: where a table begins, the parts of its keys that every row has,  *)
(* and whether items may be missing.                                       *)
Page(path, shared, skips) == [path |-> path, shared |-> shared, skips |-> skips]

Transactions == Page(<<"TX", Address, "TIME">>, 3, FALSE)
BlocksMined == Page(<<"B", Address>>, 2, FALSE)
UnclesMined == Page(<<"U", Address>>, 2, FALSE)
InternalTransactions == Page(<<"ITX", Address, "TIME">>, 3, TRUE)
Erc20 == Page(<<"ERC20", Address, "TIME">>, 3, FALSE)
Erc721 == Page(<<"ERC721", Address, "TIME">>, 3, FALSE)
Erc1155 == Page(<<"ERC1155", Address, "TIME">>, 3, FALSE)
TokenTransfers == Page(<<"ERC20", Token, "ALL", "TIME">>, 3, FALSE)
AddressTransfers == Page(<<"ERC20", Token, Address, "TIME">>, 3, FALSE)

Pages == {Transactions, BlocksMined, UnclesMined, InternalTransactions, Erc20, Erc721,
          Erc1155, TokenTransfers, AddressTransfers}

\* The rows of a block that a table lists.  prefixSuccessor ends the range
\* behind the parts that all keys of a table share.
InRange(g, row) == SubSeq(row.path, 1, g.shared) = SubSeq(g.path, 1, g.shared)
ListedOf == [g \in Pages |-> [b \in DOMAIN Body |-> {r \in RowsOf[b] : InRange(g, r)}]]
Listed == [g \in Pages |-> UNION {ListedOf[g][b] : b \in DOMAIN Body}]

\* reversePaddedIndex makes 10000 - i four digits wide; the five of index 0
\* begin with 1 and sort before the others.
IndexBefore(m, n) == m # n /\ (m = 0 \/ (n # 0 /\ m > n))

\* The order of the keys of a path.
Before(k, l) ==
  \/ k.time > l.time
  \/ k.time = l.time /\ IndexBefore(k.i, l.i)
  \/ k.time = l.time /\ k.i = l.i /\ IndexBefore(k.j, l.j)

NoToken == <<>>
NoJob == [block |-> "none", kind |-> "none", left |-> {}]

\* Slip: the page begins with the last key of the one before.
SlipAfter(last, r) == last = NoToken \/ ~Before(r, last[1])

\* prefix + "\x00": the rows behind a key.
After(last, r) == last = NoToken \/ Before(last[1], r)

ItemKey(row) == [item |-> row.item]

\* The keys of a block that a reader of this page can meet.
KeysRead(b) == ListedOf[page][b] \cup {ItemKey(r) : r \in ListedOf[page][b]}

Readable(keys) == {r \in keys \cap Listed[page] : ItemKey(r) \in keys}

TablesInit ==
  /\ page \in Pages
  /\ \E p \in Chains : \E n \in DOMAIN p :
       whole = {p[i] : i \in 1 .. n}
  /\ present = UNION {KeysRead(b) : b \in whole}
  /\ job = NoJob /\ jobs = 0
  /\ phase = "idle" /\ token = NoToken /\ rows = {} /\ shown = <<>> /\ stable = {}

\* The one initial state of a run that looks at another component.
TablesIdle ==
  /\ page = Transactions /\ whole = {} /\ present = {}
  /\ job = NoJob /\ jobs = 0
  /\ phase = "idle" /\ token = NoToken /\ rows = {} /\ shown = <<>> /\ stable = {}

TablesTypeOK ==
  /\ page \in Pages
  /\ whole \subseteq DOMAIN Body
  /\ present \subseteq Listed[page] \cup {ItemKey(r) : r \in Listed[page]}
  /\ jobs \in 0 .. MaxJobs
  /\ phase \in {"idle", "items", "end"}
  /\ token \in {NoToken} \cup {<<r>> : r \in Listed[page]}
  /\ rows \subseteq Listed[page] /\ stable \subseteq Listed[page]
  /\ shown \in Seq(Listed[page])

----------------------------------------------------------------------------
(* The indexer *)
Keep(keys) == stable' = stable \cap Readable(keys)

\* Blocks of another branch are deleted before a block is written.
MayFollow(b) ==
  \E p \in Chains : \E n \in DOMAIN p :
    p[n] = b /\ \A c \in whole \cup {d \in DOMAIN Body : KeysRead(d) \cap present # {}} :
                  \E i \in DOMAIN p : p[i] = c

\* A bulk write is not one write: any of its rows may be in before the others.
BeginWrite(b) ==
  /\ job = NoJob /\ jobs < MaxJobs /\ b \notin whole /\ MayFollow(b)
  /\ \E some \in SUBSET KeysRead(b) :
       /\ present' = present \cup some
       /\ job' = [block |-> b, kind |-> "write", left |-> KeysRead(b) \ some]
  /\ jobs' = jobs + 1
  /\ UNCHANGED <<page, whole, phase, token, rows, shown, stable>>

BeginDelete(b) ==
  /\ job = NoJob /\ jobs < MaxJobs /\ b \in whole
  /\ \E some \in SUBSET KeysRead(b) :
       /\ present' = present \ some
       /\ job' = [block |-> b, kind |-> "delete", left |-> KeysRead(b) \ some]
  /\ Keep(present')
  /\ whole' = whole \ {b}
  /\ jobs' = jobs + 1
  /\ UNCHANGED <<page, phase, token, rows, shown>>

FinishJob ==
  /\ job # NoJob
  /\ present' = IF job.kind = "write" THEN present \cup job.left ELSE present \ job.left
  /\ whole' = IF job.kind = "write" THEN whole \cup {job.block} ELSE whole
  /\ job' = NoJob
  /\ Keep(present')
  /\ UNCHANGED <<page, jobs, phase, token, rows, shown>>

----------------------------------------------------------------------------
(* The reader: every request is two reads. *)
NextRows ==
  LET behind == {r \in Listed[page] \cap present : After(token, r)}
  IN {r \in behind : Cardinality({q \in behind : Before(q, r)}) < PageSize}

\* Without a row the answer has no token, and the page stops asking.
ReadRows ==
  /\ phase = "idle"
  /\ rows' = NextRows
  /\ phase' = IF NextRows = {} THEN "end" ELSE "items"
  /\ stable' = IF token = NoToken THEN Readable(present) ELSE stable
  /\ UNCHANGED <<page, present, whole, job, jobs, token, shown>>

\* Rows in the order of their keys.
InOrder(some) ==
  [n \in 1 .. Cardinality(some) |-> CHOOSE r \in some : Cardinality({q \in some : Before(q, r)}) = n - 1]

\* An item that is gone ends the request, and it is made again; of internal
\* transactions the missing and the empty ones are left out.
ReadItems ==
  /\ phase = "items"
  /\ LET found == {r \in rows : ItemKey(r) \in present}
         listed == IF page.skips THEN {r \in found : ~r.empty} ELSE found
     IN IF page.skips \/ found = rows
        THEN /\ shown' = shown \o InOrder(listed)
             /\ token' = <<CHOOSE r \in rows : \A q \in rows : q = r \/ Before(q, r)>>
        ELSE UNCHANGED <<shown, token>>
  /\ rows' = {} /\ phase' = "idle"
  /\ UNCHANGED <<page, present, whole, job, jobs, stable>>

Reader == ReadRows \/ ReadItems

TablesNext == FinishJob \/ Reader \/ \E b \in DOMAIN Body : BeginWrite(b) \/ BeginDelete(b)

----------------------------------------------------------------------------
(* Properties *)

\* Whatever is written and deleted meanwhile, a reader sees no row twice and
\* the rows of later blocks first, and at the end every row that was there all
\* the time, however the rows are spread over the pages
\* (bigtable_eth1.go:1616-1662, :1943-1990).
PagesAreExact ==
  /\ \A m, n \in DOMAIN shown : m < n => Before(shown[m], shown[n])
  /\ phase = "end" =>
       \A r \in stable : (page.skips /\ r.empty) \/ \E n \in DOMAIN shown : shown[n] = r
=============================================================================
