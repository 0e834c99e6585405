------------------------------ MODULE KeyIter -------------------------------
(***************************************************************************)
(* The entries of a storage map, read page by page from a node while the   *)
(* chain grows (KeyIter::next and Client::iter, fetch, fetch_or_default in *)
(* subxt/src/lib.rs over state_getKeysPaged, state_queryStorage and        *)
(* state_getStorage in subxt/src/rpc.rs).                                  *)
(*                                                                         *)
(* Keys are numbers, in lexicographic order; a value is a token.  The      *)
(* future of next can fail, or be dropped, at each of its two awaits: a    *)
(* failed request stands for both.                                         *)
(***************************************************************************)
EXTENDS Naturals, SequencesExt, FiniteSets

CONSTANTS Keys,         \* the keys the map may hold
          Values,       \* what they may hold
          Garbled,      \* the values that do not decode
          NoValue,      \* absent
          PageSizes,    \* what ClientBuilder::set_page_size may be given
          MaxLength,    \* bound: blocks of the chain
          MaxFaults     \* bound: requests that fail

ASSUME KeyIterAssumption ==
    /\ Keys \subseteq Nat \ {0} /\ IsFiniteSet(Keys)
    /\ Garbled \subseteq Values /\ NoValue \notin Values
    /\ PageSizes \subseteq Nat /\ MaxFaults \in Nat

VARIABLES
  blocks,       \* what the map holds at each block of the chain
  page_size,    \* Client::page_size
  hash,         \* the block the iteration is pinned to
  start_key,    \* the last key of the page before, or NoKey
  keys,         \* the page whose values are asked for
  buffer,       \* entries not handed out yet
  state,           \* where the iteration is
  listed,       \* what next has returned
  fetched,      \* what single reads were answered
  failed,       \* fetches of keys that failed
  lost          \* keys of the pages whose values could not be read

ivars == <<hash, start_key, keys, buffer, state, listed, failed, lost>>
kvars == <<blocks, page_size, fetched, ivars>>

NoKey == 0
latest == Len(blocks)
Maps == UNION {[K -> Values] : K \in SUBSET Keys}

KInit == /\ blocks \in [1..1 -> Maps]
         /\ page_size \in PageSizes
         /\ hash = 0 /\ start_key = NoKey /\ keys = <<>> /\ buffer = <<>>
         /\ state = "none" /\ listed = <<>> /\ fetched = {} /\ failed = 0 /\ lost = {}

-----------------------------------------------------------------------------
(* The node *)

\* a block changes one entry
grow == /\ latest < MaxLength
        /\ \E k \in Keys : \E v \in (Values \ Garbled) \cup {NoValue} :
               LET old == blocks[latest]
                   K == IF v = NoValue THEN DOMAIN old \ {k} ELSE DOMAIN old \cup {k}
               IN blocks' = Append(blocks, [j \in K |-> IF j = k THEN v ELSE old[j]])
        /\ UNCHANGED <<page_size, fetched, ivars>>
\* a set in order: the one increasing sequence of its members
InOrder(S) == {s \in [1..Cardinality(S) -> S] : ToSet(s) = S /\ \A i, j \in DOMAIN s : i < j => s[i] < s[j]}
\* the answer: the first keys after start, in order
Later(start, at) == {k \in DOMAIN blocks[at] : k > start}
First(count, S) == {k \in S : Cardinality({j \in S : j < k}) < count}
storage_keys_paged(count, start, at) == InOrder(First(count, Later(start, at)))
\* the answer: the entries of the keys that are present at a block
query_storage_at(ks, at) ==
    {[i \in DOMAIN present |-> <<present[i], blocks[at][present[i]]>>] : present \in InOrder(ToSet(ks) \cap DOMAIN blocks[at])}
storage(k, at) == IF k \in DOMAIN blocks[at] THEN blocks[at][k] ELSE NoValue

-----------------------------------------------------------------------------
(* The client *)

\* mutant: the block after the latest one
iterAhead(at) ==
    /\ state = "none"
    /\ hash' = (IF at = 0 THEN latest + 1 ELSE at)
    /\ state' = "ready"
    /\ UNCHANGED <<blocks, page_size, fetched, start_key, keys, buffer, listed, failed, lost>>
\* a given block, or the latest one when the iteration is made
iter(at) ==
    /\ state = "none"
    /\ hash' = (IF at = 0 THEN latest ELSE at)
    /\ state' = "ready"
    /\ UNCHANGED <<blocks, page_size, fetched, start_key, keys, buffer, listed, failed, lost>>

\* mutant: the buffer is taken, not popped
popAll ==
    /\ state = "ready" /\ buffer # <<>>
    /\ buffer' = <<>>
    /\ listed' = IF Last(buffer)[2] \in Garbled THEN listed ELSE Append(listed, Last(buffer))
    /\ UNCHANGED <<blocks, page_size, fetched, hash, start_key, keys, state, failed, lost>>
(* next hands out the last entry of the buffer; one that does not decode is  *)
(* an error, and gone.                                                       *)
pop == /\ state = "ready" /\ buffer # <<>>
       /\ buffer' = Front(buffer)
       /\ listed' = IF Last(buffer)[2] \in Garbled THEN listed ELSE Append(listed, Last(buffer))
       /\ UNCHANGED <<blocks, page_size, fetched, hash, start_key, keys, state, failed, lost>>

\* mutant: the first key of the page is kept, not the last
fetch_keysFirst ==
    /\ state = "ready" /\ buffer = <<>>
    /\ \E page \in storage_keys_paged(page_size, start_key, hash) :
       /\ keys' = page
       /\ start_key' = IF page = <<>> THEN NoKey ELSE Head(page)
       /\ state' = IF page = <<>> THEN "ended" ELSE "query"
    /\ UNCHANGED <<blocks, page_size, fetched, hash, buffer, listed, failed, lost>>
\* mutant: an empty page is no end
fetch_keysOn ==
    /\ state = "ready" /\ buffer = <<>>
    /\ \E page \in storage_keys_paged(page_size, start_key, hash) :
       /\ keys' = page
       /\ start_key' = IF page = <<>> THEN start_key ELSE Last(page)
       /\ state' = "query"
    /\ UNCHANGED <<blocks, page_size, fetched, hash, buffer, listed, failed, lost>>
(* An empty buffer: the next page of keys.  start_key is taken before the    *)
(* answer is awaited, and is NoKey when it fails.                            *)
fetch_keys ==
    /\ state = "ready" /\ buffer = <<>>
    /\ \E page \in storage_keys_paged(page_size, start_key, hash) :
       /\ keys' = page
       /\ start_key' = IF page = <<>> THEN NoKey ELSE Last(page)
       /\ state' = IF page = <<>> THEN "ended" ELSE "query"
    /\ UNCHANGED <<blocks, page_size, fetched, hash, buffer, listed, failed, lost>>
fetch_fails ==
    /\ state = "ready" /\ buffer = <<>> /\ failed < MaxFaults
    /\ start_key' = NoKey
    /\ failed' = failed + 1
    /\ UNCHANGED <<blocks, page_size, fetched, hash, keys, buffer, state, listed, lost>>
\* mutant: the values of the latest block are asked for
queryBest ==
    /\ state = "query"
    /\ \E entries \in query_storage_at(keys, latest) : buffer' = buffer \o entries
    /\ state' = "ready"
    /\ UNCHANGED <<blocks, page_size, fetched, hash, start_key, keys, listed, failed, lost>>
\* ... and its values; start_key is already that of the page after
query ==
    /\ state = "query"
    /\ \E entries \in query_storage_at(keys, hash) : buffer' = buffer \o entries
    /\ state' = "ready"
    /\ UNCHANGED <<blocks, page_size, fetched, hash, start_key, keys, listed, failed, lost>>
query_fails ==
    /\ state = "query" /\ failed < MaxFaults /\ lost = {}
    /\ lost' = lost \cup ToSet(keys)
    /\ state' = "ready"
    /\ UNCHANGED <<blocks, page_size, fetched, hash, start_key, keys, buffer, listed, failed>>

(* A single read, at a block or at the latest one; fetch_or_default differs in *)
(* what it makes of NoValue.                                                 *)
fetch(k, at) ==
    /\ fetched = {}
    /\ LET block == IF at = 0 THEN latest ELSE at
       IN fetched' = {<<k, at, block, storage(k, block)>>}
    /\ UNCHANGED <<blocks, page_size, ivars>>

KNext == \/ grow
         \/ \E at \in 0..latest : iter(at)
         \/ pop \/ fetch_keys \/ fetch_fails \/ query \/ query_fails
         \/ \E k \in Keys, at \in 0..latest : fetch(k, at)
KSpec == KInit /\ [][KNext]_kvars
\* a caller that goes on calling next until it is told the end
KFair == WF_kvars(pop \/ fetch_keys \/ query)

-----------------------------------------------------------------------------
(* Properties *)

KTypeOK == /\ state \in {"none", "ready", "query", "ended"}
           /\ hash \in 0..latest /\ start_key \in Keys \cup {NoKey}
           /\ ToSet(keys) \subseteq Keys /\ lost \subseteq Keys
           /\ \A e \in ToSet(buffer) \cup ToSet(listed) : e[1] \in Keys /\ e[2] \in Values
           /\ failed \in 0..MaxFaults

Times(k) == Cardinality({i \in DOMAIN listed : listed[i][1] = k})

(* However the chain grows meanwhile, and whatever fails, every entry handed *)
(* out is of the block the iteration is pinned to, and a read of that block  *)
(* was answered the same (KeyIter::hash).                                    *)
ListedIsPinned ==
    \A e \in ToSet(listed) :
        /\ e[1] \in DOMAIN blocks[hash] /\ blocks[hash][e[1]] = e[2]
        /\ \A f \in fetched : f[1] = e[1] /\ f[2] = hash => f[4] = e[2]

(* An entry is handed out once, and once more at most for each fetch of keys *)
(* that failed and made the iteration start over.                            *)
ListedAtMost == \A k \in Keys : Times(k) <= 1 + failed

(* An iteration that is told the end has handed out every entry, but those   *)
(* of a page whose values could not be read and those that do not decode;    *)
(* a client whose page size is zero is told the end at once.                 *)
ListedAtLeast ==
    state = "ended" /\ page_size > 0 =>
        \A k \in DOMAIN blocks[hash] \ lost : blocks[hash][k] \in Garbled \/ Times(k) >= 1

(* As long as requests do not fail for ever, a caller that goes on comes to  *)
(* the end, over whatever page size.                                         *)
IterationEnds == state = "ready" ~> state = "ended"

(* What an iteration lists is right: the types, one block throughout, each *)
(* entry not too often and not too rarely (lib.rs KeyIter::next).          *)
ListedIsRight == KTypeOK /\ ListedIsPinned /\ ListedAtMost /\ ListedAtLeast

-----------------------------------------------------------------------------
(* Why *)

KTyped == /\ blocks \in Seq(Maps) /\ latest > 0 /\ page_size \in PageSizes /\ (hash = 0 <=> state = "none")
          /\ state = "none" => listed = <<>> /\ start_key = NoKey
          /\ keys \in Seq(Keys) /\ buffer \in Seq(Keys \X Values) /\ listed \in Seq(Keys \X Values)

\* whatever was read, at a block or at the best one, is of that block
ReadsAgree == \A f \in fetched : /\ f[3] \in 1..latest /\ (f[2] # 0 => f[3] = f[2])
                                 /\ f[4] = storage(f[1], f[3])

\* a page is of keys up to start_key, its values are asked for with an empty buffer
Pinned(e) == e[1] \in DOMAIN blocks[hash] /\ blocks[hash][e[1]] = e[2]
PageAgrees ==
    /\ state = "query" => buffer = <<>> /\ \A k \in ToSet(keys) : k \in DOMAIN blocks[hash] /\ k <= start_key
    /\ buffer # <<>> => state = "ready"
    /\ \A e \in ToSet(buffer) : Pinned(e) /\ e[1] <= start_key
    /\ \A i, j \in DOMAIN buffer : buffer[i][1] = buffer[j][1] => i = j
    /\ \A e \in ToSet(listed) : Pinned(e)

\* a key is in the page whose values are asked for, in the buffer, or in a page to come
Waiting(k) == \/ state = "query" /\ k \in ToSet(keys)
              \/ \E e \in ToSet(buffer) : e[1] = k
ToCome(k) == state # "ended" /\ k > start_key

\* what is yet to be handed out was so once less, and what is not was once at least
OnceLess == \A k \in Keys : Times(k) <= failed + (IF Waiting(k) \/ ToCome(k) THEN 0 ELSE 1)
OnceAtLeast == state # "none" /\ page_size > 0 =>
    \A k \in DOMAIN blocks[hash] \ lost : Waiting(k) \/ ToCome(k) \/ blocks[hash][k] \in Garbled \/ Times(k) >= 1

KIInv == KTypeOK /\ KTyped /\ ReadsAgree /\ PageAgrees /\ OnceLess /\ OnceAtLeast
=============================================================================
