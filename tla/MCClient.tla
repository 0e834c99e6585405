----------------------------- MODULE MCClient ------------------------------
(***************************************************************************)
(* Two uses of a client that share nothing but the node, which a behaviour *)
(* is one of: an iteration over a storage map, and tasks that submit and   *)
(* watch.                                                                  *)
(***************************************************************************)
EXTENDS Subxt, KeyIter, TLC

CONSTANTS t1, t2, a1, a2, f1, f2
VARIABLE subject

MCAccount == t1 :> a1 @@ t2 :> a1
MCCall == t1 :> f1 @@ t2 :> f2
\* the second runtime gives the index of f1 to f2 and has no f1
MCIndex == <<f1 :> 1 @@ f2 :> 2, f2 :> 1>>

\* the first block has every entry, one that does not decode, all but one, or none
MCMaps == {1 :> a @@ 2 :> "v" @@ 3 :> "v" : a \in {"v", "x"}} \cup {1 :> "v" @@ 3 :> "v", <<>>}

\* the second extrinsic of the account fails
MCFailing == {<<f1, 1>>}
MCNonces == t1 :> {} @@ t2 :> {1}
MCVars == <<svars, kvars, subject>>
MCInit == SInit /\ KInit /\ blocks[1] \in MCMaps /\ subject \in {"iterate", "submit"}
MCNext == \/ subject = "iterate" /\ KNext /\ UNCHANGED <<svars, subject>>
          \/ subject = "submit" /\ SNext /\ UNCHANGED <<kvars, subject>>
MCSpec == MCInit /\ [][MCNext]_MCVars /\ KFair /\ SFair

\* two blocks before the client is built, one idle block, and no more once all is over
Idle(b) == chain[b].xts = <<>> /\ chain[b].version = chain[chain[b].parent].version
MCWorks == /\ built \/ Len(chain) <= 2
           /\ Cardinality({b \in DOMAIN chain : Idle(b)}) <= 2
           /\ connected \/ (\E q \in Requests : client[q] = None) \/ \E t \in Tasks : pc[t] \in {"signed", "subscribed", "block", "events"}
=============================================================================
