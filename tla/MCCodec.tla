------------------------------ MODULE MCCodec ------------------------------
(***************************************************************************)
(* The two codecs of a client, which a behaviour is about one of: the      *)
(* argument notation and the type encoding of a contract, and the metadata *)
(* and events of a runtime.  They share no state.                          *)
(***************************************************************************)
EXTENDS MCContracts, MCEvents

VARIABLE subject

MCVars == <<cvars, evars, subject>>
MCInit == /\ CInit /\ EInit /\ subject \in {"contracts", "events"}
          /\ subject = "contracts" => raw = CHOOSE r \in Raws : TRUE
MCNext == \/ subject = "contracts" /\ ~MCOver /\ CNext /\ MCRests' /\ UNCHANGED <<evars, subject>>
          \/ subject = "events" /\ ENext /\ MCApart' /\ UNCHANGED <<cvars, subject>>
MCSpec == MCInit /\ [][MCNext]_MCVars
=============================================================================
