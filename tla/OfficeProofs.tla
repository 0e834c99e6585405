---------------------------- MODULE OfficeProofs ----------------------------
(***************************************************************************)
(* Proofs about Profile, Merchants, WalletStore and Stellar, which share   *)
(* no state, for every value of their constants: the inductive invariants  *)
(* and the properties that these imply; then about the parser of Args, for *)
(* every command line.                                                     *)
(***************************************************************************)
EXTENDS Profile, Merchants, WalletStore, Stellar, FiniteSetTheorems, SequenceTheorems,
        WellFoundedInduction, TLAPS

-----------------------------------------------------------------------------
(* Profile                                                                 *)

LEMMA InitPIInv == PInit => PIInv
  <1> SUFFICES ASSUME PInit PROVE PIInv
    OBVIOUS
  <1> USE ProfileAssumption DEF PInit, NULL
  <1>1. PTypeOK
    BY DEF PTypeOK
  <1>2. DocumentsTyped /\ NextDocumentIsFree
    BY DEF DocumentsTyped, NextDocumentIsFree
  <1>3. OneUnderWay /\ OnePerUser /\ CheckedIsKnown
    BY DEF OneUnderWay, OnePerUser, CheckedIsKnown, Under, After
  <1>4. LinkedIsOwn /\ VerifyingHasDocument
    BY DEF LinkedIsOwn, VerifyingHasDocument
  <1>5. QED
    BY <1>1, <1>2, <1>3, <1>4 DEF PIInv

LEMMA set_documentsPIInv ==
  ASSUME PIInv, NEW s \in Submissions, set_documents(s)
  PROVE  PIInv'
  <1> USE ProfileAssumption DEF PIInv, set_documents, Goes, NULL
  <1>1. PTypeOK'
    <2>1. docs_id \in 1..docs_id /\ Maker[s] \in People
      BY DEF PTypeOK
    <2>2. DOMAIN documents' \subseteq 1..docs_id /\ \A d \in DOMAIN documents' : documents'[d] \in People
      BY <2>1 DEF PTypeOK
    <2>3. submission' \in [Submissions -> {"idle", "inserted", "verifying", "linked", "ok", "refused", "broken", "dead"}]
      <3>1. \E to \in {"refused", "inserted"} : submission' = [submission EXCEPT ![s] = to]
        OBVIOUS
      <3>2. QED
        BY <3>1 DEF PTypeOK
    <2>4. QED
      BY <2>2, <2>3 DEF PTypeOK
  <1>2. DocumentsTyped'
    BY DEF PTypeOK, DocumentsTyped
  <1>3. OneUnderWay'
    BY DEF PTypeOK, OneUnderWay, Under
  <1>4. OnePerUser'
    <2>1. \A u : Stored(u) => Stored(u)'
      BY DEF Stored
    <2>2. \A t \in Submissions \ {s} : submission'[t] = submission[t]
      BY DEF PTypeOK
    <2>3. CASE docs_id \in DOMAIN documents \/ Stored(Maker[s])
      <3>1. submission'[s] = "refused"
        BY <2>3 DEF PTypeOK
      <3>2. QED
        BY <2>1, <2>2, <3>1 DEF OnePerUser, After, Under
    <2>4. CASE ~(docs_id \in DOMAIN documents \/ Stored(Maker[s]))
      <3>1. submission'[s] = "inserted" /\ Stored(Maker[s])'
        BY <2>4 DEF PTypeOK, Stored
      <3>2. \A t \in Submissions : submission[t] \in After => Maker[t] # Maker[s]
        BY <2>4 DEF OnePerUser
      <3>3. QED
        BY <2>1, <2>2, <3>1, <3>2 DEF OnePerUser, After, Under
    <2>5. QED
      BY <2>3, <2>4
  <1>5. CheckedIsKnown'
    BY DEF PTypeOK, CheckedIsKnown, SameSecret
  <1>6. LinkedIsOwn'
    BY DEF PTypeOK, LinkedIsOwn
  <1>7. NextDocumentIsFree'
    BY DEF PTypeOK, NextDocumentIsFree
  <1>8. VerifyingHasDocument'
    BY DEF PTypeOK, VerifyingHasDocument, Stored
  <1>9. QED
    BY <1>1, <1>2, <1>3, <1>4, <1>5, <1>6, <1>7, <1>8

LEMMA update_statusPIInv ==
  ASSUME PIInv, NEW s \in Submissions, update_status(s)
  PROVE  PIInv'
  <1> USE ProfileAssumption DEF PIInv, update_status, Goes, NULL
  <1>1. PTypeOK'
    <2> DEFINE P == [status : {"active", "verifying"}, documents_id : Nat, password : Secrets, pin : Secrets \cup {NotSet}]
    <2>1. Maker[s] \in People /\ people[Maker[s]] \in P /\ people \in [People -> P]
      BY DEF PTypeOK
    <2>2. [people[Maker[s]] EXCEPT !.status = "verifying"] \in P
      BY <2>1
    <2>3. people' \in [People -> P]
      BY <2>1, <2>2
    <2>4. submission' \in [Submissions -> {"idle", "inserted", "verifying", "linked", "ok", "refused", "broken", "dead"}]
      BY DEF PTypeOK
    <2>5. QED
      BY <2>3, <2>4 DEF PTypeOK
  <1>2. DocumentsTyped'
    BY DEF PTypeOK, DocumentsTyped
  <1>3. OneUnderWay'
    BY DEF PTypeOK, OneUnderWay, Under
  <1>4. OnePerUser'
    BY DEF PTypeOK, OnePerUser, Under, After, Stored
  <1>5. CheckedIsKnown'
    BY DEF PTypeOK, CheckedIsKnown, SameSecret
  <1>6. LinkedIsOwn'
    BY DEF PTypeOK, LinkedIsOwn
  <1>7. NextDocumentIsFree'
    BY DEF PTypeOK, NextDocumentIsFree
  <1>8. VerifyingHasDocument'
    <2>1. Stored(Maker[s])
      BY DEF OneUnderWay, Under, Stored
    <2>2. \A u \in People \ {Maker[s]} : people'[u] = people[u]
      BY DEF PTypeOK
    <2>3. QED
      BY <2>1, <2>2 DEF VerifyingHasDocument, Stored
  <1>9. QED
    BY <1>1, <1>2, <1>3, <1>4, <1>5, <1>6, <1>7, <1>8

LEMMA update_doc_idPIInv ==
  ASSUME PIInv, NEW s \in Submissions, update_doc_id(s)
  PROVE  PIInv'
  <1> USE ProfileAssumption DEF PIInv, update_doc_id, Goes, NULL
  <1>1. PTypeOK'
    <2> DEFINE P == [status : {"active", "verifying"}, documents_id : Nat, password : Secrets, pin : Secrets \cup {NotSet}]
    <2>1. Maker[s] \in People /\ people[Maker[s]] \in P /\ people \in [People -> P] /\ docs_id \in Nat
      BY DEF PTypeOK
    <2>2. [people[Maker[s]] EXCEPT !.documents_id = docs_id] \in P
      BY <2>1
    <2>3. people' \in [People -> P]
      BY <2>1, <2>2
    <2>4. submission' \in [Submissions -> {"idle", "inserted", "verifying", "linked", "ok", "refused", "broken", "dead"}]
      BY DEF PTypeOK
    <2>5. QED
      BY <2>3, <2>4 DEF PTypeOK
  <1>2. DocumentsTyped'
    BY DEF PTypeOK, DocumentsTyped
  <1>3. OneUnderWay'
    BY DEF PTypeOK, OneUnderWay, Under
  <1>4. OnePerUser'
    BY DEF PTypeOK, OnePerUser, Under, After, Stored
  <1>5. CheckedIsKnown'
    BY DEF PTypeOK, CheckedIsKnown, SameSecret
  <1>6. LinkedIsOwn'
    <2>1. docs_id \in DOMAIN documents /\ documents[docs_id] = Maker[s]
      BY DEF OneUnderWay, Under
    <2>2. /\ people'[Maker[s]].documents_id = docs_id
          /\ \A u \in People \ {Maker[s]} : people'[u] = people[u]
      BY DEF PTypeOK
    <2>3. QED
      BY <2>1, <2>2 DEF LinkedIsOwn
  <1>7. NextDocumentIsFree'
    BY DEF PTypeOK, NextDocumentIsFree
  <1>8. VerifyingHasDocument'
    BY DEF PTypeOK, VerifyingHasDocument, Stored
  <1>9. QED
    BY <1>1, <1>2, <1>3, <1>4, <1>5, <1>6, <1>7, <1>8

LEMMA resetPIInv ==
  ASSUME PIInv, NEW s \in Submissions, reset(s)
  PROVE  PIInv'
  <1> USE ProfileAssumption DEF PIInv, reset, Goes, NULL
  <1>1. PTypeOK'
    BY DEF PTypeOK
  <1>2. DocumentsTyped'
    BY DEF PTypeOK, DocumentsTyped
  <1>3. OneUnderWay'
    BY DEF PTypeOK, OneUnderWay, Under
  <1>4. OnePerUser'
    BY DEF PTypeOK, OnePerUser, Under, After, Stored
  <1>5. CheckedIsKnown'
    BY DEF PTypeOK, CheckedIsKnown, SameSecret
  <1>6. LinkedIsOwn'
    BY DEF PTypeOK, LinkedIsOwn
  <1>7. NextDocumentIsFree'
    BY DEF PTypeOK, NextDocumentIsFree
  <1>8. VerifyingHasDocument'
    BY DEF PTypeOK, VerifyingHasDocument, Stored
  <1>9. QED
    BY <1>1, <1>2, <1>3, <1>4, <1>5, <1>6, <1>7, <1>8

LEMMA set_kyc_failsPIInv ==
  ASSUME PIInv, NEW s \in Submissions, set_kyc_fails(s)
  PROVE  PIInv'
  <1> USE ProfileAssumption DEF PIInv, set_kyc_fails, Goes, NULL
  <1>1. PTypeOK'
    BY DEF PTypeOK
  <1>2. DocumentsTyped'
    BY DEF PTypeOK, DocumentsTyped
  <1>3. OneUnderWay'
    BY DEF PTypeOK, OneUnderWay, Under
  <1>4. OnePerUser'
    BY DEF PTypeOK, OnePerUser, Under, After, Stored
  <1>5. CheckedIsKnown'
    BY DEF PTypeOK, CheckedIsKnown, SameSecret
  <1>6. LinkedIsOwn'
    BY DEF PTypeOK, LinkedIsOwn
  <1>7. NextDocumentIsFree'
    BY DEF PTypeOK, NextDocumentIsFree
  <1>8. VerifyingHasDocument'
    BY DEF PTypeOK, VerifyingHasDocument, Stored
  <1>9. QED
    BY <1>1, <1>2, <1>3, <1>4, <1>5, <1>6, <1>7, <1>8

LEMMA setup_profilePIInv ==
  ASSUME PIInv, NEW u \in People, setup_profile(u)
  PROVE  PIInv'
  <1> USE ProfileAssumption DEF PIInv, setup_profile, NULL
  <1>1. PTypeOK'
    <2> DEFINE P == [status : {"active", "verifying"}, documents_id : Nat, password : Secrets, pin : Secrets \cup {NotSet}]
    <2>1. u \in People /\ people[u] \in P /\ people \in [People -> P]
      BY DEF PTypeOK
    <2>2. [people[u] EXCEPT !.status = "active"] \in P
      BY <2>1
    <2>3. people' \in [People -> P]
      BY <2>1, <2>2
    <2>5. QED
      BY <2>3 DEF PTypeOK
  <1>2. DocumentsTyped'
    BY DEF PTypeOK, DocumentsTyped
  <1>3. OneUnderWay'
    BY DEF PTypeOK, OneUnderWay, Under
  <1>4. OnePerUser'
    BY DEF PTypeOK, OnePerUser, Under, After, Stored
  <1>5. CheckedIsKnown'
    BY DEF PTypeOK, CheckedIsKnown, SameSecret
  <1>6. LinkedIsOwn'
    BY DEF PTypeOK, LinkedIsOwn
  <1>7. NextDocumentIsFree'
    BY DEF PTypeOK, NextDocumentIsFree
  <1>8. VerifyingHasDocument'
    BY DEF PTypeOK, VerifyingHasDocument, Stored
  <1>9. QED
    BY <1>1, <1>2, <1>3, <1>4, <1>5, <1>6, <1>7, <1>8

LEMMA change_checkPIInv ==
  ASSUME PIInv, NEW c \in Changes, change_check(c)
  PROVE  PIInv'
  <1> USE ProfileAssumption DEF PIInv, change_check, Moves, NULL
  <1>1. PTypeOK'
    BY DEF PTypeOK
  <1>2. DocumentsTyped'
    BY DEF PTypeOK, DocumentsTyped
  <1>3. OneUnderWay'
    BY DEF PTypeOK, OneUnderWay, Under
  <1>4. OnePerUser'
    BY DEF PTypeOK, OnePerUser, Under, After, Stored
  <1>5. CheckedIsKnown'
    BY DEF PTypeOK, CheckedIsKnown, SameSecret
  <1>6. LinkedIsOwn'
    BY DEF PTypeOK, LinkedIsOwn
  <1>7. NextDocumentIsFree'
    BY DEF PTypeOK, NextDocumentIsFree
  <1>8. VerifyingHasDocument'
    BY DEF PTypeOK, VerifyingHasDocument, Stored
  <1>9. QED
    BY <1>1, <1>2, <1>3, <1>4, <1>5, <1>6, <1>7, <1>8

LEMMA change_writePIInv ==
  ASSUME PIInv, NEW c \in Changes, change_write(c)
  PROVE  PIInv'
  <1> USE ProfileAssumption DEF PIInv, change_write, Moves, NULL
  <1>a. \A u \in People : /\ people'[u].documents_id = people[u].documents_id
                           /\ people'[u].status = people[u].status
    <2>1. Asked[c].field \in {"password", "pin"}
      OBVIOUS
    <2>2. CASE Asked[c].field = "password"
      BY <2>2 DEF PTypeOK
    <2>3. CASE Asked[c].field = "pin"
      BY <2>3 DEF PTypeOK
    <2>4. QED
      BY <2>1, <2>2, <2>3
  <1>b. UNCHANGED <<docs_id, documents, submission>>
    OBVIOUS
  <1>1. PTypeOK'
    <2> DEFINE P == [status : {"active", "verifying"}, documents_id : Nat, password : Secrets, pin : Secrets \cup {NotSet}]
               row == [people[Maker[c]] EXCEPT ![Asked[c].field] = Asked[c].new]
    <2>1. Maker[c] \in People /\ people[Maker[c]] \in P /\ people \in [People -> P]
      BY DEF PTypeOK
    <2>2. row \in P
      BY <2>1
    <2>3. people' = [people EXCEPT ![Maker[c]] = row]
      BY <2>1
    <2>4. people' \in [People -> P]
      <3> HIDE DEF row
      <3>1. QED
        BY <2>1, <2>2, <2>3
    <2>5. change' \in [Changes -> {"idle", "checked", "changed", "incorrect", "failed", "dead"}]
      BY DEF PTypeOK
    <2>6. QED
      BY <2>4, <2>5 DEF PTypeOK
  <1>2. DocumentsTyped'
    BY DEF PTypeOK, DocumentsTyped
  <1>3. OneUnderWay'
    BY DEF PTypeOK, OneUnderWay, Under
  <1>4. OnePerUser'
    BY <1>a, <1>b DEF PTypeOK, OnePerUser, Under, After, Stored
  <1>5. CheckedIsKnown'
    BY DEF PTypeOK, CheckedIsKnown, SameSecret
  <1>6. LinkedIsOwn'
    BY <1>a, <1>b DEF PTypeOK, LinkedIsOwn
  <1>7. NextDocumentIsFree'
    BY DEF PTypeOK, NextDocumentIsFree
  <1>8. VerifyingHasDocument'
    BY <1>a, <1>b DEF PTypeOK, VerifyingHasDocument, Stored
  <1>9. QED
    BY <1>1, <1>2, <1>3, <1>4, <1>5, <1>6, <1>7, <1>8

LEMMA change_failsPIInv ==
  ASSUME PIInv, NEW c \in Changes, change_fails(c)
  PROVE  PIInv'
  <1> USE ProfileAssumption DEF PIInv, change_fails, Moves, NULL
  <1>1. PTypeOK'
    BY DEF PTypeOK
  <1>2. DocumentsTyped'
    BY DEF PTypeOK, DocumentsTyped
  <1>3. OneUnderWay'
    BY DEF PTypeOK, OneUnderWay, Under
  <1>4. OnePerUser'
    BY DEF PTypeOK, OnePerUser, Under, After, Stored
  <1>5. CheckedIsKnown'
    BY DEF PTypeOK, CheckedIsKnown, SameSecret
  <1>6. LinkedIsOwn'
    BY DEF PTypeOK, LinkedIsOwn
  <1>7. NextDocumentIsFree'
    BY DEF PTypeOK, NextDocumentIsFree
  <1>8. VerifyingHasDocument'
    BY DEF PTypeOK, VerifyingHasDocument, Stored
  <1>9. QED
    BY <1>1, <1>2, <1>3, <1>4, <1>5, <1>6, <1>7, <1>8

LEMMA restart_profilePIInv ==
  ASSUME PIInv, restart_profile
  PROVE  PIInv'
  <1> USE ProfileAssumption DEF PIInv, restart_profile, NULL
  <1>1. PTypeOK'
    BY DEF PTypeOK
  <1>2. DocumentsTyped'
    BY DEF PTypeOK, DocumentsTyped
  <1>3. OneUnderWay'
    BY DEF PTypeOK, OneUnderWay, Under
  <1>4. OnePerUser'
    BY DEF PTypeOK, OnePerUser, Under, After, Stored
  <1>5. CheckedIsKnown'
    BY DEF PTypeOK, CheckedIsKnown, SameSecret
  <1>6. LinkedIsOwn'
    BY DEF PTypeOK, LinkedIsOwn
  <1>7. NextDocumentIsFree'
    BY DEF PTypeOK, NextDocumentIsFree
  <1>8. VerifyingHasDocument'
    BY DEF PTypeOK, VerifyingHasDocument, Stored
  <1>9. QED
    BY <1>1, <1>2, <1>3, <1>4, <1>5, <1>6, <1>7, <1>8

-----------------------------------------------------------------------------
(* The theorems *)

LEMMA NextPIInv ==
  ASSUME PIInv, [PNext]_pvars
  PROVE  PIInv'
  <1>1. CASE UNCHANGED pvars
    <2> USE <1>1 DEF pvars
    <2>1. PTypeOK' /\ DocumentsTyped' /\ OneUnderWay' /\ OnePerUser'
      BY DEF PIInv, PTypeOK, DocumentsTyped, OneUnderWay, OnePerUser, Stored
    <2>2. CheckedIsKnown' /\ LinkedIsOwn' /\ NextDocumentIsFree' /\ VerifyingHasDocument'
      BY DEF PIInv, CheckedIsKnown, SameSecret, LinkedIsOwn, NextDocumentIsFree, VerifyingHasDocument, Stored
    <2>3. QED
      BY <2>1, <2>2 DEF PIInv
  <1>2. CASE PNext
    <2>1. ASSUME NEW s \in Submissions, \/ set_documents(s) \/ update_status(s) \/ update_doc_id(s)
                                        \/ reset(s) \/ set_kyc_fails(s)
          PROVE  PIInv'
      BY <2>1, set_documentsPIInv, update_statusPIInv, update_doc_idPIInv, resetPIInv, set_kyc_failsPIInv
    <2>2. ASSUME NEW u \in People, setup_profile(u)
          PROVE  PIInv'
      BY <2>2, setup_profilePIInv
    <2>3. ASSUME NEW c \in Changes, change_check(c) \/ change_write(c) \/ change_fails(c)
          PROVE  PIInv'
      BY <2>3, change_checkPIInv, change_writePIInv, change_failsPIInv
    <2>4. QED
      BY <1>2, <2>1, <2>2, <2>3, restart_profilePIInv DEF PNext
  <1>3. QED
    BY <1>1, <1>2

LEMMA PIInvImplies == PIInv => DocumentsAreRight
  <1> SUFFICES ASSUME PIInv PROVE AcceptedOnce
    BY DEF PIInv, DocumentsAreRight
  <1>1. QED
    BY DEF PIInv, AcceptedOnce, OnePerUser, After

(* Only the UPDATE of a change touches a secret.                           *)
Replaced(u, f) == people'[u][f] # people[u][f]
Knowingly(u, f) ==
  \E c \in Changes : /\ Maker[c] = u /\ Asked[c].field = f
                     /\ change[c] = "checked" /\ change'[c] = "changed"
                     /\ \/ people[u][f] = Asked[c].old
                        \/ \E d \in Changes \ {c} : SameSecret(c, d) /\ change[d] = "changed"

LEMMA StepReplacesKnowingly ==
  ASSUME PIInv, PNext, NEW u \in People, NEW f \in {"password", "pin"}, Replaced(u, f)
  PROVE  Knowingly(u, f)
  <1> USE ProfileAssumption DEF PIInv, Replaced
  <1>1. ASSUME NEW s \in Submissions, \/ set_documents(s) \/ update_status(s) \/ update_doc_id(s)
                                      \/ reset(s) \/ set_kyc_fails(s)
        PROVE  FALSE
    <2>1. UNCHANGED people \/ update_status(s) \/ update_doc_id(s)
      BY <1>1 DEF set_documents, reset, set_kyc_fails
    <2>2. ASSUME update_status(s) PROVE people'[u][f] = people[u][f]
      <3>1. CASE f = "password"
        BY <2>2, <3>1 DEF PTypeOK, update_status
      <3>2. CASE f = "pin"
        BY <2>2, <3>2 DEF PTypeOK, update_status
      <3>3. QED
        BY <3>1, <3>2
    <2>3. ASSUME update_doc_id(s) PROVE people'[u][f] = people[u][f]
      <3>1. CASE f = "password"
        BY <2>3, <3>1 DEF PTypeOK, update_doc_id
      <3>2. CASE f = "pin"
        BY <2>3, <3>2 DEF PTypeOK, update_doc_id
      <3>3. QED
        BY <3>1, <3>2
    <2>4. QED
      BY <2>1, <2>2, <2>3
  <1>2. ASSUME NEW v \in People, setup_profile(v)
        PROVE  FALSE
    <2>1. CASE f = "password"
      BY <1>2, <2>1 DEF PTypeOK, setup_profile
    <2>2. CASE f = "pin"
      BY <1>2, <2>2 DEF PTypeOK, setup_profile
    <2>3. QED
      BY <2>1, <2>2
  <1>3. ASSUME NEW c \in Changes, change_check(c) \/ change_fails(c)
        PROVE  FALSE
    BY <1>3 DEF change_check, change_fails
  <1>4. ASSUME NEW c \in Changes, change_write(c)
        PROVE  Knowingly(u, f)
    <2>1. Maker[c] = u /\ Asked[c].field = f
      <3>1. Asked[c].field \in {"password", "pin"}
        OBVIOUS
      <3>2. CASE Asked[c].field = "password"
        BY <1>4, <3>2 DEF PTypeOK, change_write
      <3>3. CASE Asked[c].field = "pin"
        BY <1>4, <3>3 DEF PTypeOK, change_write
      <3>4. QED
        BY <3>1, <3>2, <3>3
    <2>2. change[c] = "checked" /\ change'[c] = "changed"
      BY <1>4 DEF PTypeOK, change_write, Moves
    <2>3. QED
      BY <2>1, <2>2 DEF CheckedIsKnown, Knowingly
  <1>5. ASSUME restart_profile
        PROVE  FALSE
    BY <1>5 DEF restart_profile
  <1>6. QED
    BY <1>1, <1>2, <1>3, <1>4, <1>5 DEF PNext

(* The inductive invariant holds in every reachable state of the profiles, *)
(* for every number of users, submissions, changes and restarts.           *)
THEOREM ProfileInvariant == PSpec => []PIInv
  <1>1. PIInv /\ [PNext]_pvars => PIInv'
    BY NextPIInv
  <1>2. QED
    BY InitPIInv, <1>1, PTL DEF PSpec

(* The document a user is linked to is the user's own, the next id is free *)
(* unless its submission is under way or broke, one submission of a user   *)
(* is accepted, and who waits to be verified has a document, whichever     *)
(* statement of set-kyc! failed (userinfo.clj:74-103).                     *)
THEOREM DocumentsStayRight == PSpec => []DocumentsAreRight
  <1>1. PIInv => DocumentsAreRight
    BY PIInvImplies
  <1>2. QED
    BY ProfileInvariant, <1>1, PTL

(* A secret is replaced by a request that knew it, or that overlapped      *)
(* another change of it (login.clj: change-password!, change-pin!).        *)
THEOREM SecretsAreReplacedKnowingly == PSpec => ReplacedKnowingly
  <1>1. PIInv /\ [PNext]_pvars =>
          [\A u \in People : \A f \in {"password", "pin"} : people'[u][f] # people[u][f] =>
             \E c \in Changes : /\ Maker[c] = u /\ Asked[c].field = f
                                /\ change[c] = "checked" /\ change'[c] = "changed"
                                /\ \/ people[u][f] = Asked[c].old
                                   \/ \E d \in Changes \ {c} : SameSecret(c, d) /\ change[d] = "changed"]_pvars
    BY StepReplacesKnowingly DEF Replaced, Knowingly
  <1>2. QED
    BY ProfileInvariant, <1>1, PTL DEF PSpec, ReplacedKnowingly

-----------------------------------------------------------------------------
(* Merchants                                                               *)

LEMMA InitMIInv == MInit => MIInv
  <1> SUFFICES ASSUME MInit PROVE MIInv
    OBVIOUS
  <1> USE MerchantsAssumption DEF MInit
  <1>1. MTypeOK
    BY DEF MTypeOK, RequestsTyped
  <1>2. RequestsTyped
    BY DEF RequestsTyped, Places, Issued
  <1>3. PartnersHaveMerchant
    BY DEF PartnersHaveMerchant, RequestsTyped
  <1>4. BranchesHaveMerchant
    BY DEF BranchesHaveMerchant, Owns, RequestsTyped
  <1>5. KeysAreOfPartners
    BY DEF KeysAreOfPartners, RequestsTyped
  <1>6. UndisturbedKeyWorks
    BY DEF UndisturbedKeyWorks, RequestsTyped, Rows, Undisturbed
  <1>7. AddsAgree
    BY DEF AddsAgree, RequestsTyped
  <1>8. GetsAgree
    BY DEF GetsAgree, RequestsTyped, Busy, Places
  <1>9. OverlapIsKnown
    BY DEF OverlapIsKnown, RequestsTyped, Busy
  <1>10. SecretsAgree
    BY DEF SecretsAgree, OneSecret, RequestsTyped, Rows, Undisturbed
  <1>11. QED
    BY <1>1, <1>2, <1>3, <1>4, <1>5, <1>6, <1>7, <1>8, <1>9, <1>10 DEF MIInv, PartnersAreRight

LEMMA add_merchantsMIInv ==
  ASSUME MIInv, NEW a \in Adds, add_merchants(a)
  PROVE  MIInv'
  <1> USE MerchantsAssumption DEF MIInv, PartnersAreRight, add_merchants, AddGoes, Taken
  <1>a. \/ UNCHANGED merchants
        \/ /\ ~Taken(Title[a]) /\ DOMAIN merchants' = DOMAIN merchants \cup {a}
           /\ merchants'[a] = [name |-> Title[a], owner |-> Sender[a]]
           /\ \A m \in DOMAIN merchants : merchants'[m] = merchants[m]
    BY DEF AddsAgree
  <1>b. /\ [name |-> Title[a], owner |-> Sender[a]] \in [name : Titles, owner : Staff]
        /\ [name |-> Title[a], owner |-> Sender[a]].name = Title[a]
        /\ [name |-> Title[a], owner |-> Sender[a]].owner = Sender[a]
    BY DEF Titles
  <1>c. merchants' \in [DOMAIN merchants' -> [name : Titles, owner : Staff]]
    BY <1>b DEF RequestsTyped
  <1>1. MTypeOK'
    <2>1. \A m, n \in DOMAIN merchants' : merchants'[m].name = merchants'[n].name => m = n
      BY <1>a, <1>b DEF MTypeOK
    <2>2. DOMAIN merchants' \subseteq Adds
      BY <1>a DEF MTypeOK
    <2>3. QED
      BY <1>c, <2>1, <2>2 DEF MTypeOK
  <1>2. RequestsTyped'
    BY <1>c DEF RequestsTyped
  <1>3. PartnersHaveMerchant'
    BY <1>a DEF PartnersHaveMerchant
  <1>4. BranchesHaveMerchant'
    BY <1>a DEF BranchesHaveMerchant, Owns
  <1>5. KeysAreOfPartners'
    BY DEF KeysAreOfPartners, RequestsTyped
  <1>6. UndisturbedKeyWorks'
    BY DEF UndisturbedKeyWorks, RequestsTyped, Rows, Undisturbed
  <1>7. AddsAgree'
    BY DEF AddsAgree, RequestsTyped
  <1>8. GetsAgree'
    BY DEF GetsAgree, RequestsTyped, Busy, Places
  <1>9. OverlapIsKnown'
    BY DEF OverlapIsKnown, RequestsTyped, Busy
  <1>10. SecretsAgree'
    BY DEF SecretsAgree, OneSecret, RequestsTyped, Rows, Undisturbed
  <1>11. QED
    BY <1>1, <1>2, <1>3, <1>4, <1>5, <1>6, <1>7, <1>8, <1>9, <1>10 DEF MIInv, PartnersAreRight

LEMMA join_partnersMIInv ==
  ASSUME MIInv, NEW a \in Adds, join_partners(a)
  PROVE  MIInv'
  <1> USE MerchantsAssumption DEF MIInv, PartnersAreRight, join_partners, AddGoes, Taken
  <1>1. MTypeOK'
    <2>1. partners' \subseteq Staff
      BY DEF MTypeOK
    <2>2. UNCHANGED <<merchants, apiacc, branches, user_id, overlapped>>
      OBVIOUS
    <2>3. QED
      BY <2>1, <2>2 DEF MTypeOK
  <1>2. RequestsTyped'
    BY DEF RequestsTyped, Places
  <1>3. PartnersHaveMerchant'
    <2>1. a \in DOMAIN merchants /\ merchants[a].owner = Sender[a]
      BY DEF AddsAgree
    <2>2. QED
      BY <2>1 DEF PartnersHaveMerchant
  <1>4. BranchesHaveMerchant'
    BY DEF BranchesHaveMerchant, Owns, RequestsTyped
  <1>5. KeysAreOfPartners'
    BY DEF KeysAreOfPartners, RequestsTyped
  <1>6. UndisturbedKeyWorks'
    BY DEF UndisturbedKeyWorks, RequestsTyped, Rows, Undisturbed
  <1>7. AddsAgree'
    BY DEF AddsAgree, RequestsTyped
  <1>8. GetsAgree'
    BY DEF GetsAgree, RequestsTyped, Busy, Places
  <1>9. OverlapIsKnown'
    BY DEF OverlapIsKnown, RequestsTyped, Busy
  <1>10. SecretsAgree'
    BY DEF SecretsAgree, OneSecret, RequestsTyped, Rows, Undisturbed
  <1>11. QED
    BY <1>1, <1>2, <1>3, <1>4, <1>5, <1>6, <1>7, <1>8, <1>9, <1>10 DEF MIInv, PartnersAreRight

LEMMA add_merchant_failsMIInv ==
  ASSUME MIInv, NEW a \in Adds, add_merchant_fails(a)
  PROVE  MIInv'
  <1> USE MerchantsAssumption DEF MIInv, PartnersAreRight, add_merchant_fails, AddGoes, Taken
  <1>1. MTypeOK'
    BY DEF MTypeOK, RequestsTyped
  <1>2. RequestsTyped'
    BY DEF RequestsTyped, Places
  <1>3. PartnersHaveMerchant'
    BY DEF PartnersHaveMerchant, RequestsTyped
  <1>4. BranchesHaveMerchant'
    BY DEF BranchesHaveMerchant, Owns, RequestsTyped
  <1>5. KeysAreOfPartners'
    BY DEF KeysAreOfPartners, RequestsTyped
  <1>6. UndisturbedKeyWorks'
    BY DEF UndisturbedKeyWorks, RequestsTyped, Rows, Undisturbed
  <1>7. AddsAgree'
    BY DEF AddsAgree, RequestsTyped
  <1>8. GetsAgree'
    BY DEF GetsAgree, RequestsTyped, Busy, Places
  <1>9. OverlapIsKnown'
    BY DEF OverlapIsKnown, RequestsTyped, Busy
  <1>10. SecretsAgree'
    BY DEF SecretsAgree, OneSecret, RequestsTyped, Rows, Undisturbed
  <1>11. QED
    BY <1>1, <1>2, <1>3, <1>4, <1>5, <1>6, <1>7, <1>8, <1>9, <1>10 DEF MIInv, PartnersAreRight

LEMMA update_merchantsMIInv ==
  ASSUME MIInv, NEW m \in DOMAIN merchants, NEW name \in Titles, update_merchants(m, name)
  PROVE  MIInv'
  <1> USE MerchantsAssumption DEF MIInv, PartnersAreRight, update_merchants, Taken
  <1>1. MTypeOK'
    BY DEF MTypeOK, RequestsTyped
  <1>2. RequestsTyped'
    BY DEF RequestsTyped, Places
  <1>3. PartnersHaveMerchant'
    BY DEF PartnersHaveMerchant, RequestsTyped
  <1>4. BranchesHaveMerchant'
    BY DEF BranchesHaveMerchant, Owns, RequestsTyped
  <1>5. KeysAreOfPartners'
    BY DEF KeysAreOfPartners, RequestsTyped
  <1>6. UndisturbedKeyWorks'
    BY DEF UndisturbedKeyWorks, RequestsTyped, Rows, Undisturbed
  <1>7. AddsAgree'
    BY DEF AddsAgree, RequestsTyped
  <1>8. GetsAgree'
    BY DEF GetsAgree, RequestsTyped, Busy, Places
  <1>9. OverlapIsKnown'
    BY DEF OverlapIsKnown, RequestsTyped, Busy
  <1>10. SecretsAgree'
    BY DEF SecretsAgree, OneSecret, RequestsTyped, Rows, Undisturbed
  <1>11. QED
    BY <1>1, <1>2, <1>3, <1>4, <1>5, <1>6, <1>7, <1>8, <1>9, <1>10 DEF MIInv, PartnersAreRight

LEMMA add_branchesMIInv ==
  ASSUME MIInv, NEW u \in Staff, NEW m \in Adds, NEW name \in BranchNames, add_branches(u, m, name)
  PROVE  MIInv'
  <1> USE MerchantsAssumption DEF MIInv, PartnersAreRight, add_branches, BranchIs
  <1>1. MTypeOK'
    BY DEF MTypeOK, RequestsTyped
  <1>2. RequestsTyped'
    BY DEF RequestsTyped, Places
  <1>3. PartnersHaveMerchant'
    BY DEF PartnersHaveMerchant, RequestsTyped
  <1>4. BranchesHaveMerchant'
    BY DEF BranchesHaveMerchant, Owns, RequestsTyped
  <1>5. KeysAreOfPartners'
    BY DEF KeysAreOfPartners, RequestsTyped
  <1>6. UndisturbedKeyWorks'
    BY DEF UndisturbedKeyWorks, RequestsTyped, Rows, Undisturbed
  <1>7. AddsAgree'
    BY DEF AddsAgree, RequestsTyped
  <1>8. GetsAgree'
    BY DEF GetsAgree, RequestsTyped, Busy, Places
  <1>9. OverlapIsKnown'
    BY DEF OverlapIsKnown, RequestsTyped, Busy
  <1>10. SecretsAgree'
    BY DEF SecretsAgree, OneSecret, RequestsTyped, Rows, Undisturbed
  <1>11. QED
    BY <1>1, <1>2, <1>3, <1>4, <1>5, <1>6, <1>7, <1>8, <1>9, <1>10 DEF MIInv, PartnersAreRight

LEMMA granted_userMIInv ==
  ASSUME MIInv, NEW u \in Staff, NEW name \in BranchNames, NEW v \in Staff, granted_user(u, name, v)
  PROVE  MIInv'
  <1> USE MerchantsAssumption DEF MIInv, PartnersAreRight, granted_user, BranchIs
  <1>1. MTypeOK'
    BY DEF MTypeOK, RequestsTyped
  <1>2. RequestsTyped'
    BY DEF RequestsTyped, Places
  <1>3. PartnersHaveMerchant'
    BY DEF PartnersHaveMerchant, RequestsTyped
  <1>4. BranchesHaveMerchant'
    BY DEF BranchesHaveMerchant, Owns, RequestsTyped
  <1>5. KeysAreOfPartners'
    BY DEF KeysAreOfPartners, RequestsTyped
  <1>6. UndisturbedKeyWorks'
    BY DEF UndisturbedKeyWorks, RequestsTyped, Rows, Undisturbed
  <1>7. AddsAgree'
    BY DEF AddsAgree, RequestsTyped
  <1>8. GetsAgree'
    BY DEF GetsAgree, RequestsTyped, Busy, Places
  <1>9. OverlapIsKnown'
    BY DEF OverlapIsKnown, RequestsTyped, Busy
  <1>10. SecretsAgree'
    BY DEF SecretsAgree, OneSecret, RequestsTyped, Rows, Undisturbed
  <1>11. QED
    BY <1>1, <1>2, <1>3, <1>4, <1>5, <1>6, <1>7, <1>8, <1>9, <1>10 DEF MIInv, PartnersAreRight

LEMMA is_partnerMIInv ==
  ASSUME MIInv, NEW g \in Gets, is_partner(g)
  PROVE  MIInv'
  <1> USE MerchantsAssumption DEF MIInv, PartnersAreRight, is_partner, At, Now
  <1>a. \A h \in Gets : getting'[h].told = getting[h].told
    BY DEF RequestsTyped
  <1>b. overlapped \subseteq overlapped' /\ (overlapped \subseteq Gets => overlapped' \subseteq Gets)
    BY DEF Busy
  <1>c. UNCHANGED <<merchants, partners, branches, adding, apiacc, user_id>>
    OBVIOUS
  <1>1. MTypeOK'
    BY <1>b, <1>c DEF MTypeOK
  <1>2. RequestsTyped'
    BY DEF RequestsTyped, Places
  <1>3. PartnersHaveMerchant'
    BY DEF PartnersHaveMerchant, RequestsTyped
  <1>4. BranchesHaveMerchant'
    BY DEF BranchesHaveMerchant, Owns, RequestsTyped
  <1>5. KeysAreOfPartners'
    BY DEF KeysAreOfPartners, RequestsTyped
  <1>6. UndisturbedKeyWorks'
    BY <1>a, <1>b, <1>c DEF UndisturbedKeyWorks, Rows, Undisturbed
  <1>7. AddsAgree'
    BY DEF AddsAgree, RequestsTyped
  <1>8. GetsAgree'
    BY DEF GetsAgree, RequestsTyped, Busy, Places
  <1>9. OverlapIsKnown'
    BY DEF OverlapIsKnown, RequestsTyped, Busy
  <1>10. SecretsAgree'
    <2>1. /\ getting'[g].at \in {"partner", "ended"}
          /\ getting'[g].sec = getting[g].sec /\ getting'[g].told = getting[g].told
          /\ \A h \in Gets \ {g} : getting'[h] = getting[h]
      BY DEF RequestsTyped
    <2>2. \A h \in Gets : OneSecret(h) => OneSecret(h)'
      BY <1>c, <2>1 DEF OneSecret, Rows
    <2>3. \A h \in Gets : Undisturbed(Sender[h])' => Undisturbed(Sender[h])
      BY <1>b DEF Undisturbed
    <2>4. QED
      BY <2>2, <2>3 DEF SecretsAgree
  <1>11. QED
    BY <1>1, <1>2, <1>3, <1>4, <1>5, <1>6, <1>7, <1>8, <1>9, <1>10 DEF MIInv, PartnersAreRight

LEMMA if_apikey_existMIInv ==
  ASSUME MIInv, NEW g \in Gets, if_apikey_exist(g)
  PROVE  MIInv'
  <1> USE MerchantsAssumption DEF MIInv, PartnersAreRight, if_apikey_exist, At, Now
  <1>1. MTypeOK'
    BY DEF MTypeOK, RequestsTyped
  <1>2. RequestsTyped'
    BY DEF RequestsTyped, Places
  <1>3. PartnersHaveMerchant'
    BY DEF PartnersHaveMerchant, RequestsTyped
  <1>4. BranchesHaveMerchant'
    BY DEF BranchesHaveMerchant, Owns, RequestsTyped
  <1>5. KeysAreOfPartners'
    BY DEF KeysAreOfPartners, RequestsTyped
  <1>6. UndisturbedKeyWorks'
    BY DEF UndisturbedKeyWorks, RequestsTyped, Rows, Undisturbed
  <1>7. AddsAgree'
    BY DEF AddsAgree, RequestsTyped
  <1>8. GetsAgree'
    BY DEF GetsAgree, RequestsTyped, Busy, Places
  <1>9. OverlapIsKnown'
    BY DEF OverlapIsKnown, RequestsTyped, Busy
  <1>10. SecretsAgree'
    BY DEF SecretsAgree, OneSecret, RequestsTyped, Rows, Undisturbed
  <1>11. QED
    BY <1>1, <1>2, <1>3, <1>4, <1>5, <1>6, <1>7, <1>8, <1>9, <1>10 DEF MIInv, PartnersAreRight

LEMMA reset_user_idMIInv ==
  ASSUME MIInv, NEW g \in Gets, reset_user_id(g)
  PROVE  MIInv'
  <1> USE MerchantsAssumption DEF MIInv, PartnersAreRight, reset_user_id, At, Now
  <1>1. MTypeOK'
    BY DEF MTypeOK, RequestsTyped
  <1>2. RequestsTyped'
    BY DEF RequestsTyped, Places
  <1>3. PartnersHaveMerchant'
    BY DEF PartnersHaveMerchant, RequestsTyped
  <1>4. BranchesHaveMerchant'
    BY DEF BranchesHaveMerchant, Owns, RequestsTyped
  <1>5. KeysAreOfPartners'
    BY DEF KeysAreOfPartners, RequestsTyped
  <1>6. UndisturbedKeyWorks'
    BY DEF UndisturbedKeyWorks, RequestsTyped, Rows, Undisturbed
  <1>7. AddsAgree'
    BY DEF AddsAgree, RequestsTyped
  <1>8. GetsAgree'
    BY DEF GetsAgree, RequestsTyped, Busy, Places
  <1>9. OverlapIsKnown'
    BY DEF OverlapIsKnown, RequestsTyped, Busy
  <1>10. SecretsAgree'
    <2> SUFFICES ASSUME NEW h \in Gets, Undisturbed(Sender[h])'
                 PROVE  OneSecret(h)'
      BY DEF SecretsAgree
    <2>1. Undisturbed(Sender[h]) /\ OneSecret(h) /\ h \notin overlapped
      BY DEF SecretsAgree, Undisturbed
    <2>2. CASE h = g
      BY <2>1, <2>2 DEF OneSecret, RequestsTyped, Rows
    <2>3. CASE h # g
      <3>1. getting'[h] = getting[h] /\ getting[h].at \notin {"sec", "inserted"}
        BY <2>1, <2>3 DEF OverlapIsKnown, Busy, RequestsTyped
      <3>2. QED
        BY <2>1, <3>1 DEF OneSecret, Rows
    <2>4. QED
      BY <2>2, <2>3
  <1>11. QED
    BY <1>1, <1>2, <1>3, <1>4, <1>5, <1>6, <1>7, <1>8, <1>9, <1>10 DEF MIInv, PartnersAreRight

LEMMA read_idMIInv ==
  ASSUME MIInv, NEW g \in Gets, read_id(g)
  PROVE  MIInv'
  <1> USE MerchantsAssumption DEF MIInv, PartnersAreRight, read_id, At, Now
  <1>1. MTypeOK'
    BY DEF MTypeOK, RequestsTyped
  <1>2. RequestsTyped'
    <2> DEFINE R == [at : Places, id : Nat, sec : Issued, told : Issued]
    <2>1. getting \in [Gets -> R] /\ getting[g] \in R /\ user_id \in Nat
      BY DEF RequestsTyped
    <2>2. [getting[g] EXCEPT !.at = "id", !.id = user_id] \in R
      BY <2>1 DEF Places
    <2>3. getting' \in [Gets -> R]
      BY <2>1, <2>2
    <2>4. QED
      BY <2>3 DEF RequestsTyped
  <1>3. PartnersHaveMerchant'
    BY DEF PartnersHaveMerchant, RequestsTyped
  <1>4. BranchesHaveMerchant'
    BY DEF BranchesHaveMerchant, Owns, RequestsTyped
  <1>5. KeysAreOfPartners'
    BY DEF KeysAreOfPartners, RequestsTyped
  <1>6. UndisturbedKeyWorks'
    BY DEF UndisturbedKeyWorks, RequestsTyped, Rows, Undisturbed
  <1>7. AddsAgree'
    BY DEF AddsAgree, RequestsTyped
  <1>8. GetsAgree'
    <2>1. /\ \A h \in Gets \ {g} : getting'[h] = getting[h]
          /\ getting'[g].at = "id" /\ getting'[g].id = user_id
      BY DEF RequestsTyped
    <2>2. user_id \in 1..user_id
      BY DEF RequestsTyped, MTypeOK
    <2>3. g \in Busy
      BY DEF Busy
    <2>4. QED
      BY <2>1, <2>2, <2>3 DEF GetsAgree, Busy
  <1>9. OverlapIsKnown'
    BY DEF OverlapIsKnown, RequestsTyped, Busy
  <1>10. SecretsAgree'
    BY DEF SecretsAgree, OneSecret, RequestsTyped, Rows, Undisturbed
  <1>11. QED
    BY <1>1, <1>2, <1>3, <1>4, <1>5, <1>6, <1>7, <1>8, <1>9, <1>10 DEF MIInv, PartnersAreRight

LEMMA read_secMIInv ==
  ASSUME MIInv, NEW g \in Gets, read_sec(g)
  PROVE  MIInv'
  <1> USE MerchantsAssumption DEF MIInv, PartnersAreRight, read_sec, At, Now
  <1>1. MTypeOK'
    BY DEF MTypeOK, RequestsTyped
  <1>2. RequestsTyped'
    <2> DEFINE R == [at : Places, id : Nat, sec : Issued, told : Issued]
    <2>1. getting \in [Gets -> R] /\ getting[g] \in R /\ <<user_id, Token[g]>> \in Issued
      BY DEF RequestsTyped, Issued
    <2>2. [getting[g] EXCEPT !.at = "sec", !.sec = <<user_id, Token[g]>>] \in R
      BY <2>1 DEF Places
    <2>3. getting' \in [Gets -> R]
      BY <2>1, <2>2
    <2>4. QED
      BY <2>3 DEF RequestsTyped
  <1>3. PartnersHaveMerchant'
    BY DEF PartnersHaveMerchant, RequestsTyped
  <1>4. BranchesHaveMerchant'
    BY DEF BranchesHaveMerchant, Owns, RequestsTyped
  <1>5. KeysAreOfPartners'
    BY DEF KeysAreOfPartners, RequestsTyped
  <1>6. UndisturbedKeyWorks'
    BY DEF UndisturbedKeyWorks, RequestsTyped, Rows, Undisturbed
  <1>7. AddsAgree'
    BY DEF AddsAgree, RequestsTyped
  <1>8. GetsAgree'
    BY DEF GetsAgree, RequestsTyped, Busy, Places
  <1>9. OverlapIsKnown'
    BY DEF OverlapIsKnown, RequestsTyped, Busy
  <1>10. SecretsAgree'
    BY DEF SecretsAgree, OneSecret, RequestsTyped, Rows, Undisturbed
  <1>11. QED
    BY <1>1, <1>2, <1>3, <1>4, <1>5, <1>6, <1>7, <1>8, <1>9, <1>10 DEF MIInv, PartnersAreRight

LEMMA set_apikeyMIInv ==
  ASSUME MIInv, NEW g \in Gets, set_apikey(g)
  PROVE  MIInv'
  <1> USE MerchantsAssumption DEF MIInv, PartnersAreRight, set_apikey, At, Now
  <1> DEFINE row == [id |-> getting[g].id, key |-> Sender[g], sec |-> getting[g].sec]
  <1>a. /\ getting[g].id \in 1..user_id /\ getting[g].id \in Nat /\ getting[g].sec \in Issued
        /\ Sender[g] \in partners \cap Mailed /\ Sender[g] \in Staff
        /\ g \in Busy
    BY DEF GetsAgree, RequestsTyped, Busy
  <1>b. /\ row \in [id : Nat, key : Staff, sec : Issued]
        /\ row.id = getting[g].id /\ row.key = Sender[g] /\ row.sec = getting[g].sec
    BY <1>a
  <1>c. \/ /\ \A r \in apiacc : r.id # getting[g].id
           /\ apiacc' = apiacc \cup {row} /\ getting'[g].at = "inserted"
        \/ apiacc' = apiacc /\ getting'[g].at = "ended"
    BY DEF RequestsTyped
  <1>d. /\ UNCHANGED <<merchants, partners, branches, adding, user_id, overlapped>>
        /\ \A h \in Gets \ {g} : getting'[h] = getting[h]
        /\ getting'[g].told = getting[g].told
    BY DEF RequestsTyped
  <1> HIDE DEF row
  <1>1. MTypeOK'
    <2>1. \A r, q \in apiacc' : r.id = q.id => r = q
      BY <1>b, <1>c DEF MTypeOK
    <2>2. \A r \in apiacc' : r.key \in Staff /\ r.id \in 1..user_id
      BY <1>a, <1>b, <1>c DEF MTypeOK
    <2>3. QED
      BY <1>d, <2>1, <2>2 DEF MTypeOK
  <1>2. RequestsTyped'
    BY DEF RequestsTyped, Places
  <1>3. PartnersHaveMerchant'
    BY DEF PartnersHaveMerchant, RequestsTyped
  <1>4. BranchesHaveMerchant'
    BY DEF BranchesHaveMerchant, Owns, RequestsTyped
  <1>5. KeysAreOfPartners'
    BY <1>a, <1>b, <1>c, <1>d DEF KeysAreOfPartners
  <1>e. Undisturbed(Sender[g]) =>
          Rows(Sender[g]) = {} /\ getting[g].sec = <<user_id, Token[g]>>
    BY DEF SecretsAgree, OneSecret
  <1>f. \A u : u # Sender[g] => Rows(u)' = Rows(u)
    BY <1>b, <1>c DEF Rows
  <1>g. Rows(Sender[g])' \in {Rows(Sender[g]), Rows(Sender[g]) \cup {row}}
    BY <1>b, <1>c DEF Rows
  <1>h. getting'[g].at = "inserted" => Rows(Sender[g])' = Rows(Sender[g]) \cup {row}
    BY <1>b, <1>c DEF Rows
  <1>i. \A h \in Gets : Undisturbed(Sender[h])' <=> Undisturbed(Sender[h])
    BY <1>d DEF Undisturbed
  <1>j. \A h \in Gets : Sender[h] = Sender[g] /\ Undisturbed(Sender[h]) =>
          /\ getting[h].told = NoSecret
          /\ h # g => getting[h].at \in {"idle", "ended"}
    BY <1>a, <1>e DEF SecretsAgree, OneSecret, OverlapIsKnown, Busy, Undisturbed
  <1>6. UndisturbedKeyWorks'
    BY <1>d, <1>f, <1>i, <1>j DEF UndisturbedKeyWorks
  <1>7. AddsAgree'
    BY DEF AddsAgree, RequestsTyped
  <1>8. GetsAgree'
    BY DEF GetsAgree, RequestsTyped, Busy, Places
  <1>9. OverlapIsKnown'
    BY DEF OverlapIsKnown, RequestsTyped, Busy
  <1>10. SecretsAgree'
    <2> SUFFICES ASSUME NEW h \in Gets, Undisturbed(Sender[h])'
                 PROVE  OneSecret(h)'
      BY DEF SecretsAgree
    <2>1. Undisturbed(Sender[h]) /\ OneSecret(h)
      BY <1>i DEF SecretsAgree
    <2>2. CASE Sender[h] # Sender[g]
      BY <2>1, <2>2, <1>d, <1>f DEF OneSecret
    <2>3. CASE Sender[h] = Sender[g] /\ h # g
      BY <2>1, <2>3, <1>d, <1>e, <1>g, <1>j DEF OneSecret
    <2>4. CASE h = g
      BY <2>1, <2>4, <1>b, <1>c, <1>d, <1>e, <1>g, <1>h, <1>j DEF OneSecret
    <2>5. QED
      BY <2>2, <2>3, <2>4
  <1>11. QED
    BY <1>1, <1>2, <1>3, <1>4, <1>5, <1>6, <1>7, <1>8, <1>9, <1>10 DEF MIInv, PartnersAreRight

LEMMA reply_newMIInv ==
  ASSUME MIInv, NEW g \in Gets, reply_new(g)
  PROVE  MIInv'
  <1> USE MerchantsAssumption DEF MIInv, PartnersAreRight, reply_new, At, Now
  <1>1. MTypeOK'
    BY DEF MTypeOK, RequestsTyped
  <1>2. RequestsTyped'
    <2> DEFINE R == [at : Places, id : Nat, sec : Issued, told : Issued]
    <2>1. getting \in [Gets -> R] /\ getting[g] \in R /\ <<user_id, Token[g]>> \in Issued
      BY DEF RequestsTyped, Issued
    <2>2. [getting[g] EXCEPT !.at = "ended", !.told = <<user_id, Token[g]>>] \in R
      BY <2>1 DEF Places
    <2>3. getting' \in [Gets -> R]
      BY <2>1, <2>2
    <2>4. QED
      BY <2>3 DEF RequestsTyped
  <1>3. PartnersHaveMerchant'
    BY DEF PartnersHaveMerchant, RequestsTyped
  <1>4. BranchesHaveMerchant'
    BY DEF BranchesHaveMerchant, Owns, RequestsTyped
  <1>5. KeysAreOfPartners'
    BY DEF KeysAreOfPartners, RequestsTyped
  <1>6. UndisturbedKeyWorks'
    <2>1. /\ \A h \in Gets \ {g} : getting'[h] = getting[h]
          /\ getting'[g].told = <<user_id, Token[g]>>
      BY DEF RequestsTyped
    <2>2. Undisturbed(Sender[g]) => \A r \in Rows(Sender[g]) : r.sec = <<user_id, Token[g]>>
      BY DEF SecretsAgree, OneSecret
    <2>3. QED
      BY <2>1, <2>2 DEF UndisturbedKeyWorks, Rows, Undisturbed
  <1>7. AddsAgree'
    BY DEF AddsAgree, RequestsTyped
  <1>8. GetsAgree'
    BY DEF GetsAgree, RequestsTyped, Busy, Places
  <1>9. OverlapIsKnown'
    BY DEF OverlapIsKnown, RequestsTyped, Busy
  <1>10. SecretsAgree'
    BY DEF SecretsAgree, OneSecret, RequestsTyped, Rows, Undisturbed
  <1>11. QED
    BY <1>1, <1>2, <1>3, <1>4, <1>5, <1>6, <1>7, <1>8, <1>9, <1>10 DEF MIInv, PartnersAreRight

LEMMA reply_storedMIInv ==
  ASSUME MIInv, NEW g \in Gets, reply_stored(g)
  PROVE  MIInv'
  <1> USE MerchantsAssumption DEF MIInv, PartnersAreRight, reply_stored, At, Now
  <1>a. PICK q \in Rows(Sender[g]) : getting' = [getting EXCEPT ![g] = [getting[g] EXCEPT !.at = "ended", !.told = q.sec]]
    OBVIOUS
  <1> DEFINE row == [getting[g] EXCEPT !.at = "ended", !.told = q.sec]
  <1>b. /\ getting[g] \in [at : Places, id : Nat, sec : Issued, told : Issued]
        /\ q.sec \in Issued
    BY DEF RequestsTyped, Rows
  <1>c. row \in [at : Places, id : Nat, sec : Issued, told : Issued] /\ row.told = q.sec
    BY <1>b DEF Places
  <1>d. getting' = [getting EXCEPT ![g] = row]
    BY <1>a
  <1>e. UNCHANGED <<merchants, partners, branches, adding, apiacc, user_id, overlapped>>
    OBVIOUS
  <1>1. MTypeOK'
    BY DEF MTypeOK, RequestsTyped
  <1>2. RequestsTyped'
    <2> HIDE DEF row
    <2>1. getting' \in [Gets -> [at : Places, id : Nat, sec : Issued, told : Issued]]
      BY <1>c, <1>d DEF RequestsTyped
    <2>2. QED
      BY <1>e, <2>1 DEF RequestsTyped
  <1>3. PartnersHaveMerchant'
    BY DEF PartnersHaveMerchant, RequestsTyped
  <1>4. BranchesHaveMerchant'
    BY DEF BranchesHaveMerchant, Owns, RequestsTyped
  <1>5. KeysAreOfPartners'
    BY DEF KeysAreOfPartners, RequestsTyped
  <1>6. UndisturbedKeyWorks'
    <2> HIDE DEF row
    <2>1. /\ \A h \in Gets \ {g} : getting'[h] = getting[h]
          /\ getting'[g].told = q.sec
      BY <1>c, <1>d DEF RequestsTyped
    <2>2. Undisturbed(Sender[g]) => \A r \in Rows(Sender[g]) : r.sec = q.sec
      BY DEF SecretsAgree, OneSecret
    <2>3. QED
      BY <1>e, <2>1, <2>2 DEF UndisturbedKeyWorks, Rows, Undisturbed
  <1>7. AddsAgree'
    BY DEF AddsAgree, RequestsTyped
  <1>8. GetsAgree'
    BY DEF GetsAgree, RequestsTyped, Busy, Places
  <1>9. OverlapIsKnown'
    BY DEF OverlapIsKnown, RequestsTyped, Busy
  <1>10. SecretsAgree'
    BY DEF SecretsAgree, OneSecret, RequestsTyped, Rows, Undisturbed
  <1>11. QED
    BY <1>1, <1>2, <1>3, <1>4, <1>5, <1>6, <1>7, <1>8, <1>9, <1>10 DEF MIInv, PartnersAreRight

LEMMA restart_merchantsMIInv ==
  ASSUME MIInv, restart_merchants
  PROVE  MIInv'
  <1> USE MerchantsAssumption DEF MIInv, PartnersAreRight, restart_merchants
  <1>1. MTypeOK'
    BY DEF MTypeOK, RequestsTyped
  <1>2. RequestsTyped'
    BY DEF RequestsTyped, Places
  <1>3. PartnersHaveMerchant'
    BY DEF PartnersHaveMerchant, RequestsTyped
  <1>4. BranchesHaveMerchant'
    BY DEF BranchesHaveMerchant, Owns, RequestsTyped
  <1>5. KeysAreOfPartners'
    BY DEF KeysAreOfPartners, RequestsTyped
  <1>6. UndisturbedKeyWorks'
    BY DEF UndisturbedKeyWorks, RequestsTyped, Rows, Undisturbed
  <1>7. AddsAgree'
    BY DEF AddsAgree, RequestsTyped
  <1>8. GetsAgree'
    BY DEF GetsAgree, RequestsTyped, Busy, Places
  <1>9. OverlapIsKnown'
    BY DEF OverlapIsKnown, RequestsTyped, Busy
  <1>10. SecretsAgree'
    <2>1. \A h \in Gets : /\ getting'[h].at \in {"idle", "ended"}
                          /\ getting'[h].told = getting[h].told
      BY DEF RequestsTyped, Busy
    <2>2. QED
      BY <2>1 DEF SecretsAgree, OneSecret, Rows, Undisturbed
  <1>11. QED
    BY <1>1, <1>2, <1>3, <1>4, <1>5, <1>6, <1>7, <1>8, <1>9, <1>10 DEF MIInv, PartnersAreRight

-----------------------------------------------------------------------------
(* The theorems *)

LEMMA NextMIInv ==
  ASSUME MIInv, [MNext]_mvars
  PROVE  MIInv'
  <1>1. CASE UNCHANGED mvars
    <2> USE <1>1 DEF mvars, MIInv, PartnersAreRight
    <2>1. MTypeOK' /\ RequestsTyped' /\ PartnersHaveMerchant' /\ BranchesHaveMerchant' /\ KeysAreOfPartners'
      BY DEF MTypeOK, RequestsTyped, PartnersHaveMerchant, BranchesHaveMerchant, Owns, KeysAreOfPartners
    <2>2. AddsAgree' /\ GetsAgree' /\ OverlapIsKnown'
      BY DEF AddsAgree, GetsAgree, OverlapIsKnown, Busy
    <2>3. UndisturbedKeyWorks' /\ SecretsAgree'
      BY DEF UndisturbedKeyWorks, SecretsAgree, OneSecret, Undisturbed, Rows
    <2>4. QED
      BY <2>1, <2>2, <2>3
  <1>2. CASE MNext
    <2>1. ASSUME NEW a \in Adds, add_merchants(a) \/ join_partners(a) \/ add_merchant_fails(a)
          PROVE  MIInv'
      BY <2>1, add_merchantsMIInv, join_partnersMIInv, add_merchant_failsMIInv
    <2>2. ASSUME NEW m \in DOMAIN merchants, NEW name \in Titles, update_merchants(m, name)
          PROVE  MIInv'
      BY <2>2, update_merchantsMIInv
    <2>3. ASSUME NEW u \in Staff, NEW name \in BranchNames, NEW m \in Adds, add_branches(u, m, name)
          PROVE  MIInv'
      BY <2>3, add_branchesMIInv
    <2>4. ASSUME NEW u \in Staff, NEW name \in BranchNames, NEW v \in Staff, granted_user(u, name, v)
          PROVE  MIInv'
      BY <2>4, granted_userMIInv
    <2>5. ASSUME NEW g \in Gets, \/ is_partner(g) \/ if_apikey_exist(g) \/ reset_user_id(g) \/ read_id(g)
                                 \/ read_sec(g) \/ set_apikey(g) \/ reply_new(g) \/ reply_stored(g)
          PROVE  MIInv'
      BY <2>5, is_partnerMIInv, if_apikey_existMIInv, reset_user_idMIInv, read_idMIInv,
         read_secMIInv, set_apikeyMIInv, reply_newMIInv, reply_storedMIInv
    <2>6. QED
      BY <1>2, <2>1, <2>2, <2>3, <2>4, <2>5, restart_merchantsMIInv DEF MNext
  <1>3. QED
    BY <1>1, <1>2

(* The inductive invariant holds in every reachable state, for every       *)
(* number of merchants, branches, requests for keys and restarts.          *)
THEOREM MerchantsInvariant == MSpec => []MIInv
  <1>1. MIInv /\ [MNext]_mvars => MIInv'
    BY NextMIInv
  <1>2. QED
    BY InitMIInv, <1>1, PTL DEF MSpec

(* Names and key ids stay unique, partners and owners of branches have a   *)
(* merchant, keys are of partners, and a partner whose requests never      *)
(* overlapped is told the secret of every row of the own key, however the  *)
(* atom is shared (merchant.clj:28-29, 86-96, branches.clj:14).            *)
THEOREM PartnersStayRight == MSpec => []PartnersAreRight
  <1>1. MIInv => PartnersAreRight
    BY DEF MIInv
  <1>2. QED
    BY MerchantsInvariant, <1>1, PTL

-----------------------------------------------------------------------------
(* Wallets: numbers, books and keys                                        *)

(* A set of numbers has a least one.                                       *)
LEMMA LeastNumber ==
  ASSUME NEW S, S \subseteq Nat, S # {}
  PROVE  \E n \in S : \A m \in S : n <= m
  <1>1. PICK n \in S : \A m \in S : ~ (<<m, n>> \in OpToRel(<, Nat))
    BY NatLessThanWellFounded, WFMin
  <1>2. \A m \in S : ~ (m < n)
    BY <1>1 DEF OpToRel
  <1>3. QED
    BY <1>2

LEMMA LeastIsMin ==
  ASSUME NEW S, S \subseteq Nat, S # {}
  PROVE  Min(S) \in S /\ \A m \in S : Min(S) <= m
  BY LeastNumber DEF Min

-----------------------------------------------------------------------------
(* Books of addresses                                                      *)

LEMMA BookAdded ==
  ASSUME NEW book, book \in Seq(ToSet(book)), NEW a
  PROVE  /\ Append(book, a) \in Seq(ToSet(book) \cup {a})
         /\ Append(book, a) \in Seq(ToSet(Append(book, a)))
         /\ ToSet(Append(book, a)) = ToSet(book) \cup {a}
         /\ DOMAIN book = 1..Len(book) /\ Len(book) \in Nat
         /\ DOMAIN Append(book, a) = 1..(Len(book) + 1)
         /\ \A i \in DOMAIN book : Append(book, a)[i] = book[i]
         /\ Append(book, a)[Len(book) + 1] = a
  <1>1. book \in Seq(ToSet(book) \cup {a})
    BY SeqMonotonic
  <1>2. /\ Append(book, a) \in Seq(ToSet(book) \cup {a})
        /\ DOMAIN book = 1..Len(book) /\ Len(book) \in Nat
        /\ DOMAIN Append(book, a) = 1..(Len(book) + 1)
        /\ \A i \in DOMAIN book : Append(book, a)[i] = book[i]
        /\ Append(book, a)[Len(book) + 1] = a
    BY <1>1
  <1>3. ToSet(Append(book, a)) = ToSet(book) \cup {a}
    <2>1. ASSUME NEW x \in ToSet(book) \cup {a} PROVE x \in ToSet(Append(book, a))
      <3>1. CASE x = a
        BY <1>2, <3>1 DEF ToSet
      <3>2. CASE x \in ToSet(book)
        <4>1. PICK i \in DOMAIN book : x = book[i]
          BY <3>2 DEF ToSet
        <4>2. i \in DOMAIN Append(book, a) /\ Append(book, a)[i] = x
          BY <1>2, <4>1
        <4>3. QED
          BY <4>2 DEF ToSet
      <3>3. QED
        BY <3>1, <3>2
    <2>2. ASSUME NEW x \in ToSet(Append(book, a)) PROVE x \in ToSet(book) \cup {a}
      <3>1. PICK i \in DOMAIN Append(book, a) : x = Append(book, a)[i]
        BY DEF ToSet
      <3>2. CASE i = Len(book) + 1
        BY <1>2, <3>1, <3>2
      <3>3. CASE i \in DOMAIN book
        BY <1>2, <3>1, <3>3 DEF ToSet
      <3>4. QED
        BY <1>2, <3>1, <3>2, <3>3
    <2>3. QED
      BY <2>1, <2>2
  <1>4. QED
    BY <1>2, <1>3

(* What a name or an address finds: the first entry that has it.           *)
LEMMA Found ==
  ASSUME NEW book, book \in Seq(ToSet(book)), NEW x
  PROVE  /\ get(book, x) = <<>> <=> \A a \in ToSet(book) : x \notin {a.label, a.addr}
         /\ get(book, x) # <<>> =>
              \E i \in DOMAIN book :
                 /\ get(book, x) = <<book[i]>> /\ x \in {book[i].label, book[i].addr}
                 /\ \A j \in DOMAIN book : j < i => x \notin {book[j].label, book[j].addr}
  <1> DEFINE found == {i \in DOMAIN book : x \in {book[i].label, book[i].addr}}
  <1>1. DOMAIN book = 1..Len(book) /\ Len(book) \in Nat /\ found \subseteq Nat
    BY BookAdded
  <1>2. found = {} <=> \A a \in ToSet(book) : x \notin {a.label, a.addr}
    BY DEF ToSet
  <1>3. get(book, x) = IF found = {} THEN <<>> ELSE <<book[Min(found)]>>
    BY DEF get
  <1>4. ASSUME found # {}
        PROVE  \E i \in DOMAIN book :
                 /\ get(book, x) = <<book[i]>> /\ x \in {book[i].label, book[i].addr}
                 /\ \A j \in DOMAIN book : j < i => x \notin {book[j].label, book[j].addr}
    <2>1. PICK i \in found : i = Min(found) /\ \A m \in found : i <= m
      BY <1>1, <1>4, LeastIsMin
    <2>2. ASSUME NEW j \in DOMAIN book, j < i PROVE x \notin {book[j].label, book[j].addr}
      <3>1. j \in Nat /\ i \in Nat
        BY <1>1
      <3>2. j \in found => i <= j
        BY <2>1
      <3>3. j \notin found
        BY <2>2, <3>1, <3>2
      <3>4. QED
        BY <3>3
    <2>3. get(book, x) = <<book[i]>>
      BY <1>3, <1>4, <2>1
    <2>4. i \in DOMAIN book /\ x \in {book[i].label, book[i].addr}
      OBVIOUS
    <2>5. QED
      BY <2>2, <2>3, <2>4
  <1>5. get(book, x) = <<>> <=> found = {}
    BY <1>3
  <1> HIDE DEF found
  <1>6. QED
    BY <1>2, <1>4, <1>5

LEMMA FoundIsOne ==
  ASSUME NEW book, book \in Seq(ToSet(book)), NEW x, NEW i \in DOMAIN book,
         x \in {book[i].label, book[i].addr},
         \A j \in DOMAIN book : j < i => x \notin {book[j].label, book[j].addr}
  PROVE  get(book, x) = <<book[i]>>
  <1>1. PICK k \in DOMAIN book :
           /\ get(book, x) = <<book[k]>> /\ x \in {book[k].label, book[k].addr}
           /\ \A j \in DOMAIN book : j < k => x \notin {book[j].label, book[j].addr}
    BY Found DEF ToSet
  <1>2. DOMAIN book = 1..Len(book) /\ Len(book) \in Nat
    BY BookAdded
  <1>3. k = i
    BY <1>1, <1>2
  <1>4. QED
    BY <1>1, <1>3

(* An address is added at the end, and every name goes on to mean what it  *)
(* meant.                                                                  *)
LEMMA AddKeeps ==
  ASSUME NEW book, GoodBook(book), NEW a, Sound(a)
  PROVE  /\ GoodBook(add(book, a))
         /\ \A e \in ToSet(add(book, a)) : e \in ToSet(book) \/ e = a
         /\ get(add(book, a), a.addr) # <<>>
         /\ \A x : get(book, x) # <<>> => get(add(book, a), x) = get(book, x)
  <1>1. CASE get(book, a.addr) # <<>>
    BY <1>1 DEF add
  <1>2. CASE get(book, a.addr) = <<>>
    <2> DEFINE b == Append(book, a)
    <2>1. add(book, a) = b
      BY <1>2 DEF add
    <2>2. book \in Seq(ToSet(book))
      BY DEF GoodBook
    <2>3. /\ b \in Seq(ToSet(b)) /\ ToSet(b) = ToSet(book) \cup {a}
          /\ DOMAIN book = 1..Len(book) /\ Len(book) \in Nat
          /\ DOMAIN b = 1..(Len(book) + 1)
          /\ \A i \in DOMAIN book : b[i] = book[i]
          /\ b[Len(book) + 1] = a
      BY <2>2, BookAdded, ZenonT(60)
    <2> HIDE DEF b
    <2>4. \A i \in DOMAIN book : a.addr \notin {book[i].label, book[i].addr}
      BY <1>2, <2>2, Found DEF ToSet
    <2>5. \A i, j \in DOMAIN b : b[i].addr = b[j].addr => i = j
      <3>1. SUFFICES ASSUME NEW i \in DOMAIN b, NEW j \in DOMAIN b, b[i].addr = b[j].addr PROVE i = j
        OBVIOUS
      <3>2. \A k \in DOMAIN b : k = Len(book) + 1 \/ k \in DOMAIN book
        BY <2>3
      <3>3. CASE i \in DOMAIN book /\ j \in DOMAIN book
        BY <2>3, <3>1, <3>3 DEF GoodBook
      <3>4. CASE i = Len(book) + 1 /\ j \in DOMAIN book
        BY <2>3, <2>4, <3>1, <3>4
      <3>5. CASE j = Len(book) + 1 /\ i \in DOMAIN book
        BY <2>3, <2>4, <3>1, <3>5
      <3>6. QED
        BY <3>2, <3>3, <3>4, <3>5
    <2>6. GoodBook(b)
      BY <2>3, <2>5 DEF GoodBook
    <2>7. ASSUME NEW x, get(book, x) # <<>> PROVE get(b, x) = get(book, x)
      <3>1. PICK i \in DOMAIN book :
              /\ get(book, x) = <<book[i]>> /\ x \in {book[i].label, book[i].addr}
              /\ \A j \in DOMAIN book : j < i => x \notin {book[j].label, book[j].addr}
        BY <2>2, <2>7, Found
      <3>2. \A j \in DOMAIN b : j < i => j \in DOMAIN book
        BY <2>3
      <3>3. i \in DOMAIN b /\ b[i] = book[i]
        BY <2>3
      <3>4. \A j \in DOMAIN b : j < i => x \notin {b[j].label, b[j].addr}
        BY <2>3, <3>1, <3>2
      <3>5. get(b, x) = <<b[i]>>
        BY <2>3, <3>1, <3>3, <3>4, FoundIsOne
      <3>6. QED
        BY <3>1, <3>3, <3>5
    <2>8. get(b, a.addr) # <<>>
      <3>1. a \in ToSet(b) /\ a.addr \in {a.label, a.addr}
        BY <2>3
      <3>2. QED
        BY <2>3, <3>1, Found
    <2>9. QED
      BY <2>1, <2>3, <2>6, <2>7, <2>8
  <1>3. QED
    BY <1>1, <1>2
-----------------------------------------------------------------------------
(* Keys and keystores                                                      *)

(* Two sequences joined, and a slice of one.                               *)
LEMMA JoinedIs ==
  ASSUME NEW S, NEW s \in Seq(S), NEW t \in Seq(S), NEW w, w = s \o t
  PROVE  /\ w \in Seq(S) /\ Len(w) = Len(s) + Len(t) /\ Len(s) \in Nat /\ Len(t) \in Nat
         /\ \A i \in 1..Len(s) : w[i] = s[i]
         /\ \A i \in 1..Len(t) : w[Len(s) + i] = t[i]
  <1>1. ASSUME NEW i \in 1..Len(s) PROVE w[i] = s[i]
    OBVIOUS
  <1>2. ASSUME NEW i \in 1..Len(t) PROVE w[Len(s) + i] = t[i]
    OBVIOUS
  <1>3. w \in Seq(S) /\ Len(w) = Len(s) + Len(t) /\ Len(s) \in Nat /\ Len(t) \in Nat
    OBVIOUS
  <1>4. QED
    BY <1>1, <1>2, <1>3

LEMMA SliceIs ==
  ASSUME NEW S, NEW w \in Seq(S), NEW m \in Nat, NEW n \in Nat, 1 <= m, n <= Len(w), m <= n + 1,
         NEW s \in Seq(S), Len(s) = n - m + 1, \A i \in 1..Len(s) : w[m + i - 1] = s[i]
  PROVE  SubSeq(w, m, n) = s
  <1>1. PICK u : u = SubSeq(w, m, n)
    OBVIOUS
  <1>2. \A i \in m..n : w[i] \in S
    OBVIOUS
  <1>3. /\ u \in Seq(S)
        /\ Len(u) = (IF m <= n THEN n - m + 1 ELSE 0)
        /\ \A i \in 1..(n - m + 1) : u[i] = w[m + i - 1]
    BY <1>1, <1>2, SubSeqProperties
  <1>4. Len(u) = Len(s) /\ \A i \in 1..Len(u) : u[i] = s[i]
    BY <1>3
  <1>5. QED
    BY <1>1, <1>3, <1>4, SeqEqual

(* A box: header, secret, divider and public key.                          *)
LEMMA Boxed ==
  ASSUME NEW S, NEW h \in S, NEW d \in S, NEW secret \in Seq(S), NEW pub \in Seq(S),
         NEW hs, hs = <<h>>, NEW ds, ds = <<d>>, NEW one, one = hs \o secret, NEW two, two = one \o ds, NEW msg, msg = two \o pub
  PROVE  /\ Len(secret) \in Nat /\ Len(pub) \in Nat /\ Len(msg) = Len(secret) + Len(pub) + 2 /\ msg \in Seq(S)
         /\ msg[1] = h /\ msg[Len(secret) + 2] = d
         /\ \A i \in 1..Len(pub) : msg[Len(secret) + 2 + i] = pub[i]
         /\ SubSeq(msg, 2, Len(secret) + 1) = secret
  <1>2. hs \in Seq(S) /\ ds \in Seq(S) /\ Len(hs) = 1 /\ Len(ds) = 1 /\ hs[1] = h /\ ds[1] = d
    OBVIOUS
  <1>3. /\ one \in Seq(S) /\ Len(one) = Len(hs) + Len(secret) /\ Len(secret) \in Nat
        /\ \A i \in 1..Len(hs) : one[i] = hs[i]
        /\ \A i \in 1..Len(secret) : one[Len(hs) + i] = secret[i]
    BY <1>2, JoinedIs
  <1>4. /\ two \in Seq(S) /\ Len(two) = Len(one) + Len(ds)
        /\ \A i \in 1..Len(one) : two[i] = one[i]
        /\ \A i \in 1..Len(ds) : two[Len(one) + i] = ds[i]
    <2>1. ds \in Seq(S) /\ one \in Seq(S)
      BY <1>2, <1>3
    <2>2. QED
      BY <2>1, JoinedIs
  <1>6. /\ msg \in Seq(S) /\ Len(msg) = Len(two) + Len(pub) /\ Len(pub) \in Nat
        /\ \A i \in 1..Len(two) : msg[i] = two[i]
        /\ \A i \in 1..Len(pub) : msg[Len(two) + i] = pub[i]
    <2>1. two \in Seq(S)
      BY <1>4
    <2>2. QED
      BY <2>1, JoinedIs
  <1>7. msg[1] = h /\ msg[Len(secret) + 2] = d
    BY <1>2, <1>3, <1>4, <1>6
  <1>8. \A i \in 1..Len(pub) : msg[Len(secret) + 2 + i] = pub[i]
    BY <1>2, <1>3, <1>4, <1>6
  <1>9. \A i \in 1..Len(secret) : msg[2 + i - 1] = secret[i]
    <2> SUFFICES ASSUME NEW i \in 1..Len(secret) PROVE msg[2 + i - 1] = secret[i]
      OBVIOUS
    <2>1. one[1 + i] = secret[i] /\ 1 + i \in 1..Len(one) /\ 2 + i - 1 = 1 + i
      BY <1>2, <1>3
    <2>2. two[1 + i] = one[1 + i] /\ 1 + i \in 1..Len(two)
      BY <1>2, <1>3, <1>4, <2>1
    <2>3. QED
      BY <1>6, <2>1, <2>2
  <1>10. Len(secret) + 1 <= Len(msg) /\ Len(secret) = (Len(secret) + 1) - 2 + 1 /\ Len(secret) + 1 \in Nat
         /\ 1 <= 2 /\ 2 <= (Len(secret) + 1) + 1
    BY <1>2, <1>3, <1>4, <1>6
  <1>11. SubSeq(msg, 2, Len(secret) + 1) = secret
    BY <1>6, <1>9, <1>10, SliceIs
  <1>12. QED
    BY <1>2, <1>3, <1>4, <1>6, <1>7, <1>8, <1>11

LEMMA Joined4 ==
  ASSUME NEW a, NEW b, NEW c, NEW d
  PROVE  /\ <<a, b>> \o <<c, d>> = <<a, b, c, d>>
         /\ SubSeq(<<a, b, c, d>>, 1, 2) = <<a, b>>
         /\ SubSeq(<<a, b>>, 1, 2) = <<a, b>>
  <1>1. PICK S, s, t, u : S = {a, b, c, d} /\ s = <<a, b>> /\ t = <<c, d>> /\ u = <<a, b, c, d>>
    OBVIOUS
  <1>2. s \in Seq(S) /\ t \in Seq(S) /\ u \in Seq(S) /\ Len(s) = 2 /\ Len(t) = 2 /\ Len(u) = 4
    BY <1>1
  <1>3. /\ s[1] = a /\ s[2] = b /\ t[1] = c /\ t[2] = d
        /\ u[1] = a /\ u[2] = b /\ u[3] = c /\ u[4] = d
    BY <1>1
  <1>4. PICK w : w = s \o t
    OBVIOUS
  <1>5. /\ w \in Seq(S) /\ Len(w) = Len(s) + Len(t)
        /\ \A i \in 1..Len(s) : w[i] = s[i]
        /\ \A i \in 1..Len(t) : w[Len(s) + i] = t[i]
    <2>1. s \in Seq(S) /\ t \in Seq(S)
      BY <1>2
    <2>2. QED
      BY <1>4, <2>1, JoinedIs
  <1>6. w[1] = a /\ w[2] = b /\ w[3] = c /\ w[4] = d /\ Len(w) = 4
    BY <1>2, <1>3, <1>5
  <1>7. \A i \in 1..4 : w[i] = u[i]
    BY <1>3, <1>6
  <1>8. w = u
    BY <1>2, <1>5, <1>6, <1>7, SeqEqual
  <1>9. SubSeq(u, 1, 2) = s
    <2>1. \A i \in 1..2 : u[1 + i - 1] = s[i]
      BY <1>3
    <2>2. QED
      BY <1>2, <2>1, SliceIs
  <1>10. SubSeq(s, 1, 2) = s
    <2>1. \A i \in 1..2 : s[1 + i - 1] = s[i]
      OBVIOUS
    <2>2. QED
      BY <1>2, <2>1, SliceIs
  <1>11. QED
    BY <1>1, <1>4, <1>8, <1>9, <1>10

(* The cells of a seed, of a secret and of a public key.                   *)
LEMMA CellsAre ==
  ASSUME NEW kind, NEW k
  PROVE  /\ Cells(kind, k, 2) = << <<kind, k, 1>>, <<kind, k, 2>> >>
         /\ Cells(kind, k, 3) = << <<kind, k, 1>>, <<kind, k, 2>>, <<kind, k, 3>> >>
         /\ Cells(kind, k, 4) = << <<kind, k, 1>>, <<kind, k, 2>>, <<kind, k, 3>>, <<kind, k, 4>> >>
  <1>1. Cells(kind, k, 2) = << <<kind, k, 1>>, <<kind, k, 2>> >>
    BY DEF Cells
  <1>2. Cells(kind, k, 3) = << <<kind, k, 1>>, <<kind, k, 2>>, <<kind, k, 3>> >>
    BY DEF Cells
  <1>3. Cells(kind, k, 4) = << <<kind, k, 1>>, <<kind, k, 2>>, <<kind, k, 3>>, <<kind, k, 4>> >>
    BY DEF Cells
  <1>4. QED
    BY <1>1, <1>2, <1>3

LEMMA SeedIs ==
  ASSUME NEW k, Made(k)
  PROVE  /\ seed(k) = << <<"seed", k, 1>>, <<"seed", k, 2>> >>
         /\ from_seed(seed(k)) = k
         /\ SubSeq(seed(k), 1, 2) = seed(k)
  <1>1. k[1] # "bytes"
    BY DEF Made
  <1>2. seed(k) = << <<"seed", k, 1>>, <<"seed", k, 2>> >>
    BY <1>1, CellsAre DEF seed, SEED_LENGTH
  <1>3. from_seed(seed(k)) = k
    BY <1>2 DEF from_seed
  <1>4. QED
    BY <1>2, <1>3, Joined4

LEMMA PublicIs ==
  ASSUME NEW k, NEW kind \in Kinds
  PROVE  \E pub : /\ pub = public([kind |-> kind, key |-> k])
                  /\ pub = Cells("public", <<kind, k>>, 2) \/ (kind = "ecdsa" /\ pub = Cells("public", <<kind, k>>, 3))
                  /\ pub \in Seq({pub[i] : i \in DOMAIN pub}) /\ Len(pub) >= 2 /\ pub[2] = <<"public", <<kind, k>>, 2>>
  <1>1. PICK x, y, z : x = <<"public", <<kind, k>>, 1>> /\ y = <<"public", <<kind, k>>, 2>> /\ z = <<"public", <<kind, k>>, 3>>
    OBVIOUS
  <1>2. Cells("public", <<kind, k>>, 2) = <<x, y>> /\ Cells("public", <<kind, k>>, 3) = <<x, y, z>>
    BY <1>1, CellsAre
  <1>3. PICK pub : pub = public([kind |-> kind, key |-> k])
    OBVIOUS
  <1>4. (kind = "ecdsa" /\ pub = <<x, y, z>>) \/ (kind # "ecdsa" /\ pub = <<x, y>>)
    BY <1>2, <1>3 DEF public, SEED_LENGTH
  <1>5. pub \in Seq({pub[i] : i \in DOMAIN pub}) /\ Len(pub) >= 2 /\ pub[2] = y
    BY <1>4
  <1>6. QED
    BY <1>1, <1>2, <1>3, <1>4, <1>5

(* A secret in one of its forms is short or long, and leads to its pair.   *)
LEMMA PairOfForm ==
  ASSUME NEW k, Made(k), NEW kind \in Kinds, NEW secret \in Forms(kind, k)
  PROVE  /\ pair_from_secret_slice(kind, secret) = <<[kind |-> kind, key |-> k]>>
         /\ secret \in Seq({secret[i] : i \in DOMAIN secret}) /\ Len(secret) \in {2, 4}
  <1>1. PICK a, b : a = <<"seed", k, 1>> /\ b = <<"seed", k, 2>>
    OBVIOUS
  <1>2. seed(k) = <<a, b>> /\ from_seed(<<a, b>>) = k /\ SubSeq(<<a, b>>, 1, 2) = <<a, b>>
    BY <1>1, SeedIs
  <1>3. CASE secret = seed(k)
    <2>1. secret = <<a, b>>
      BY <1>2, <1>3
    <2>2. Len(secret) = 2 /\ secret \in Seq({secret[i] : i \in DOMAIN secret})
      BY <2>1
    <2>3. from_seed(secret) = k /\ from_seed(SubSeq(secret, 1, 2)) = k
      BY <1>2, <2>1
    <2>4. CASE kind = "ed25519"
      <3>1. Ed25519pair_from_secret_slice(secret) = <<[kind |-> kind, key |-> k]>>
        BY <2>2, <2>3, <2>4 DEF Ed25519pair_from_secret_slice, SEED_LENGTH
      <3>2. QED
        BY <2>2, <2>4, <3>1 DEF pair_from_secret_slice
    <2>5. CASE kind = "ecdsa"
      <3>1. Ecdsapair_from_secret_slice(secret) = <<[kind |-> kind, key |-> k]>>
        BY <2>2, <2>3, <2>5 DEF Ecdsapair_from_secret_slice, SEED_LENGTH
      <3>2. QED
        BY <2>2, <2>5, <3>1 DEF pair_from_secret_slice
    <2>6. CASE kind = "sr25519"
      <3>1. Sr25519pair_from_secret_slice(secret) = <<[kind |-> kind, key |-> k]>>
        BY <2>2, <2>3, <2>6 DEF Sr25519pair_from_secret_slice, SEED_LENGTH, SEC_LENGTH
      <3>2. QED
        BY <2>2, <2>6, <3>1 DEF pair_from_secret_slice
    <2>7. QED
      BY <2>4, <2>5, <2>6 DEF Kinds
  <1>4. CASE kind = "sr25519" /\ secret \in {Cells("secret", k, SEC_LENGTH), ToEd25519Bytes(k)}
    <2>1. PICK form \in {"secret", "expanded"} : secret = Cells(form, k, 4)
      BY <1>4 DEF ToEd25519Bytes, SEC_LENGTH
    <2>2. PICK w, x, y, z : secret = <<w, x, y, z>> /\ w = <<form, k, 1>>
      BY <2>1, CellsAre
    <2>3. Len(secret) = 4 /\ secret \in Seq({secret[i] : i \in DOMAIN secret}) /\ secret[1] = w
      BY <2>2
    <2>4. secret[1][1] = form /\ secret[1][2] = k
      BY <2>2, <2>3
    <2>5. QED
      BY <1>4, <2>3, <2>4 DEF pair_from_secret_slice, Sr25519pair_from_secret_slice, SEED_LENGTH, SEC_LENGTH
  <1>5. CASE kind = "ed25519" /\ secret = seed(k) \o public([kind |-> kind, key |-> k])
    <2>1. PICK x, y : public([kind |-> kind, key |-> k]) = <<x, y>>
      <3>1. public([kind |-> kind, key |-> k]) = Cells("public", <<kind, k>>, 2)
        BY <1>5 DEF public, SEED_LENGTH
      <3>2. QED
        BY <3>1, CellsAre
    <2>2. secret = <<a, b, x, y>>
      BY <1>2, <1>5, <2>1, Joined4, ZenonT(60)
    <2>3. Len(secret) = 4 /\ secret \in Seq({secret[i] : i \in DOMAIN secret})
      BY <2>2
    <2>4. from_seed(SubSeq(secret, 1, 2)) = k
      BY <1>2, <2>2, Joined4
    <2>5. QED
      BY <1>5, <2>3, <2>4 DEF pair_from_secret_slice, Ed25519pair_from_secret_slice, SEED_LENGTH, SEC_LENGTH
  <1>6. QED
    BY <1>3, <1>4, <1>5 DEF Forms, Kinds

(* What is closed under a password is found under it, the long secret      *)
(* before the short one.                                                   *)
LEMMA DecodedIs ==
  ASSUME NEW S, PKCS8_HEADER \in S, PKCS8_DIVIDER \in S, NEW secret \in Seq(S), NEW pub \in Seq(S), NEW pass,
         Len(secret) \in {2, 4}, Len(pub) >= 2, pub[2] # PKCS8_DIVIDER
  PROVE  decode(encode(secret, pub, pass), pass) = <<secret>>
  <1>1. PICK hs, ds, one, two, msg : /\ hs = <<PKCS8_HEADER>> /\ ds = <<PKCS8_DIVIDER>> /\ one = hs \o secret
                                     /\ two = one \o ds /\ msg = two \o pub
    OBVIOUS
  <1>2. encode(secret, pub, pass).msg = msg /\ encode(secret, pub, pass).box = (IF Given(pass) THEN pass ELSE <<>>)
    BY <1>1 DEF encode
  <1>3. /\ Len(secret) \in Nat /\ Len(pub) \in Nat /\ Len(msg) = Len(secret) + Len(pub) + 2
        /\ msg[1] = PKCS8_HEADER /\ msg[Len(secret) + 2] = PKCS8_DIVIDER
        /\ \A i \in 1..Len(pub) : msg[Len(secret) + 2 + i] = pub[i]
        /\ SubSeq(msg, 2, Len(secret) + 1) = secret
    BY <1>1, Boxed, SMTT(30)
  <1>4. CASE Len(secret) = 4
    <2>1. DividedAt(msg, 4) = <<secret>>
      <3>1. Len(msg) > 4 + 1 /\ msg[4 + 2] = PKCS8_DIVIDER /\ SubSeq(msg, 2, 4 + 1) = secret
        BY <1>3, <1>4
      <3>2. QED
        BY <3>1 DEF DividedAt
    <2>2. <<secret>> # <<>>
      OBVIOUS
    <2>3. QED
      BY <1>2, <1>3, <2>1, <2>2 DEF decode, SEC_LENGTH
  <1>5. CASE Len(secret) = 2
    <2>1. msg[6] = pub[2]
      BY <1>3, <1>5
    <2>2. DividedAt(msg, 4) = <<>>
      BY <2>1 DEF DividedAt
    <2>3. DividedAt(msg, 2) = <<secret>>
      BY <1>3, <1>5 DEF DividedAt
    <2>4. QED
      BY <1>2, <1>3, <2>2, <2>3 DEF decode, SEC_LENGTH, SEED_LENGTH
  <1>6. QED
    BY <1>4, <1>5

LEMMA FormDecoded ==
  ASSUME NEW k, Made(k), NEW kind \in Kinds, NEW secret \in Forms(kind, k), NEW pass
  PROVE  decode(encode(secret, public([kind |-> kind, key |-> k]), pass), pass) = <<secret>>
  <1>1. PICK pub : /\ pub = public([kind |-> kind, key |-> k])
                   /\ pub \in Seq({pub[i] : i \in DOMAIN pub}) /\ Len(pub) >= 2 /\ pub[2] = <<"public", <<kind, k>>, 2>>
    BY PublicIs
  <1>2. PICK S : S = {secret[i] : i \in DOMAIN secret} \cup {pub[i] : i \in DOMAIN pub} \cup {PKCS8_HEADER, PKCS8_DIVIDER}
    OBVIOUS
  <1>3. secret \in Seq(S) /\ pub \in Seq(S)
    <2>1. secret \in Seq({secret[i] : i \in DOMAIN secret})
      BY PairOfForm
    <2>2. {secret[i] : i \in DOMAIN secret} \subseteq S /\ {pub[i] : i \in DOMAIN pub} \subseteq S
      BY <1>2
    <2>3. QED
      BY <1>1, <2>1, <2>2, SeqMonotonic
  <1>4. pub[2] # PKCS8_DIVIDER
    BY <1>1 DEF PKCS8_DIVIDER
  <1>5. PKCS8_HEADER \in S /\ PKCS8_DIVIDER \in S /\ Len(secret) \in {2, 4}
    BY <1>2, PairOfForm
  <1>6. decode(encode(secret, pub, pass), pass) = <<secret>>
    BY <1>1, <1>3, <1>4, <1>5, DecodedIs
  <1>7. QED
    BY <1>1, <1>6

(* A keystore gives its address back under its password, and nothing else  *)
(* under another.                                                          *)
LEMMA RestoreIsSound ==
  ASSUME NEW keystore, NEW password, Genuine(keystore, password), NEW pass
  PROVE  /\ from_keystore(keystore, password) # <<>>
         /\ from_keystore(keystore, pass) # <<>> =>
              /\ Sound(from_keystore(keystore, pass)[1])
              /\ from_keystore(keystore, pass)[1].addr = keystore.address
              /\ from_keystore(keystore, pass)[1].seed # <<>>
  <1>1. PICK kind, k : /\ kind = keystore.crypto /\ k = keystore.address[3] /\ Made(k) /\ kind \in Kinds
                       /\ keystore.address = <<"addr", kind, k>>
                       /\ keystore.encoded \in {encode(secret, public([kind |-> kind, key |-> k]), password) : secret \in Forms(kind, k)}
    BY DEF Genuine
  <1>2. PICK secret \in Forms(kind, k) : keystore.encoded = encode(secret, public([kind |-> kind, key |-> k]), password)
    BY <1>1
  <1>3. decode(keystore.encoded, password) = <<secret>>
    BY <1>1, <1>2, FormDecoded
  <1>4. decode(keystore.encoded, pass) \in {<<>>, <<secret>>}
    <2>1. CASE keystore.encoded.box # (IF Given(pass) THEN pass ELSE <<>>)
      BY <2>1 DEF decode
    <2>2. CASE keystore.encoded.box = (IF Given(pass) THEN pass ELSE <<>>)
      <3>1. (IF Given(pass) THEN pass ELSE <<>>) = (IF Given(password) THEN password ELSE <<>>)
        BY <1>2, <2>2 DEF encode
      <3>2. decode(keystore.encoded, pass) = decode(keystore.encoded, password)
        BY <3>1 DEF decode
      <3>3. QED
        BY <1>3, <3>2
    <2>3. QED
      BY <2>1, <2>2
  <1>5. pair_from_secret_slice(kind, secret) = <<[kind |-> kind, key |-> k]>>
    BY <1>1, <1>2, PairOfForm
  <1>6. <<secret>> # <<>> /\ <<secret>>[1] = secret
    OBVIOUS
  <1>7. Keystoreinto_pair(keystore, password) = <<[kind |-> kind, key |-> k]>>
    BY <1>1, <1>3, <1>5, <1>6 DEF Keystoreinto_pair
  <1>8. Keystoreinto_pair(keystore, pass) \in {<<>>, <<[kind |-> kind, key |-> k]>>}
    BY <1>1, <1>4, <1>5, <1>6 DEF Keystoreinto_pair
  <1>9. PICK pair : pair = [kind |-> kind, key |-> k]
    OBVIOUS
  <1>10. PICK a : a = [addr |-> to_address(pair), label |-> keystore.name, crypto_type |-> keystore.crypto,
                       seed |-> to_raw_vec(pair), network |-> from_genesis_hash(keystore.genesisHash)]
    OBVIOUS
  <1>11. from_keystore(keystore, password) = <<a>>
    BY <1>1, <1>7, <1>9, <1>10 DEF from_keystore
  <1>12. from_keystore(keystore, pass) \in {<<>>, <<a>>}
    BY <1>1, <1>8, <1>9, <1>10 DEF from_keystore
  <1>13. a.addr = keystore.address /\ a.addr = <<"addr", kind, k>> /\ a.crypto_type = kind
    BY <1>1, <1>9, <1>10 DEF to_address
  <1>14. a.seed = seed(k) \/ (kind = "sr25519" /\ a.seed = Cells("secret", k, SEC_LENGTH))
    BY <1>9, <1>10 DEF to_raw_vec
  <1>15. a.addr[3] = k
    BY <1>13
  <1>16. Sound(a)
    BY <1>1, <1>13, <1>14, <1>15 DEF Sound
  <1>17. a.seed # <<>>
    <2>1. \A s, t, u, v : <<s, t>> # <<>> /\ <<s, t, u, v>> # <<>>
      OBVIOUS
    <2>2. QED
      <3>1. seed(k) # <<>>
        BY <1>1, <2>1, SeedIs
      <3>2. Cells("secret", k, SEC_LENGTH) # <<>>
        BY <2>1, CellsAre DEF SEC_LENGTH
      <3>3. QED
        BY <1>14, <3>1, <3>2
  <1>18. <<a>> # <<>> /\ <<a>>[1] = a
    OBVIOUS
  <1>19. QED
    BY <1>11, <1>12, <1>13, <1>16, <1>17, <1>18

(* The stored secret makes the pair of the stored address.                 *)
LEMMA PairOfAddress ==
  ASSUME NEW a, Sound(a), ~is_watchonly(a)
  PROVE  /\ into_pair(a) = [kind |-> a.crypto_type, key |-> a.addr[3]]
         /\ Made(a.addr[3]) /\ a.crypto_type \in Kinds /\ a.addr = to_address(into_pair(a))
  <1>1. PICK k : /\ k = a.addr[3] /\ Made(k) /\ a.crypto_type \in Kinds /\ a.addr = <<"addr", a.crypto_type, k>>
                 /\ a.seed = seed(k) \/ (a.crypto_type = "sr25519" /\ a.seed = Cells("secret", k, SEC_LENGTH))
    BY DEF Sound, is_watchonly
  <1>2. a.seed \in Forms(a.crypto_type, k)
    BY <1>1 DEF Forms, Kinds
  <1>3. pair_from_secret_slice(a.crypto_type, a.seed) = <<[kind |-> a.crypto_type, key |-> k]>>
    BY <1>1, <1>2, PairOfForm
  <1>4. into_pair(a) = [kind |-> a.crypto_type, key |-> k]
    BY <1>3 DEF into_pair
  <1>5. to_address(into_pair(a)) = <<"addr", a.crypto_type, k>>
    BY <1>4 DEF to_address
  <1>6. QED
    BY <1>1, <1>4, <1>5

LEMMA BackupIsGenuine ==
  ASSUME NEW a, Sound(a), ~is_watchonly(a), NEW password
  PROVE  Genuine(into_keystore(a, password), password)
  <1>1. PICK kind, k, pair : /\ kind = a.crypto_type /\ k = a.addr[3] /\ pair = [kind |-> kind, key |-> k]
    OBVIOUS
  <1>2. /\ into_pair(a) = pair /\ Made(k) /\ kind \in Kinds /\ a.addr = to_address(pair)
    BY <1>1, PairOfAddress
  <1>3. PICK keystore : keystore = into_keystore(a, password)
    OBVIOUS
  <1>4. /\ keystore.address = a.addr /\ keystore.crypto = kind
        /\ keystore.encoded = encode(to_raw_vec(pair), public(pair), password)
    BY <1>1, <1>2, <1>3 DEF into_keystore
  <1>5. a.addr = <<"addr", kind, k>>
    BY <1>1, <1>2 DEF to_address
  <1>6. to_raw_vec(pair) \in Forms(kind, k)
    BY <1>1, <1>2 DEF to_raw_vec, Forms, Kinds
  <1>7. keystore.address[3] = k
    BY <1>4, <1>5
  <1>8. Genuine(keystore, password)
    BY <1>1, <1>2, <1>4, <1>5, <1>6, <1>7 DEF Genuine
  <1>9. QED
    BY <1>3, <1>8

(* A phrase, given or drawn, makes an address of its key.                  *)
LEMMA PhraseIsSound ==
  ASSUME NEW kind \in Kinds, NEW phrase, NEW pass, NEW n
  PROVE  /\ Sound(labelled(generate(kind, phrase, pass), n))
         /\ labelled(generate(kind, phrase, pass), n).addr = <<"addr", kind, <<"key", phrase, pass>>>>
         /\ from_phrase(kind, phrase, pass) \in {<<>>, <<generate(kind, phrase, pass)>>}
         /\ from_phrase(kind, phrase, pass) # <<>> => phrase \in Spoken
  <1>1. PICK k : k = <<"key", phrase, pass>>
    OBVIOUS
  <1>2. PICK g : g = generate(kind, phrase, pass)
    OBVIOUS
  <1>3. g = [addr |-> to_address([kind |-> kind, key |-> k]), label |-> <<>>, crypto_type |-> kind,
             seed |-> seed(k), network |-> from_genesis_hash(INDRACORE_GENESIS_HASH)]
    BY <1>1, <1>2 DEF generate
  <1>4. PICK b : b = labelled(g, n)
    OBVIOUS
  <1>5. b.addr = <<"addr", kind, k>> /\ b.crypto_type = kind /\ b.seed = seed(k)
    BY <1>3, <1>4 DEF labelled, to_address
  <1>6. b.addr[3] = k /\ Made(k)
    BY <1>1, <1>5 DEF Made
  <1>7. Sound(b)
    BY <1>5, <1>6 DEF Sound
  <1>8. from_phrase(kind, phrase, pass) = IF phrase \notin Spoken THEN <<>> ELSE <<g>>
    BY <1>1, <1>3 DEF from_phrase
  <1>9. QED
    BY <1>1, <1>2, <1>4, <1>5, <1>7, <1>8


-----------------------------------------------------------------------------
(* The file of a wallet                                                    *)

(* What one process does leaves the others where they are.                 *)
Others(p) ==
    /\ DOMAIN pc' = Procs /\ DOMAIN argv' = Procs /\ DOMAIN cmd' = Procs
    /\ DOMAIN mem' = Procs /\ DOMAIN address' = Procs /\ DOMAIN mnemonic' = Procs
    /\ \A q \in Procs \ {p} : /\ pc'[q] = pc[q] /\ cmd'[q] = cmd[q] /\ mem'[q] = mem[q]
                               /\ address'[q] = address[q] /\ mnemonic'[q] = mnemonic[q]

LEMMA EmptyBook == GoodBook(<<>>) /\ ToSet(<<>>) = {}
  <1>1. ToSet(<<>>) = {}
    BY DEF ToSet
  <1>2. QED
    BY <1>1 DEF GoodBook

(* A step that neither writes the wallet nor starts to keeps the invariant *)
(* when what the process holds afterwards agrees with the wallet; a        *)
(* process that dies or stops while it writes leaves its wallet disturbed. *)
LEMMA Quiet ==
  ASSUME WIInv, NEW p \in Procs, Others(p), UNCHANGED <<store, told>>,
         runs' \in 0..MaxRuns, drawn' \subseteq Spoken,
         disturbed \subseteq disturbed', disturbed' \subseteq Locations,
         pc[p] \in {"new", "put"} => at(p) \in disturbed',
         DOMAIN files' = Files, DOMAIN backed' = Files,
         \A f \in Files : files'[f] # <<>> => Genuine(files'[f][1], backed'[f]),
         \A s \in signed' : s.signer = s.sender \/ \E t \in Told : t.location = s.location /\ t.label = s.sender /\ t.addr = s.signer,
         pc'[p] \in {"idle", "open", "query", "do", "save", "write", "send"},
         pc'[p] = "idle" <=> cmd'[p] = NoCmd,
         pc'[p] \notin {"idle", "query"} => LocOf(cmd'[p]) \in Locations,
         GoodBook(mem'[p]), pc'[p] \in {"idle", "open", "query"} => mem'[p] = <<>>,
         \A a \in ToSet(mem'[p]) : Known(LocOf(cmd'[p]), a),
         pc'[p] \in {"save", "write", "send"} => Sound(address'[p]),
         mnemonic'[p] # <<>> => pc'[p] = "save",
         mnemonic'[p] # <<>> /\ cmd'[p].label = "sr25519" =>
             address'[p].addr = <<"addr", "sr25519", <<"key", mnemonic'[p][1], cmd'[p].password>>>>,
         pc'[p] \in {"write", "send"} => ~is_watchonly(address'[p]),
         pc'[p] = "send" => \/ address'[p].addr = cmd'[p].sender[1]
                             \/ \E t \in Told : t.location = LocOf(cmd'[p]) /\ t.label = cmd'[p].sender[1] /\ t.addr = address'[p].addr,
         pc'[p] \in {"do", "save", "write", "send"} => (Past(p) /\ cmd'[p] = cmd[p]) \/ IsBook(store[LocOf(cmd'[p])])
  PROVE  WIInv'
  <1>1. Told' = Told /\ \A l, a : Known(l, a)' <=> Known(l, a)
    BY DEF Told, Known
  <1>2. \A i : IsFirst(i)' <=> IsFirst(i)
    BY DEF IsFirst
  <1>3. \A q \in Procs \ {p} : /\ (pc'[q] = pc[q] /\ cmd'[q] = cmd[q] /\ mem'[q] = mem[q])
                                /\ (address'[q] = address[q] /\ mnemonic'[q] = mnemonic[q])
    BY DEF Others
  <1>4. WTypeOK'
    BY <1>3 DEF WIInv, WTypeOK
  <1>5. WTyped'
    BY <1>1, <1>3 DEF WIInv, WTyped, Others, Past, at
  <1>6. BooksAgree'
    BY <1>1 DEF WIInv, BooksAgree
  <1>7. MemoriesAgree'
    <2> SUFFICES ASSUME NEW q \in Procs PROVE MemoryAgrees(q)'
      BY DEF MemoriesAgree
    <2>1. CASE q = p
      BY <1>1, <2>1 DEF MemoryAgrees, Adding, at
    <2>2. CASE q # p
      BY <1>1, <1>3, <2>2, SMTT(30) DEF WIInv, MemoriesAgree, MemoryAgrees, Adding, at
    <2>3. QED
      BY <2>1, <2>2
  <1>8. SendersAgree'
    BY <1>1, <1>3 DEF WIInv, SendersAgree, at
  <1>9. CreationIsFirst'
    <2>1. \A q \in Procs \ {p} : (Past(q)' <=> Past(q)) /\ at(q)' = at(q)
      BY <1>3 DEF Past, at
    <2>2. Past(p)' => (Past(p) /\ at(p)' = at(p)) \/ IsBook(store[at(p)'])
      BY DEF Past, at
    <2>3. \A q \in Procs : pc'[q] = "new" => q # p /\ pc[q] = "new"
      BY <1>3
    <2>4. \A l : IsBook(store[l]) => store[l] # Absent /\ store[l] # Torn
      BY DEF IsBook, Absent, Torn
    <2>5. \A l \in Locations : store'[l] = Absent => (\A q \in Procs : Past(q)' => at(q)' # l) /\ \A t \in Told' : t.location # l
      BY <1>1, <2>1, <2>2, <2>4 DEF WIInv, CreationIsFirst
    <2>6. ASSUME NEW q \in Procs, pc'[q] = "new"
          PROVE  /\ store'[at(q)'] = Torn /\ \A t \in Told' : t.location # at(q)'
                 /\ \A r \in Procs \ {q} : Past(r)' => at(r)' # at(q)'
      <3>1. q # p /\ pc[q] = "new" /\ at(q)' = at(q)
        BY <2>1, <2>3, <2>6
      <3>2. /\ store[at(q)] = Torn /\ \A t \in Told : t.location # at(q)
            /\ \A r \in Procs \ {q} : Past(r) => at(r) # at(q)
        BY <3>1 DEF WIInv, CreationIsFirst
      <3>3. \A r \in Procs \ {q} : Past(r)' => at(r)' # at(q)
        BY <2>1, <2>2, <2>4, <3>2
      <3>4. QED
        BY <1>1, <3>1, <3>2, <3>3
    <2>7. QED
      BY <2>5, <2>6 DEF CreationIsFirst
  <1>10. SavesAgree'
    <2>1. \A q \in Procs \ {p} : (Saving(q)' <=> Saving(q)) /\ at(q)' = at(q) /\ pc'[q] = pc[q] /\ mem'[q] = mem[q]
      BY <1>3 DEF Saving, at
    <2>2. ~Saving(p)' /\ pc'[p] # "add" /\ pc'[p] # "put"
      BY DEF Saving
    <2>3. \A l, b : Keeps(l, b)' <=> Keeps(l, b)
      BY <1>2 DEF Keeps
    <2>4. SUFFICES ASSUME NEW l \in Locations \ disturbed' PROVE SavesAt(l)'
      BY DEF SavesAgree
    <2>5. /\ IsBook(store[l]) => Keeps(l, store[l][2])
          /\ store[l] = Torn => \E q \in Procs : pc[q] \in {"new", "put"} /\ at(q) = l
          /\ \A q \in Procs : Saving(q) /\ at(q) = l =>
               /\ \A r \in Procs \ {q} : Saving(r) => at(r) # l
               /\ pc[q] = "add" => IsBook(store[l]) /\ mem[q] = store[l][2]
               /\ pc[q] = "put" => store[l] = Torn /\ Keeps(l, mem[q])
      BY DEF WIInv, SavesAgree, SavesAt
    <2>6. IsBook(store'[l]) => Keeps(l, store[l][2])'
      BY <2>3, <2>5
    <2>7. store'[l] = Torn => \E q \in Procs : pc'[q] \in {"new", "put"} /\ at(q)' = l
      BY <2>1, <2>5
    <2>8. ASSUME NEW q \in Procs, Saving(q)', at(q)' = l
          PROVE  /\ \A r \in Procs \ {q} : Saving(r)' => at(r)' # l
                 /\ pc'[q] = "add" => IsBook(store'[l]) /\ mem'[q] = store'[l][2]
                 /\ pc'[q] = "put" => store'[l] = Torn /\ Keeps(l, mem[q])'
      <3>1. q # p /\ Saving(q) /\ at(q) = l
        BY <2>1, <2>2, <2>8
      <3>2. \A r \in Procs \ {q} : Saving(r)' => at(r)' # l
        BY <2>1, <2>2, <2>5, <3>1
      <3>3. pc'[q] = "add" => IsBook(store'[l]) /\ mem'[q] = store'[l][2]
        BY <2>1, <2>5, <3>1
      <3>4. pc'[q] = "put" => store'[l] = Torn /\ Keeps(l, mem[q])'
        BY <2>1, <2>3, <2>5, <3>1
      <3>5. QED
        BY <3>2, <3>3, <3>4
    <2>9. QED
      BY <2>6, <2>7, <2>8 DEF SavesAt
  <1>11. FilesAgree'
    BY DEF FilesAgree
  <1>12. PhrasesAgree'
    BY <1>1 DEF WIInv, PhrasesAgree
  <1>13. SignedAsNamed'
    BY <1>1 DEF SignedAsNamed
  <1>14. QED
    BY <1>4, <1>5, <1>6, <1>7, <1>8, <1>9, <1>10, <1>11, <1>12, <1>13 DEF WIInv

(* What the invariant says of a process, and of the wallet that it opened. *)
LEMMA EndedIs ==
  ASSUME WIInv, NEW p \in Procs, Ended(p)
  PROVE  /\ Others(p) /\ pc'[p] = "idle" /\ cmd'[p] = NoCmd /\ mem'[p] = <<>> /\ mnemonic'[p] = <<>>
  BY DEF WIInv, WTyped, Ended, Others

LEMMA EndKeeps ==
  ASSUME WIInv, NEW p \in Procs, Ended(p), UNCHANGED <<store, told, runs, drawn>>,
         disturbed \subseteq disturbed', disturbed' \subseteq Locations,
         pc[p] \in {"new", "put"} => at(p) \in disturbed',
         DOMAIN files' = Files, DOMAIN backed' = Files,
         \A f \in Files : files'[f] # <<>> => Genuine(files'[f][1], backed'[f]),
         \A s \in signed' : s.signer = s.sender \/ \E t \in Told : t.location = s.location /\ t.label = s.sender /\ t.addr = s.signer
  PROVE  WIInv'
  <1>1. Others(p) /\ pc'[p] = "idle" /\ cmd'[p] = NoCmd /\ mem'[p] = <<>> /\ mnemonic'[p] = <<>>
    BY EndedIs
  <1>2. runs' \in 0..MaxRuns /\ drawn' \subseteq Spoken
    BY DEF WIInv, WTypeOK
  <1>3. GoodBook(mem'[p]) /\ \A a \in ToSet(mem'[p]) : Known(LocOf(cmd'[p]), a)
    BY <1>1, EmptyBook
  <1>4. QED
    BY <1>1, <1>2, <1>3, Quiet

(* The files and the transfers of a step that changes neither.             *)
LEMMA RestHolds ==
  ASSUME WIInv, UNCHANGED <<files, backed, signed>>
  PROVE  /\ DOMAIN files' = Files /\ DOMAIN backed' = Files
         /\ \A f \in Files : files'[f] # <<>> => Genuine(files'[f][1], backed'[f])
         /\ \A s \in signed' : s.signer = s.sender \/ \E t \in Told : t.location = s.location /\ t.label = s.sender /\ t.addr = s.signer
         /\ disturbed \subseteq Locations /\ runs \in 0..MaxRuns /\ drawn \subseteq Spoken
  BY DEF WIInv, WTyped, WTypeOK, FilesAgree, SignedAsNamed

LEMMA EndStep ==
  ASSUME WIInv, NEW p \in Procs, End(p), pc[p] \notin {"new", "put"}
  PROVE  WIInv'
  <1>1. Ended(p) /\ UNCHANGED <<store, told, runs, drawn>> /\ UNCHANGED <<files, backed, signed>> /\ disturbed' = disturbed
    BY DEF End
  <1>2. QED
    BY <1>1, RestHolds, EndKeeps

(* The book that a process holds, once it has loaded the file: sound, and  *)
(* of addresses that were told to be added.                                *)
LEMMA LoadIsGood ==
  ASSUME WIInv, NEW p \in Procs, pc[p] \notin {"idle", "query", "put"}
  PROVE  /\ GoodBook(load(p)) /\ \A a \in ToSet(load(p)) : Known(at(p), a)
         /\ GoodBook(mem[p]) /\ \A a \in ToSet(mem[p]) : Known(at(p), a)
  <1>1. at(p) \in Locations
    <2>1. WTyped
      BY DEF WIInv
    <2>2. \A q \in Procs : pc[q] \notin {"idle", "query"} => at(q) \in Locations
      BY <2>1 DEF WTyped
    <2>3. QED
      BY <2>2
  <1>2. GoodBook(mem[p]) /\ \A a \in ToSet(mem[p]) : Known(at(p), a)
    BY DEF WIInv, MemoriesAgree, MemoryAgrees
  <1>3. IsBook(store[at(p)]) => GoodBook(store[at(p)][2]) /\ \A a \in ToSet(store[at(p)][2]) : Known(at(p), a)
    BY <1>1 DEF WIInv, BooksAgree
  <1>4. QED
    BY <1>2, <1>3 DEF load

LEMMA EntryFound ==
  ASSUME NEW book, GoodBook(book), NEW x, get(book, x) # <<>>
  PROVE  /\ get(book, x)[1] \in ToSet(book) /\ Sound(get(book, x)[1])
         /\ x \in {get(book, x)[1].label, get(book, x)[1].addr}
  <1>1. PICK i \in DOMAIN book : get(book, x) = <<book[i]>> /\ x \in {book[i].label, book[i].addr}
    BY Found DEF GoodBook
  <1>2. book[i] \in ToSet(book)
    BY DEF ToSet
  <1>3. get(book, x)[1] = book[i]
    BY <1>1
  <1>4. QED
    BY <1>1, <1>2, <1>3 DEF GoodBook

LEMMA EnterKeeps ==
  ASSUME WIInv, NEW p \in Procs, pc[p] = "idle", runs < MaxRuns, NEW c, OnWallets(c), DOMAIN argv' = Procs, Enter(p, c)
  PROVE  WIInv'
  <1>1. /\ Others(p) /\ cmd'[p] = c /\ pc'[p] = (IF c.op = "balance" THEN "query" ELSE "open")
        /\ mem'[p] = mem[p] /\ mnemonic'[p] = mnemonic[p]
    BY DEF Enter, Others, WIInv, WTyped
  <1>2. UNCHANGED <<store, told, drawn>> /\ UNCHANGED <<files, backed, signed>> /\ disturbed' = disturbed /\ runs' = runs + 1
    BY DEF Enter
  <1>3. runs' \in 0..MaxRuns /\ drawn' \subseteq Spoken /\ disturbed' \subseteq Locations
    BY <1>2, WalletStoreAssumption DEF WIInv, WTypeOK
  <1>4. c # NoCmd /\ (c.op # "balance" => LocOf(c) \in Locations)
    BY DEF OnWallets, NoCmd
  <1>5. mnemonic[p] = <<>>
    BY DEF WIInv, MemoriesAgree, MemoryAgrees, Adding
  <1>6. mem'[p] = <<>>
    BY <1>1 DEF WIInv, MemoriesAgree, MemoryAgrees
  <1>7. /\ DOMAIN files' = Files /\ DOMAIN backed' = Files
        /\ \A f \in Files : files'[f] # <<>> => Genuine(files'[f][1], backed'[f])
        /\ \A s \in signed' : s.signer = s.sender \/ \E t \in Told : t.location = s.location /\ t.label = s.sender /\ t.addr = s.signer
    BY <1>2, RestHolds
  <1>8. GoodBook(mem'[p]) /\ \A a \in ToSet(mem'[p]) : Known(LocOf(cmd'[p]), a)
    BY <1>6, EmptyBook
  <1>9. pc'[p] \in {"query", "open"} /\ (pc'[p] # "query" => LocOf(cmd'[p]) \in Locations) /\ cmd'[p] # NoCmd
    BY <1>1, <1>4
  <1>10. mnemonic'[p] = <<>> /\ pc[p] \notin {"new", "put"}
    BY <1>1, <1>5
  <1> HIDE DEF Enter
  <1>11. QED
    BY <1>1, <1>2, <1>3, <1>6, <1>7, <1>8, <1>9, <1>10, Quiet

LEMMA OpenKeeps ==
  ASSUME WIInv, NEW p \in Procs, pc[p] = "open", IsBook(store[at(p)]), Goto(p, "do"),
         mem' = [mem EXCEPT ![p] = store[at(p)][2]],
         UNCHANGED <<store, files, argv, cmd, address, mnemonic, runs, drawn, told, disturbed, backed, signed>>
  PROVE  WIInv'
  <1>1. /\ Others(p) /\ cmd'[p] = cmd[p] /\ pc'[p] = "do" /\ mem'[p] = store[at(p)][2] /\ mnemonic'[p] = mnemonic[p]
    BY DEF Goto, Others, WIInv, WTyped
  <1>2. WTyped /\ MemoriesAgree /\ WTypeOK /\ BooksAgree
    BY DEF WIInv
  <1>3. at(p) \in Locations /\ cmd[p] # NoCmd
    BY <1>2 DEF WTyped, WTypeOK
  <1>4. mnemonic[p] = <<>>
    BY <1>2 DEF MemoriesAgree, MemoryAgrees, Adding
  <1>5. GoodBook(mem'[p]) /\ \A a \in ToSet(mem'[p]) : Known(LocOf(cmd'[p]), a)
    BY <1>1, <1>2, <1>3 DEF BooksAgree, at
  <1>6. /\ DOMAIN files' = Files /\ DOMAIN backed' = Files
        /\ \A f \in Files : files'[f] # <<>> => Genuine(files'[f][1], backed'[f])
        /\ \A s \in signed' : s.signer = s.sender \/ \E t \in Told : t.location = s.location /\ t.label = s.sender /\ t.addr = s.signer
        /\ disturbed \subseteq Locations /\ runs \in 0..MaxRuns /\ drawn \subseteq Spoken
    BY RestHolds
  <1>7. LocOf(cmd'[p]) = at(p)
    BY <1>1 DEF at
  <1>8. QED
    BY <1>1, <1>3, <1>4, <1>5, <1>6, <1>7, Quiet

(* An operation that is done with its book: to save, to write or to send.  *)
LEMMA DoneKeeps ==
  ASSUME WIInv, NEW p \in Procs, pc[p] = "do", NEW l \in {"save", "write", "send"}, Goto(p, l),
         NEW a, Sound(a), address' = [address EXCEPT ![p] = a], drawn' \subseteq Spoken, DOMAIN mnemonic' = Procs,
         \A q \in Procs \ {p} : mnemonic'[q] = mnemonic[q],
         mnemonic'[p] # <<>> => l = "save",
         mnemonic'[p] # <<>> /\ cmd[p].label = "sr25519" =>
             a.addr = <<"addr", "sr25519", <<"key", mnemonic'[p][1], cmd[p].password>>>>,
         l \in {"write", "send"} => ~is_watchonly(a),
         l = "send" => \/ a.addr = cmd[p].sender[1]
                       \/ \E t \in Told : t.location = at(p) /\ t.label = cmd[p].sender[1] /\ t.addr = a.addr,
         UNCHANGED <<store, files, argv, cmd, mem, runs, told, disturbed, backed, signed>>
  PROVE  WIInv'
  <1>1. /\ Others(p) /\ cmd'[p] = cmd[p] /\ pc'[p] = l /\ mem'[p] = mem[p] /\ address'[p] = a
    BY DEF Goto, Others, WIInv, WTyped
  <1>2. WTyped /\ WTypeOK
    BY DEF WIInv
  <1>3. at(p) \in Locations /\ cmd[p] # NoCmd
    BY <1>2 DEF WTyped, WTypeOK
  <1>4. GoodBook(mem'[p]) /\ \A e \in ToSet(mem'[p]) : Known(LocOf(cmd'[p]), e)
    BY <1>1, LoadIsGood DEF at
  <1>5. /\ DOMAIN files' = Files /\ DOMAIN backed' = Files
        /\ \A f \in Files : files'[f] # <<>> => Genuine(files'[f][1], backed'[f])
        /\ \A s \in signed' : s.signer = s.sender \/ \E t \in Told : t.location = s.location /\ t.label = s.sender /\ t.addr = s.signer
        /\ disturbed \subseteq Locations /\ runs \in 0..MaxRuns
    BY RestHolds
  <1>6. LocOf(cmd'[p]) = at(p) /\ Past(p)
    BY <1>1 DEF at, Past
  <1>7. pc[p] \notin {"new", "put"} /\ pc'[p] \in {"save", "write", "send"} /\ (pc'[p] = "send" <=> l = "send")
        /\ (pc'[p] = "save" <=> l = "save") /\ (pc'[p] \in {"write", "send"} <=> l \in {"write", "send"})
    BY <1>1
  <1> HIDE DEF Goto
  <1>8. QED
    BY <1>1, <1>3, <1>4, <1>5, <1>6, <1>7, Quiet

LEMMA IdleMnemonic ==
  ASSUME WIInv, NEW p \in Procs, ~Adding(p)
  PROVE  mnemonic[p] = <<>>
  BY DEF WIInv, MemoriesAgree, MemoryAgrees

LEMMA get_walletKeeps ==
  ASSUME WIInv, NEW p \in Procs, get_wallet(p)
  PROVE  WIInv'
  <1>1. pc[p] = "do" /\ WTypeOK /\ WTyped
    BY DEF get_wallet, Do, WIInv
  <1>2. PICK c : c = cmd[p]
    OBVIOUS
  <1>3. CASE End(p)
    BY <1>1, <1>3, EndStep
  <1>4. ASSUME NEW kind \in Kinds, NEW phrase \in Spoken, c.label = "sr25519" => kind = "sr25519",
               NEW a, a = labelled(generate(kind, phrase, c.password), c.name), Save(p, a),
               mnemonic' = [mnemonic EXCEPT ![p] = <<phrase>>] \/ (mnemonic' = [mnemonic EXCEPT ![p] = c.phrase] /\ phrase = c.phrase[1]),
               drawn' = drawn \cup {phrase}
        PROVE  WIInv'
    <2>1. Sound(a) /\ a.addr = <<"addr", kind, <<"key", phrase, c.password>>>>
      BY <1>4, PhraseIsSound
    <2>2. drawn' \subseteq Spoken /\ DOMAIN mnemonic' = Procs /\ \A q \in Procs \ {p} : mnemonic'[q] = mnemonic[q]
      BY <1>1, <1>4 DEF WTypeOK, WTyped
    <2>3. mnemonic'[p] = <<phrase>> \/ (mnemonic'[p] = c.phrase /\ phrase = c.phrase[1])
      BY <1>1, <1>4 DEF WTyped
    <2>4. mnemonic'[p][1] = phrase
      BY <2>3
    <2>5. mnemonic'[p] # <<>> /\ cmd[p].label = "sr25519" =>
             a.addr = <<"addr", "sr25519", <<"key", mnemonic'[p][1], cmd[p].password>>>>
      BY <1>2, <1>4, <2>1, <2>4
    <2>6. Goto(p, "save") /\ address' = [address EXCEPT ![p] = a]
          /\ UNCHANGED <<store, files, argv, cmd, mem, runs, told, disturbed, backed, signed>>
      BY <1>4 DEF Save
    <2>7. QED
      BY <1>1, <2>1, <2>2, <2>5, <2>6, DoneKeeps
  <1>5. CASE /\ from_phrase(PhraseKind(c.label), c.phrase[1], c.password) # <<>>
             /\ Save(p, labelled(from_phrase(PhraseKind(c.label), c.phrase[1], c.password)[1], c.name))
             /\ mnemonic' = [mnemonic EXCEPT ![p] = c.phrase] /\ drawn' = drawn \cup {c.phrase[1]}
    <2>1. PICK kind \in Kinds : kind = PhraseKind(c.label) /\ (c.label = "sr25519" => kind = "sr25519")
      BY DEF PhraseKind, Kinds
    <2>2. /\ from_phrase(kind, c.phrase[1], c.password) \in {<<>>, <<generate(kind, c.phrase[1], c.password)>>}
          /\ from_phrase(kind, c.phrase[1], c.password) # <<>> => c.phrase[1] \in Spoken
      BY PhraseIsSound
    <2>3. from_phrase(kind, c.phrase[1], c.password)[1] = generate(kind, c.phrase[1], c.password) /\ c.phrase[1] \in Spoken
      BY <1>5, <2>1, <2>2
    <2>4. QED
      BY <1>4, <1>5, <2>1, <2>3
  <1>6. ASSUME NEW phrase \in Random, Save(p, labelled(generate(NewKind(c.label), phrase, c.password), c.name)),
               mnemonic' = [mnemonic EXCEPT ![p] = <<phrase>>], drawn' = drawn \cup {phrase}
        PROVE  WIInv'
    <2>1. PICK kind \in Kinds : kind = NewKind(c.label) /\ (c.label = "sr25519" => kind = "sr25519")
      BY DEF NewKind, Kinds
    <2>2. phrase \in Spoken
      BY WalletStoreAssumption
    <2>3. QED
      BY <1>4, <1>6, <2>1, <2>2
  <1>7. QED
    BY <1>2, <1>3, <1>5, <1>6 DEF get_wallet

LEMMA watch_walletKeeps ==
  ASSUME WIInv, NEW p \in Procs, watch_wallet(p)
  PROVE  WIInv'
  <1>1. pc[p] = "do" /\ WTypeOK /\ WTyped /\ mnemonic[p] = <<>>
    BY IdleMnemonic DEF watch_wallet, Do, WIInv, Adding
  <1>2. CASE End(p)
    BY <1>1, <1>2, EndStep
  <1>3. PICK a : a = labelled([NoAddress EXCEPT !.addr = cmd[p].address[1]], cmd[p].name)
    OBVIOUS
  <1>4. CASE Save(p, a) /\ UNCHANGED <<mnemonic, drawn>>
    <2>1. Sound(a)
      BY <1>3 DEF Sound, labelled, NoAddress
    <2>2. QED
      BY <1>1, <1>4, <2>1, DoneKeeps DEF Save, WTypeOK, WTyped
  <1>5. QED
    BY <1>2, <1>3, <1>4 DEF watch_wallet

LEMMA restore_walletKeeps ==
  ASSUME WIInv, NEW p \in Procs, restore_wallet(p)
  PROVE  WIInv'
  <1>1. pc[p] = "do" /\ WTypeOK /\ WTyped /\ mnemonic[p] = <<>> /\ FilesAgree
    BY IdleMnemonic DEF restore_wallet, Do, WIInv, Adding
  <1>2. CASE End(p)
    BY <1>1, <1>2, EndStep
  <1>3. ASSUME NEW keystore, parse_from_file(cmd[p].file) = keystore, keystore # <<>>,
               from_keystore(keystore[1], cmd[p].password) # <<>>,
               Save(p, from_keystore(keystore[1], cmd[p].password)[1]), UNCHANGED <<mnemonic, drawn>>
        PROVE  WIInv'
    <2>1. PICK f \in Files : keystore = files[f]
      BY <1>3 DEF parse_from_file
    <2>2. Genuine(keystore[1], backed[f])
      BY <1>1, <1>3, <2>1 DEF FilesAgree
    <2>3. Sound(from_keystore(keystore[1], cmd[p].password)[1])
      BY <1>3, <2>2, RestoreIsSound
    <2>4. QED
      BY <1>1, <1>3, <2>3, DoneKeeps DEF Save, WTypeOK, WTyped
  <1>4. QED
    BY <1>2, <1>3 DEF restore_wallet

LEMMA backupKeeps ==
  ASSUME WIInv, NEW p \in Procs, backup(p)
  PROVE  WIInv'
  <1>1. pc[p] = "do" /\ WTypeOK /\ WTyped /\ mnemonic[p] = <<>>
    BY IdleMnemonic DEF backup, Do, WIInv, Adding
  <1>2. CASE End(p)
    BY <1>1, <1>2, EndStep
  <1>3. ASSUME NEW found, found = get(load(p), cmd[p].address[1]), found # <<>>, ~is_watchonly(found[1]),
               Goto(p, "write"), address' = [address EXCEPT ![p] = found[1]],
               UNCHANGED <<store, files, argv, cmd, mem, mnemonic, runs, drawn, told, disturbed, backed, signed>>
        PROVE  WIInv'
    <2>1. GoodBook(load(p))
      BY <1>1, LoadIsGood
    <2>2. Sound(found[1])
      BY <1>3, <2>1, EntryFound
    <2>3. QED
      BY <1>1, <1>3, <2>2, DoneKeeps DEF WTypeOK, WTyped
  <1>4. QED
    BY <1>2, <1>3 DEF backup

LEMMA backup_writeKeeps ==
  ASSUME WIInv, NEW p \in Procs, backup_write(p)
  PROVE  WIInv'
  <1>1. pc[p] = "write" /\ WTypeOK /\ WTyped /\ FilesAgree /\ SignedAsNamed
    BY DEF backup_write, WIInv
  <1>2. CASE End(p)
    BY <1>1, <1>2, EndStep
  <1>3. ASSUME NEW f, files' = [files EXCEPT ![f] = <<into_keystore(address[p], cmd[p].password)>>],
               backed' = [backed EXCEPT ![f] = cmd[p].password], Ended(p),
               UNCHANGED <<store, runs, drawn, told, disturbed, signed>>
        PROVE  WIInv'
    <2>1. Sound(address[p]) /\ ~is_watchonly(address[p])
      BY <1>1 DEF WIInv, MemoriesAgree, MemoryAgrees, SendersAgree
    <2>2. Genuine(into_keystore(address[p], cmd[p].password), cmd[p].password)
      BY <2>1, BackupIsGenuine
    <2>3. ASSUME NEW g \in Files, files'[g] # <<>> PROVE Genuine(files'[g][1], backed'[g])
      <3>1. CASE g = f
        <4>1. files'[g] = <<into_keystore(address[p], cmd[p].password)>> /\ backed'[g] = cmd[p].password
          BY <1>1, <1>3, <3>1 DEF WTyped
        <4>2. files'[g][1] = into_keystore(address[p], cmd[p].password)
          BY <4>1
        <4>3. QED
          BY <2>2, <4>1, <4>2
      <3>2. CASE g # f
        <4>1. files'[g] = files[g] /\ backed'[g] = backed[g]
          BY <1>1, <1>3, <3>2 DEF WTyped
        <4>2. QED
          BY <1>1, <2>3, <4>1 DEF FilesAgree
      <3>3. QED
        BY <3>1, <3>2
    <2>4. DOMAIN files' = Files /\ DOMAIN backed' = Files
      BY <1>1, <1>3 DEF WTyped
    <2>5. \A s \in signed' : s.signer = s.sender \/ \E t \in Told : t.location = s.location /\ t.label = s.sender /\ t.addr = s.signer
      BY <1>1, <1>3 DEF SignedAsNamed
    <2>6. disturbed \subseteq disturbed' /\ disturbed' \subseteq Locations /\ UNCHANGED <<store, told, runs, drawn>>
      BY <1>1, <1>3 DEF WTypeOK
    <2>7. QED
      BY <1>1, <1>3, <2>3, <2>4, <2>5, <2>6, EndKeeps
  <1>4. QED
    BY <1>2, <1>3 DEF backup_write

LEMMA run_transactionKeeps ==
  ASSUME WIInv, NEW p \in Procs, run_transaction(p)
  PROVE  WIInv'
  <1>1. pc[p] = "do" /\ WTypeOK /\ WTyped /\ mnemonic[p] = <<>>
    BY IdleMnemonic DEF run_transaction, Do, WIInv, Adding
  <1>2. CASE End(p)
    BY <1>1, <1>2, EndStep
  <1>3. ASSUME NEW found, found = get(load(p), cmd[p].sender[1]), found # <<>>, ~is_watchonly(found[1]),
               Goto(p, "send"), address' = [address EXCEPT ![p] = found[1]],
               UNCHANGED <<store, files, argv, cmd, mem, mnemonic, runs, drawn, told, disturbed, backed, signed>>
        PROVE  WIInv'
    <2>1. GoodBook(load(p)) /\ \A a \in ToSet(load(p)) : Known(at(p), a)
      BY <1>1, LoadIsGood
    <2>2. Sound(found[1]) /\ found[1] \in ToSet(load(p)) /\ cmd[p].sender[1] \in {found[1].label, found[1].addr}
      BY <1>3, <2>1, EntryFound
    <2>3. \E t \in Told : t.location = at(p) /\ t.addr = found[1].addr /\ t.label = found[1].label
      BY <2>1, <2>2 DEF Known
    <2>4. \/ found[1].addr = cmd[p].sender[1]
          \/ \E t \in Told : t.location = at(p) /\ t.label = cmd[p].sender[1] /\ t.addr = found[1].addr
      BY <2>2, <2>3
    <2>5. QED
      BY <1>1, <1>3, <2>2, <2>4, DoneKeeps DEF WTypeOK, WTyped
  <1>4. QED
    BY <1>2, <1>3 DEF run_transaction

LEMMA transferKeeps ==
  ASSUME WIInv, NEW p \in Procs, transfer(p)
  PROVE  WIInv'
  <1>1. pc[p] = "send" /\ WTypeOK /\ WTyped /\ FilesAgree /\ SignedAsNamed
    BY DEF transfer, WIInv
  <1>2. CASE End(p)
    BY <1>1, <1>2, EndStep
  <1>3. ASSUME signed' = signed \cup {[location |-> at(p), sender |-> cmd[p].sender[1], signer |-> to_address(into_pair(address[p]))]},
               Ended(p), UNCHANGED <<store, files, runs, drawn, told, disturbed, backed>>
        PROVE  WIInv'
    <2>1. Sound(address[p]) /\ ~is_watchonly(address[p])
      BY <1>1 DEF WIInv, MemoriesAgree, MemoryAgrees, SendersAgree
    <2>2. to_address(into_pair(address[p])) = address[p].addr
      BY <2>1, PairOfAddress
    <2>3. \/ address[p].addr = cmd[p].sender[1]
          \/ \E t \in Told : t.location = at(p) /\ t.label = cmd[p].sender[1] /\ t.addr = address[p].addr
      BY <1>1 DEF WIInv, SendersAgree
    <2>4. \A s \in signed' : s.signer = s.sender \/ \E t \in Told : t.location = s.location /\ t.label = s.sender /\ t.addr = s.signer
      BY <1>1, <1>3, <2>2, <2>3 DEF SignedAsNamed
    <2>5. /\ DOMAIN files' = Files /\ DOMAIN backed' = Files
          /\ \A f \in Files : files'[f] # <<>> => Genuine(files'[f][1], backed'[f])
      BY <1>1, <1>3 DEF WTyped, FilesAgree
    <2>6. disturbed \subseteq disturbed' /\ disturbed' \subseteq Locations /\ UNCHANGED <<store, told, runs, drawn>>
      BY <1>1, <1>3 DEF WTypeOK
    <2>7. QED
      BY <1>1, <1>3, <2>4, <2>5, <2>6, EndKeeps
  <1>4. QED
    BY <1>2, <1>3 DEF transfer

(* A process that dies while its file is truncated leaves the wallet       *)
(* disturbed.                                                              *)
LEMMA crashKeeps ==
  ASSUME WIInv, NEW p \in Procs, crash(p)
  PROVE  WIInv'
  <1>1. WTypeOK /\ WTyped
    BY DEF WIInv
  <1>2. pc[p] # "idle" /\ Ended(p) /\ UNCHANGED <<store, told, runs, drawn>> /\ UNCHANGED <<files, backed, signed>>
    BY DEF crash
  <1>3. pc[p] \in {"new", "put"} => at(p) \in Locations
    BY <1>1 DEF WTyped
  <1>4. /\ disturbed \subseteq disturbed' /\ disturbed' \subseteq Locations
        /\ pc[p] \in {"new", "put"} => at(p) \in disturbed'
    BY <1>1, <1>3 DEF crash, WTypeOK
  <1>5. QED
    BY <1>2, <1>4, RestHolds, EndKeeps

(* A wallet that a step leaves alone is saved as before.                   *)
LEMMA Elsewhere ==
  ASSUME WIInv, NEW p \in Procs, NEW l \in Locations \ disturbed, l # at(p), Others(p), store'[l] = store[l],
         at(p)' = at(p) \/ ~Saving(p)', pc'[p] # "new" \/ at(p)' = at(p), \A b : Keeps(l, b)' <=> Keeps(l, b)
  PROVE  SavesAt(l)'
  <1>1. \A q \in Procs \ {p} : pc'[q] = pc[q] /\ mem'[q] = mem[q] /\ at(q)' = at(q) /\ (Saving(q)' <=> Saving(q))
    BY DEF Others, at, Saving
  <1>2. /\ IsBook(store[l]) => Keeps(l, store[l][2])
        /\ store[l] = Torn => \E q \in Procs : pc[q] \in {"new", "put"} /\ at(q) = l
        /\ \A q \in Procs : Saving(q) /\ at(q) = l =>
             /\ \A r \in Procs \ {q} : Saving(r) => at(r) # l
             /\ pc[q] = "add" => IsBook(store[l]) /\ mem[q] = store[l][2]
             /\ pc[q] = "put" => store[l] = Torn /\ Keeps(l, mem[q])
    BY DEF WIInv, SavesAgree, SavesAt
  <1>3. IsBook(store'[l]) => Keeps(l, store[l][2])'
    BY <1>2
  <1>4. store'[l] = Torn => \E q \in Procs : pc'[q] \in {"new", "put"} /\ at(q)' = l
    BY <1>1, <1>2
  <1>5. ASSUME NEW q \in Procs, Saving(q)', at(q)' = l
        PROVE  /\ \A r \in Procs \ {q} : Saving(r)' => at(r)' # l
               /\ pc'[q] = "add" => IsBook(store'[l]) /\ mem'[q] = store'[l][2]
               /\ pc'[q] = "put" => store'[l] = Torn /\ Keeps(l, mem[q])'
    <2>1. q # p /\ Saving(q) /\ at(q) = l
      BY <1>1, <1>5
    <2>2. \A r \in Procs \ {q} : Saving(r)' => at(r)' # l
      BY <1>1, <1>2, <2>1
    <2>3. pc'[q] = "put" => store'[l] = Torn /\ Keeps(l, mem[q])'
      BY <1>1, <1>2, <2>1
    <2>4. pc'[q] = "add" => IsBook(store'[l]) /\ mem'[q] = store'[l][2]
      BY <1>1, <1>2, <2>1
    <2>5. QED
      BY <2>2, <2>3, <2>4
  <1>6. QED
    BY <1>3, <1>4, <1>5 DEF SavesAt

(* The first to open a wallet that is not there truncates its file.        *)
LEMMA CreatingKeeps ==
  ASSUME WIInv, NEW p \in Procs, pc[p] = "open", store[at(p)] = Absent, store' = [store EXCEPT ![at(p)] = Torn], Goto(p, "new"),
         UNCHANGED <<files, argv, cmd, mem, address, mnemonic, runs, drawn, told, disturbed, backed, signed>>
  PROVE  WIInv'
  <1>1. WTypeOK /\ WTyped /\ BooksAgree /\ MemoriesAgree /\ SendersAgree /\ CreationIsFirst
    BY DEF WIInv
  <1>2. /\ Others(p) /\ pc'[p] = "new" /\ \A q \in Procs \ {p} : pc'[q] = pc[q]
        /\ \A q : at(q)' = at(q)
    BY <1>1 DEF Goto, WTyped, at, Others
  <1>3. PICK here \in Locations : here = at(p)
    BY <1>1 DEF WTyped
  <1>4. /\ DOMAIN store' = Locations /\ store'[here] = Torn /\ \A l \in Locations \ {here} : store'[l] = store[l]
    BY <1>1, <1>3 DEF WTyped
  <1>5. ~IsBook(Torn) /\ Torn # Absent
    BY DEF IsBook, Torn, Absent
  <1>6. Told' = Told /\ \A l, a : Known(l, a)' <=> Known(l, a)
    BY DEF Told, Known
  <1>7. (\A q \in Procs : Past(q) => at(q) # here) /\ \A t \in Told : t.location # here
    BY <1>1, <1>3 DEF CreationIsFirst
  <1>8. WTypeOK'
    BY <1>1, <1>2, <1>4, <1>5 DEF WTypeOK, Others
  <1>9. WTyped'
    BY <1>1, <1>2, <1>3, <1>4, <1>6 DEF WTyped, Past, Others
  <1>10. BooksAgree'
    BY <1>1, <1>4, <1>5, <1>6 DEF BooksAgree
  <1>11. MemoriesAgree'
    <2>1. ~Adding(p) /\ mnemonic[p] = <<>>
      BY <1>1 DEF MemoriesAgree, MemoryAgrees, Adding
    <2> SUFFICES ASSUME NEW q \in Procs PROVE MemoryAgrees(q)'
      BY DEF MemoriesAgree
    <2>2. CASE q = p
      BY <1>1, <1>2, <1>6, <2>1, <2>2 DEF MemoriesAgree, MemoryAgrees, Adding
    <2>3. CASE q # p
      BY <1>1, <1>2, <1>6, <2>3 DEF MemoriesAgree, MemoryAgrees, Adding
    <2>4. QED
      BY <2>2, <2>3
  <1>12. SendersAgree'
    BY <1>1, <1>2, <1>6 DEF SendersAgree
  <1>13. \A q \in Procs \ {p} : (Past(q)' <=> Past(q)) /\ (Saving(q)' <=> Saving(q))
    BY <1>2 DEF Past, Saving
  <1>14. CreationIsFirst'
    <2>1. ASSUME NEW l \in Locations, store'[l] = Absent
          PROVE  (\A q \in Procs : Past(q)' => at(q)' # l) /\ \A t \in Told' : t.location # l
      <3>1. l # here /\ store[l] = Absent
        BY <1>4, <1>5, <2>1
      <3>2. QED
        BY <1>1, <1>2, <1>3, <1>6, <1>13, <3>1 DEF CreationIsFirst
    <2>2. ASSUME NEW q \in Procs, pc'[q] = "new"
          PROVE  /\ store'[at(q)'] = Torn /\ \A t \in Told' : t.location # at(q)'
                 /\ \A r \in Procs \ {q} : Past(r)' => at(r)' # at(q)'
      <3>1. CASE q = p
        BY <1>2, <1>3, <1>4, <1>6, <1>7, <1>13, <3>1
      <3>2. CASE q # p
        <4>1. /\ pc[q] = "new" /\ store[at(q)] = Torn /\ (\A t \in Told : t.location # at(q))
              /\ \A r \in Procs \ {q} : Past(r) => at(r) # at(q)
          BY <1>1, <1>2, <2>2, <3>2 DEF CreationIsFirst
        <4>2. at(q) \in Locations /\ at(q) # here
          BY <1>1, <1>3, <1>5, <4>1 DEF WTyped
        <4>3. QED
          BY <1>2, <1>3, <1>4, <1>6, <1>13, <4>1, <4>2
      <3>3. QED
        BY <3>1, <3>2
    <2>3. QED
      BY <2>1, <2>2 DEF CreationIsFirst
  <1>15. SavesAgree'
    <2>1. SUFFICES ASSUME NEW l \in Locations \ disturbed PROVE SavesAt(l)'
      BY DEF SavesAgree
    <2>2. CASE l = here
      <3>1. \A q \in Procs : Saving(q)' => at(q)' # l
        BY <1>2, <1>7, <1>13, <2>2 DEF Saving, Past
      <3>2. QED
        BY <1>2, <1>3, <1>4, <1>5, <2>2, <3>1 DEF SavesAt
    <2>3. CASE l # here
      <3>1. \A b : Keeps(l, b)' <=> Keeps(l, b)
        BY DEF Keeps, IsFirst
      <3>2. QED
        BY <1>2, <1>3, <1>4, <2>3, <3>1, Elsewhere
    <2>4. QED
      BY <2>2, <2>3
  <1>16. FilesAgree' /\ PhrasesAgree' /\ SignedAsNamed'
    BY <1>6 DEF WIInv, FilesAgree, PhrasesAgree, SignedAsNamed
  <1>17. QED
    BY <1>8, <1>9, <1>10, <1>11, <1>12, <1>14, <1>15, <1>16 DEF WIInv

(* A step that creates or saves a wallet that was opened keeps the         *)
(* invariant when what it leaves there, and in the process, agrees.        *)
LEMMA Writing ==
  ASSUME WIInv, NEW p \in Procs, NEW here \in Locations, here = at(p), Past(p), Others(p), DOMAIN store' = Locations,
         \A l \in Locations \ {here} : store'[l] = store[l],
         UNCHANGED <<files, runs, drawn, backed, signed>>, disturbed \subseteq disturbed', disturbed' \subseteq Locations,
         told' \in Seq(Told'), Told \subseteq Told', \A t \in Told' \ Told : t.location = here,
         \A l, b : l # here => (Keeps(l, b)' <=> Keeps(l, b)),
         \/ pc'[p] \in {"do", "add", "put"} /\ cmd'[p] = cmd[p]
         \/ pc'[p] = "idle" /\ cmd'[p] = NoCmd,
         \/ store'[here] = Torn
         \/ IsBook(store'[here]) /\ GoodBook(store'[here][2]) /\ \A a \in ToSet(store'[here][2]) : Known(here, a)',
         MemoryAgrees(p)', here \notin disturbed' => SavesAt(here)', PhrasesAgree'
  PROVE  WIInv'
  <1>1. WTypeOK /\ WTyped /\ BooksAgree /\ MemoriesAgree /\ SendersAgree /\ CreationIsFirst
    BY DEF WIInv
  <1>2. \A q \in Procs \ {p} : /\ pc'[q] = pc[q] /\ cmd'[q] = cmd[q] /\ mem'[q] = mem[q] /\ address'[q] = address[q]
                                /\ mnemonic'[q] = mnemonic[q] /\ at(q)' = at(q)
    BY DEF Others, at
  <1>3. \A l : IsBook(store'[l]) => store'[l] # Torn /\ store'[l] # Absent
    BY DEF IsBook, Torn, Absent
  <1>4. \A l, a : Known(l, a) => Known(l, a)'
    BY DEF Known
  <1>5. \A q \in Procs \ {p} : (Past(q)' <=> Past(q)) /\ (Saving(q)' <=> Saving(q)) /\ (Adding(q)' <=> Adding(q))
    BY <1>2 DEF Past, Saving, Adding
  <1>6. cmd[p] # NoCmd /\ pc[p] # "idle"
    BY <1>1 DEF WTypeOK, Past
  <1>7. at(p)' = here \/ pc'[p] = "idle"
    BY DEF at
  <1>8. WTypeOK'
    <2>1. \A q \in Procs : pc'[q] = "idle" <=> cmd'[q] = NoCmd
      BY <1>1, <1>2, <1>6 DEF WTypeOK
    <2>2. \A l \in Locations : store'[l] \in {Absent, Torn} \/
             (IsBook(store'[l]) /\ \A i, j \in DOMAIN store'[l][2] : store'[l][2][i].addr = store'[l][2][j].addr => i = j)
      BY <1>1 DEF WTypeOK, GoodBook
    <2>3. runs' \in 0..MaxRuns /\ drawn' \subseteq Spoken /\ disturbed' \subseteq Locations
      BY <1>1 DEF WTypeOK
    <2>4. QED
      BY <2>1, <2>2, <2>3 DEF WTypeOK
  <1>9. WTyped'
    <2>1. ASSUME NEW q \in Procs
          PROVE  /\ pc'[q] \in {"idle", "open", "query"} \/ Past(q)'
                 /\ pc'[q] \notin {"idle", "query"} => at(q)' \in Locations
      <3>1. CASE q = p
        BY <1>7, <3>1 DEF Past
      <3>2. CASE q # p
        BY <1>1, <1>2, <1>5, <3>2 DEF WTyped
      <3>3. QED
        BY <3>1, <3>2
    <2>2. DOMAIN files' = Files /\ DOMAIN backed' = Files
      BY <1>1 DEF WTyped
    <2>3. \A t \in Told' : t.location \in Locations
      BY <1>1 DEF WTyped
    <2>4. QED
      BY <2>1, <2>2, <2>3 DEF WTyped, Others
  <1>10. BooksAgree'
    BY <1>1, <1>3, <1>4 DEF BooksAgree
  <1>11. MemoriesAgree'
    <2> SUFFICES ASSUME NEW q \in Procs \ {p} PROVE MemoryAgrees(q)'
      BY DEF MemoriesAgree
    <2>1. MemoryAgrees(q)
      BY <1>1 DEF MemoriesAgree
    <2>2. QED
      BY <1>2, <1>4, <1>5, <2>1 DEF MemoryAgrees
  <1>12. SendersAgree'
    <2> SUFFICES ASSUME NEW q \in Procs \ {p}
                 PROVE  /\ pc'[q] \in {"write", "send"} => ~is_watchonly(address'[q])
                        /\ pc'[q] = "send" => \/ address'[q].addr = cmd'[q].sender[1]
                                               \/ \E t \in Told' : t.location = at(q)' /\ t.label = cmd'[q].sender[1] /\ t.addr = address'[q].addr
      BY DEF SendersAgree
    <2>1. QED
      BY <1>1, <1>2 DEF SendersAgree
  <1>13. CreationIsFirst'
    <2>1. ASSUME NEW l \in Locations, store'[l] = Absent
          PROVE  (\A q \in Procs : Past(q)' => at(q)' # l) /\ \A t \in Told' : t.location # l
      <3>1. l # here /\ store[l] = Absent
        BY <1>3, <2>1 DEF Torn, Absent
      <3>2. (\A q \in Procs : Past(q) => at(q) # l) /\ \A t \in Told : t.location # l
        BY <1>1, <3>1 DEF CreationIsFirst
      <3>3. Past(p)' => at(p)' # l
        BY <1>7, <3>1 DEF Past
      <3>4. QED
        BY <1>2, <1>5, <3>1, <3>2, <3>3
    <2>2. ASSUME NEW q \in Procs, pc'[q] = "new"
          PROVE  /\ store'[at(q)'] = Torn /\ \A t \in Told' : t.location # at(q)'
                 /\ \A r \in Procs \ {q} : Past(r)' => at(r)' # at(q)'
      <3>1. q # p /\ pc[q] = "new" /\ at(q)' = at(q)
        BY <1>2, <2>2
      <3>2. /\ store[at(q)] = Torn /\ (\A t \in Told : t.location # at(q))
            /\ \A r \in Procs \ {q} : Past(r) => at(r) # at(q)
        BY <1>1, <3>1 DEF CreationIsFirst
      <3>3. at(q) # here /\ at(q) \in Locations
        BY <1>1, <3>1, <3>2 DEF WTyped
      <3>4. store'[at(q)] = Torn /\ \A t \in Told' : t.location # at(q)
        BY <3>2, <3>3
      <3>5. Past(p)' => at(p)' # at(q)
        BY <1>7, <3>3 DEF Past
      <3>6. QED
        BY <1>2, <1>5, <3>1, <3>2, <3>4, <3>5
    <2>3. QED
      BY <2>1, <2>2 DEF CreationIsFirst
  <1>14. SavesAgree'
    <2>1. SUFFICES ASSUME NEW l \in Locations \ disturbed' PROVE SavesAt(l)'
      BY DEF SavesAgree
    <2>2. CASE l # here
      <3>1. \A b : Keeps(l, b)' <=> Keeps(l, b)
        BY <2>2
      <3>2. at(p)' = at(p) \/ (~Saving(p)' /\ pc'[p] # "new")
        BY <1>7 DEF Saving
      <3>3. QED
        BY <2>2, <3>1, <3>2, Elsewhere
    <2>3. QED
      BY <2>2
  <1>15. FilesAgree' /\ SignedAsNamed'
    BY DEF WIInv, FilesAgree, SignedAsNamed
  <1>16. QED
    BY <1>8, <1>9, <1>10, <1>11, <1>12, <1>13, <1>14, <1>15 DEF WIInv

LEMMA ToldStays ==
  ASSUME told' = told
  PROVE  /\ Told' = Told /\ \A l, a : Known(l, a)' <=> Known(l, a)
         /\ \A l, b : Keeps(l, b)' <=> Keeps(l, b)
  BY DEF Told, Known, Keeps, IsFirst

(* ... and writes an empty book.                                           *)
LEMMA createKeeps ==
  ASSUME WIInv, NEW p \in Procs, create(p)
  PROVE  WIInv'
  <1>1. WTypeOK /\ WTyped /\ MemoriesAgree /\ CreationIsFirst /\ PhrasesAgree
    BY DEF WIInv
  <1>2. pc[p] = "new" /\ Past(p)
    BY DEF create, Past
  <1>3. PICK here \in Locations : here = at(p)
    BY <1>1, <1>2 DEF WTyped
  <1>4. /\ Others(p) /\ pc'[p] = "do" /\ cmd'[p] = cmd[p] /\ mem'[p] = mem[p] /\ address'[p] = address[p] /\ mnemonic'[p] = mnemonic[p]
        /\ at(p)' = here /\ \A q \in Procs \ {p} : pc'[q] = pc[q] /\ at(q)' = at(q)
    BY <1>1, <1>3 DEF create, Goto, WTyped, Others, at
  <1>5. /\ DOMAIN store' = Locations /\ store'[here] = Book(<<>>) /\ \A l \in Locations \ {here} : store'[l] = store[l]
    BY <1>1, <1>3 DEF WTyped, create
  <1>6. UNCHANGED <<files, runs, drawn, backed, signed>> /\ told' = told /\ disturbed' = disturbed
    BY DEF create
  <1>7. IsBook(Book(<<>>)) /\ Book(<<>>)[2] = <<>> /\ Book(<<>>) # Torn
    BY DEF IsBook, Book, Torn
  <1>8. (\A t \in Told : t.location # here) /\ \A q \in Procs \ {p} : Past(q) => at(q) # here
    BY <1>1, <1>2, <1>3 DEF CreationIsFirst
  <1>9. MemoryAgrees(p)'
    <2>1. MemoryAgrees(p)
      BY <1>1 DEF MemoriesAgree
    <2>2. QED
      BY <1>2, <1>3, <1>4, <1>6, <2>1, ToldStays DEF MemoryAgrees, Adding
  <1>10. SavesAt(here)'
    <2>1. Keeps(here, <<>>)'
      <3>1. Keeps(here, <<>>)
        <4>1. \A i \in DOMAIN told : told[i] \in Told
          BY DEF Told
        <4>2. QED
          BY <1>8, <4>1 DEF Keeps
      <3>2. QED
        BY <1>6, <3>1, ToldStays
    <2>2. Keeps(here, store[here][2])'
      <3>1. store'[here][2] = <<>>
        BY <1>5, <1>7
      <3>2. QED
        BY <2>1, <3>1 DEF Keeps, IsFirst, Means
    <2>3. \A q \in Procs : Saving(q)' => at(q)' # here
      BY <1>4, <1>8 DEF Saving, Past
    <2>4. QED
      BY <1>5, <1>7, <2>2, <2>3 DEF SavesAt
  <1>11. PhrasesAgree' /\ told' \in Seq(Told') /\ Told' = Told /\ \A l, b : Keeps(l, b)' <=> Keeps(l, b)
    BY <1>1, <1>6, ToldStays DEF PhrasesAgree, WTyped
  <1>12. GoodBook(<<>>) /\ \A a \in ToSet(<<>>) : Known(here, a)'
    BY EmptyBook
  <1>13. disturbed' \subseteq Locations
    BY <1>1, <1>6 DEF WTypeOK
  <1>14. QED
    BY <1>2, <1>3, <1>4, <1>5, <1>6, <1>7, <1>9, <1>10, <1>11, <1>12, <1>13, Writing

(* A save starts from what is in the file.                                 *)
LEMMA save_loadKeeps ==
  ASSUME WIInv, NEW p \in Procs, save_load(p)
  PROVE  WIInv'
  <1>1. WTypeOK /\ WTyped /\ BooksAgree /\ MemoriesAgree /\ CreationIsFirst /\ SavesAgree /\ PhrasesAgree
    BY DEF WIInv
  <1>2. pc[p] = "save" /\ Past(p)
    BY DEF save_load, Past
  <1>3. PICK here \in Locations : here = at(p)
    BY <1>1, <1>2 DEF WTyped
  <1>4. /\ Others(p) /\ pc'[p] = "add" /\ cmd'[p] = cmd[p] /\ mem'[p] = load(p) /\ address'[p] = address[p] /\ mnemonic'[p] = mnemonic[p]
        /\ at(p)' = here /\ \A q \in Procs \ {p} : pc'[q] = pc[q] /\ at(q)' = at(q)
    BY <1>1, <1>3 DEF save_load, Goto, WTyped, Others, at
  <1>5. /\ store' = store /\ DOMAIN store' = Locations
    BY <1>1 DEF WTyped, save_load
  <1>6. UNCHANGED <<files, runs, drawn, backed, signed>> /\ told' = told
    BY DEF save_load
  <1>7. /\ disturbed \subseteq disturbed' /\ disturbed' \subseteq disturbed \cup {here}
        /\ here \notin disturbed' => \A q \in Procs \ {p} : Saving(q) => at(q) # here
    BY <1>3 DEF save_load
  <1>8. store[here] # Absent
    BY <1>1, <1>2, <1>3 DEF CreationIsFirst
  <1>9. GoodBook(load(p)) /\ \A a \in ToSet(load(p)) : Known(here, a)
    BY <1>2, <1>3, LoadIsGood
  <1>10. MemoryAgrees(p)'
    <2>1. MemoryAgrees(p)
      BY <1>1 DEF MemoriesAgree
    <2>2. QED
      BY <1>2, <1>4, <1>6, <1>9, <2>1, ToldStays DEF MemoryAgrees, Adding
  <1>11. ASSUME here \notin disturbed' PROVE SavesAt(here)'
    <2>1. SavesAt(here) /\ \A q \in Procs \ {p} : Saving(q) => at(q) # here
      BY <1>1, <1>7, <1>11 DEF SavesAgree
    <2>2. \A q \in Procs : pc[q] \in {"new", "put"} => at(q) # here
      <3>1. ASSUME NEW q \in Procs, pc[q] \in {"new", "put"} PROVE at(q) # here
        <4>1. q # p
          BY <1>2, <3>1
        <4>2. CASE pc[q] = "put"
          BY <2>1, <4>1, <4>2 DEF Saving
        <4>3. CASE pc[q] = "new"
          BY <1>1, <1>2, <1>3, <4>1, <4>3 DEF CreationIsFirst
        <4>4. QED
          BY <3>1, <4>2, <4>3
      <3>2. QED
        BY <3>1
    <2>3. store[here] # Torn
      BY <2>1, <2>2 DEF SavesAt
    <2>4. IsBook(store[here]) /\ load(p) = store[here][2]
      BY <1>1, <1>3, <1>8, <2>3 DEF WTypeOK, load
    <2>5. \A q \in Procs : Saving(q)' /\ at(q)' = here => q = p
      BY <1>4, <2>1 DEF Saving
    <2>6. Keeps(here, store[here][2])'
      BY <1>5, <1>6, <2>1, <2>4, ToldStays DEF SavesAt
    <2>7. QED
      BY <1>4, <1>5, <2>3, <2>4, <2>5, <2>6 DEF SavesAt
  <1>12. PhrasesAgree' /\ told' \in Seq(Told') /\ Told' = Told /\ \A l, b : Keeps(l, b)' <=> Keeps(l, b)
    BY <1>1, <1>6, ToldStays DEF PhrasesAgree, WTyped
  <1>13. store'[here] = Torn \/ (IsBook(store'[here]) /\ GoodBook(store'[here][2]) /\ \A a \in ToSet(store'[here][2]) : Known(here, a)')
    BY <1>1, <1>5, <1>6, <1>8, ToldStays DEF WTypeOK, BooksAgree
  <1>14. disturbed' \subseteq Locations
    BY <1>1, <1>7 DEF WTypeOK
  <1>15. QED
    BY <1>2, <1>3, <1>4, <1>5, <1>6, <1>7, <1>10, <1>11, <1>12, <1>13, <1>14, Writing

(* What is added leaves every name with its meaning.                       *)
LEMMA save_addKeeps ==
  ASSUME WIInv, NEW p \in Procs, save_add(p)
  PROVE  WIInv'
  <1>1. WTypeOK /\ WTyped /\ BooksAgree /\ MemoriesAgree /\ CreationIsFirst /\ SavesAgree /\ PhrasesAgree
    BY DEF WIInv
  <1>2. pc[p] = "add" /\ Past(p) /\ Saving(p)
    BY DEF save_add, Past, Saving
  <1>3. PICK here \in Locations : here = at(p)
    BY <1>1, <1>2 DEF WTyped
  <1>4. PICK book, a : book = mem[p] /\ a = address[p]
    OBVIOUS
  <1>5. /\ Others(p) /\ pc'[p] = "put" /\ cmd'[p] = cmd[p] /\ mem'[p] = add(book, a) /\ address'[p] = a /\ mnemonic'[p] = mnemonic[p]
        /\ at(p)' = here /\ \A q \in Procs \ {p} : pc'[q] = pc[q] /\ at(q)' = at(q)
    BY <1>1, <1>3, <1>4 DEF save_add, Goto, WTyped, Others, at
  <1>6. /\ DOMAIN store' = Locations /\ store'[here] = Torn /\ \A l \in Locations \ {here} : store'[l] = store[l]
    BY <1>1, <1>3 DEF WTyped, save_add
  <1>7. UNCHANGED <<files, runs, drawn, backed, signed>> /\ told' = told /\ disturbed' = disturbed
    BY DEF save_add
  <1>8. MemoryAgrees(p)
    BY <1>1 DEF MemoriesAgree
  <1>9. GoodBook(book) /\ Sound(a) /\ \A e \in ToSet(book) : Known(here, e)
    BY <1>2, <1>3, <1>4, <1>8 DEF MemoryAgrees, Adding
  <1>10. /\ GoodBook(add(book, a))
         /\ \A e \in ToSet(add(book, a)) : e \in ToSet(book) \/ e = a
         /\ get(add(book, a), a.addr) # <<>>
         /\ \A x : get(book, x) # <<>> => get(add(book, a), x) = get(book, x)
    BY <1>9, AddKeeps
  <1>11. MemoryAgrees(p)'
    BY <1>2, <1>4, <1>5, <1>7, <1>8, <1>9, <1>10, ToldStays DEF MemoryAgrees, Adding
  <1>12. ASSUME here \notin disturbed' PROVE SavesAt(here)'
    <2>1. SavesAt(here)
      BY <1>1, <1>7, <1>12 DEF SavesAgree
    <2>2. /\ \A q \in Procs \ {p} : Saving(q) => at(q) # here
          /\ IsBook(store[here]) /\ book = store[here][2] /\ Keeps(here, store[here][2])
      BY <1>2, <1>3, <1>4, <2>1 DEF SavesAt
    <2>3. Keeps(here, add(book, a))
      <3>1. \A i \in DOMAIN told : told[i].location = here =>
               /\ get(book, told[i].addr) # <<>>
               /\ told[i].key /\ ~told[i].shadowed => ~is_watchonly(get(book, told[i].addr)[1])
               /\ IsFirst(i) => Means(book, told[i].label, told[i].addr)
        BY <2>2 DEF Keeps
      <3>2. \A x, y : Means(book, x, y) => Means(add(book, a), x, y)
        BY <1>10 DEF Means
      <3>3. QED
        BY <1>10, <3>1, <3>2 DEF Keeps
    <2>4. Keeps(here, mem[p])'
      <3>1. Keeps(here, add(book, a))'
        BY <1>7, <2>3, ToldStays
      <3>2. QED
        BY <1>5, <3>1 DEF Keeps, IsFirst, Means
    <2>5. \A q \in Procs : Saving(q)' /\ at(q)' = here => q = p
      BY <1>5, <2>2 DEF Saving
    <2>6. ~IsBook(Torn)
      BY DEF IsBook, Torn
    <2>7. QED
      BY <1>5, <1>6, <2>4, <2>5, <2>6 DEF SavesAt
  <1>13. PhrasesAgree' /\ told' \in Seq(Told') /\ Told' = Told /\ \A l, b : Keeps(l, b)' <=> Keeps(l, b)
    BY <1>1, <1>7, ToldStays DEF PhrasesAgree, WTyped
  <1>14. disturbed' \subseteq Locations
    BY <1>1, <1>7 DEF WTypeOK
  <1>15. QED
    BY <1>2, <1>3, <1>5, <1>6, <1>7, <1>11, <1>12, <1>13, <1>14, Writing

(* What is told next leaves what was told before, and what was first is    *)
(* first.                                                                  *)
LEMMA ToldGrows ==
  ASSUME WTyped, NEW t, told' = Append(told, t)
  PROVE  /\ Told' = Told \cup {t} /\ told' \in Seq(Told')
         /\ DOMAIN told = 1..Len(told) /\ Len(told) \in Nat /\ DOMAIN told' = 1..(Len(told) + 1)
         /\ \A i \in DOMAIN told : told'[i] = told[i] /\ (IsFirst(i)' <=> IsFirst(i))
         /\ told'[Len(told) + 1] = t
  <1>1. Told = ToSet(told) /\ Told' = ToSet(told')
    BY DEF Told, ToSet
  <1>2. told \in Seq(ToSet(told))
    BY <1>1 DEF WTyped
  <1>3. /\ Append(told, t) \in Seq(ToSet(Append(told, t)))
        /\ ToSet(Append(told, t)) = ToSet(told) \cup {t}
        /\ DOMAIN told = 1..Len(told) /\ Len(told) \in Nat
        /\ DOMAIN Append(told, t) = 1..(Len(told) + 1)
        /\ \A i \in DOMAIN told : Append(told, t)[i] = told[i]
        /\ Append(told, t)[Len(told) + 1] = t
    BY <1>2, BookAdded, ZenonT(60)
  <1>4. ASSUME NEW i \in DOMAIN told PROVE IsFirst(i)' <=> IsFirst(i)
    <2>1. \A j \in 1..(i - 1) : j \in DOMAIN told
      BY <1>3
    <2>2. QED
      BY <1>3, <2>1 DEF IsFirst
  <1>5. told' \in Seq(ToSet(told')) /\ ToSet(told') = ToSet(told) \cup {t}
    BY <1>3, Zenon DEF ToSet
  <1>6. QED
    BY <1>1, <1>3, <1>4, <1>5

(* The file is written, and the address told to be added.                  *)
LEMMA save_putKeeps ==
  ASSUME WIInv, NEW p \in Procs, save_put(p)
  PROVE  WIInv'
  <1>1. WTypeOK /\ WTyped /\ BooksAgree /\ MemoriesAgree /\ CreationIsFirst /\ SavesAgree /\ PhrasesAgree
    BY DEF WIInv
  <1>2. pc[p] = "put" /\ Past(p) /\ Saving(p)
    BY DEF save_put, Past, Saving
  <1>3. PICK here \in Locations : here = at(p)
    BY <1>1, <1>2 DEF WTyped
  <1>4. PICK book, a, t :
          /\ book = mem[p] /\ a = address[p]
          /\ t = [location |-> here, addr |-> a.addr, label |-> a.label,
                  key |-> ~is_watchonly(a), shadowed |-> is_watchonly(get(book, a.addr)[1]),
                  cmd |-> cmd[p], mnemonic |-> mnemonic[p]]
    OBVIOUS
  <1>5. t.location = here /\ t.addr = a.addr /\ t.label = a.label /\ t.shadowed = is_watchonly(get(book, a.addr)[1])
        /\ t.cmd = cmd[p] /\ t.mnemonic = mnemonic[p]
    BY <1>4
  <1>6. /\ Others(p) /\ pc'[p] = "idle" /\ cmd'[p] = NoCmd /\ mem'[p] = <<>> /\ mnemonic'[p] = <<>>
        /\ \A q \in Procs \ {p} : pc'[q] = pc[q] /\ at(q)' = at(q)
    BY EndedIs DEF save_put, Others, at
  <1>7. /\ DOMAIN store' = Locations /\ store'[here] = Book(book) /\ \A l \in Locations \ {here} : store'[l] = store[l]
    BY <1>1, <1>3, <1>4 DEF WTyped, save_put
  <1>8. UNCHANGED <<files, runs, drawn, backed, signed>> /\ told' = Append(told, t) /\ disturbed' = disturbed
    BY <1>3, <1>4 DEF save_put
  <1>9. IsBook(Book(book)) /\ Book(book)[2] = book /\ Book(book) # Torn
    BY DEF IsBook, Book, Torn
  <1>10. /\ Told' = Told \cup {t} /\ told' \in Seq(Told')
         /\ DOMAIN told = 1..Len(told) /\ Len(told) \in Nat /\ DOMAIN told' = 1..(Len(told) + 1)
         /\ \A i \in DOMAIN told : told'[i] = told[i] /\ (IsFirst(i)' <=> IsFirst(i))
         /\ told'[Len(told) + 1] = t
    BY <1>1, <1>8, ToldGrows
  <1>11. /\ GoodBook(book) /\ get(book, a.addr) # <<>>
         /\ \A e \in ToSet(book) : Known(here, e) \/ e = a
         /\ mnemonic[p] # <<>> /\ cmd[p].label = "sr25519" =>
               a.addr = <<"addr", "sr25519", <<"key", mnemonic[p][1], cmd[p].password>>>>
    BY <1>1, <1>2, <1>3, <1>4 DEF MemoriesAgree, MemoryAgrees
  <1>12. \A e \in ToSet(book) : Known(here, e)'
    BY <1>5, <1>10, <1>11 DEF Known
  <1>13. MemoryAgrees(p)'
    <2>1. ~Adding(p)' /\ pc'[p] \notin {"write", "send", "put"}
      BY <1>6 DEF Adding
    <2>2. GoodBook(mem'[p]) /\ \A e \in ToSet(mem'[p]) : FALSE
      BY <1>6, EmptyBook
    <2>3. QED
      BY <1>6, <2>1, <2>2 DEF MemoryAgrees
  <1>14. ASSUME NEW l, NEW b, l # here PROVE Keeps(l, b)' <=> Keeps(l, b)
    <2>1. \A i \in DOMAIN told' : i \in DOMAIN told \/ told'[i].location = here
      BY <1>5, <1>10
    <2>2. \A i \in DOMAIN told : i \in DOMAIN told'
      BY <1>10
    <2>3. QED
      BY <1>10, <1>14, <2>1, <2>2 DEF Keeps
  <1>15. ASSUME here \notin disturbed PROVE SavesAt(here)'
    <2>1. SavesAt(here)
      BY <1>1, <1>15 DEF SavesAgree
    <2>2. /\ \A q \in Procs \ {p} : Saving(q) => at(q) # here
          /\ Keeps(here, book)
      BY <1>2, <1>3, <1>4, <2>1 DEF SavesAt
    <2>3. ASSUME NEW i \in DOMAIN told', told'[i].location = here
          PROVE  /\ get(book, told'[i].addr) # <<>>
                 /\ told'[i].key /\ ~told'[i].shadowed => ~is_watchonly(get(book, told'[i].addr)[1])
                 /\ IsFirst(i)' => Means(book, told'[i].label, told'[i].addr)
      <3>1. CASE i \in DOMAIN told
        BY <1>10, <2>2, <2>3, <3>1 DEF Keeps
      <3>2. CASE i = Len(told) + 1
        <4>1. told'[i] = t
          BY <1>10, <3>2
        <4>2. get(book, t.addr) # <<>> /\ (~t.shadowed => ~is_watchonly(get(book, t.addr)[1]))
          BY <1>5, <1>11
        <4>3. ASSUME IsFirst(i)' PROVE Means(book, t.label, t.addr)
          <5>1. ASSUME NEW e \in ToSet(book), Known(here, e) PROVE {e.addr, e.label} \cap {a.addr, a.label} = {}
            <6>1. PICK j \in DOMAIN told : told[j].location = here /\ told[j].addr = e.addr /\ told[j].label = e.label
              BY <5>1 DEF Known, Told
            <6>2. j \in 1..(i - 1) /\ told'[j] = told[j]
              BY <1>10, <3>2, <6>1
            <6>3. QED
              BY <1>5, <4>1, <4>3, <6>1, <6>2 DEF IsFirst
          <5>2. \A e \in ToSet(book) : {e.addr, e.label} \cap {a.addr, a.label} # {} => e = a
            BY <1>11, <5>1
          <5>3. a \in ToSet(book)
            <6>1. get(book, a.addr)[1] \in ToSet(book) /\ a.addr \in {get(book, a.addr)[1].label, get(book, a.addr)[1].addr}
              BY <1>11, EntryFound
            <6>2. QED
              BY <5>2, <6>1
          <5>4. get(book, a.label) # <<>>
            <6>1. book \in Seq(ToSet(book))
              BY <1>11 DEF GoodBook
            <6>2. QED
              BY <5>3, <6>1, Found
          <5>5. get(book, a.label)[1] = a
            <6>1. get(book, a.label)[1] \in ToSet(book) /\ a.label \in {get(book, a.label)[1].label, get(book, a.label)[1].addr}
              BY <1>11, <5>4, EntryFound
            <6>2. QED
              BY <5>2, <6>1
          <5>6. QED
            BY <1>5, <5>4, <5>5 DEF Means
        <4>4. QED
          BY <4>1, <4>2, <4>3
      <3>3. QED
        BY <1>10, <3>1, <3>2
    <2>4. Keeps(here, book)'
      BY <2>3 DEF Keeps
    <2>5. Keeps(here, store[here][2])'
      <3>1. store'[here][2] = book
        BY <1>7, <1>9
      <3>2. QED
        BY <2>4, <3>1 DEF Keeps, IsFirst, Means
    <2>6. \A q \in Procs : Saving(q)' => at(q)' # here
      BY <1>6, <2>2 DEF Saving
    <2>7. QED
      BY <1>7, <1>9, <2>5, <2>6 DEF SavesAt
  <1>16. PhrasesAgree'
    BY <1>1, <1>5, <1>10, <1>11 DEF PhrasesAgree
  <1>17. disturbed' \subseteq Locations /\ disturbed \subseteq disturbed' /\ \A s \in Told' \ Told : s.location = here
    BY <1>1, <1>5, <1>8, <1>10 DEF WTypeOK
  <1>18. Told \subseteq Told' /\ told' \in Seq(Told') /\ \A l, b : l # here => (Keeps(l, b)' <=> Keeps(l, b))
    BY <1>10, <1>14
  <1>19. here \notin disturbed' => SavesAt(here)'
    BY <1>8, <1>15
  <1>20. store'[here] = Torn \/ (IsBook(store'[here]) /\ GoodBook(store'[here][2]) /\ \A e \in ToSet(store'[here][2]) : Known(here, e)')
    BY <1>7, <1>9, <1>11, <1>12
  <1>21. QED
    BY <1>2, <1>3, <1>6, <1>7, <1>8, <1>13, <1>16, <1>17, <1>18, <1>19, <1>20, Writing

LEMMA InitWIInv == WInit => WIInv
  <1> SUFFICES ASSUME WInit PROVE WIInv
    OBVIOUS
  <1>1. Told = {} /\ told = <<>>
    BY DEF WInit, Told
  <1>2. ~IsBook(Absent) /\ Absent # Torn
    BY DEF IsBook, Absent, Torn
  <1>3. \A p \in Procs : pc[p] = "idle" /\ cmd[p] = NoCmd /\ mem[p] = <<>> /\ mnemonic[p] = <<>> /\ ~Past(p) /\ ~Saving(p) /\ ~Adding(p)
    BY DEF WInit, Past, Saving, Adding
  <1>4. \A l \in Locations : store[l] = Absent
    BY DEF WInit
  <1>5. WTypeOK
    BY <1>3, <1>4, WalletStoreAssumption DEF WInit, WTypeOK
  <1>6. WTyped
    BY <1>1, <1>3 DEF WInit, WTyped
  <1>7. BooksAgree /\ CreationIsFirst /\ SavesAgree
    BY <1>1, <1>2, <1>3, <1>4 DEF BooksAgree, CreationIsFirst, SavesAgree, SavesAt
  <1>8. MemoriesAgree
    BY <1>3, EmptyBook DEF MemoriesAgree, MemoryAgrees
  <1>9. SendersAgree
    BY <1>3 DEF SendersAgree
  <1>10. FilesAgree
    <2>1. ASSUME NEW f \in Files, files[f] # <<>> PROVE Genuine(files[f][1], backed[f])
      <3>1. f \in DOMAIN Fixtures
        BY <2>1 DEF WInit
      <3>2. files[f] = <<Fixtures[f].keystore>> /\ backed[f] = Fixtures[f].password
        BY <3>1 DEF WInit
      <3>3. files[f][1] = Fixtures[f].keystore
        BY <3>2
      <3>4. QED
        BY <3>1, <3>2, <3>3, WalletStoreAssumption
    <2>2. QED
      BY <2>1 DEF FilesAgree
  <1>11. PhrasesAgree /\ SignedAsNamed
    BY <1>1 DEF WInit, PhrasesAgree, SignedAsNamed
  <1>12. QED
    BY <1>5, <1>6, <1>7, <1>8, <1>9, <1>10, <1>11 DEF WIInv

LEMMA StepWIInv == WIInv /\ [WNext]_wvars => WIInv'
  <1> SUFFICES ASSUME WIInv, [WNext]_wvars PROVE WIInv'
    OBVIOUS
  <1>1. ASSUME NEW p \in Procs, NEW request, Enter(p, request), OnWallets(request), pc[p] = "idle", runs < MaxRuns, DOMAIN argv' = Procs
        PROVE  WIInv'
    BY <1>1, EnterKeeps
  <1>2. ASSUME NEW p \in Procs, NEW typed \in Lines, Main(p, typed) PROVE WIInv'
    BY <1>1, <1>2, WalletStoreAssumption DEF Main, WIInv, WTyped
  <1>3. ASSUME NEW p \in Procs, NEW request \in Requests, Http(p, request) PROVE WIInv'
    BY <1>1, <1>3, WalletStoreAssumption DEF Http, WIInv, WTyped
  <1>4. ASSUME NEW p \in Procs, init(p) PROVE WIInv'
    <2>1. CASE End(p)
      BY <1>4, <2>1, EndStep DEF init
    <2>2. QED
      BY <1>4, <2>1, CreatingKeeps, OpenKeeps DEF init
  <1>5. ASSUME NEW p \in Procs, list_wallet(p) \/ check_balance(p) PROVE WIInv'
    BY <1>5, EndStep DEF list_wallet, check_balance, Do
  <1>6. ASSUME NEW p \in Procs, Step(p) PROVE WIInv'
    BY <1>4, <1>5, <1>6, createKeeps, get_walletKeeps, watch_walletKeeps, restore_walletKeeps, backupKeeps, backup_writeKeeps,
       run_transactionKeeps, transferKeeps, save_loadKeeps, save_addKeeps, save_putKeeps DEF Step
  <1>7. ASSUME UNCHANGED wvars PROVE WIInv'
    <2>1. /\ store' = store /\ files' = files /\ pc' = pc /\ argv' = argv /\ cmd' = cmd /\ mem' = mem /\ address' = address
          /\ mnemonic' = mnemonic /\ runs' = runs /\ drawn' = drawn /\ told' = told /\ disturbed' = disturbed /\ backed' = backed /\ signed' = signed
      BY <1>7 DEF wvars
    <2>2. /\ Told' = Told /\ \A l, a : Known(l, a)' <=> Known(l, a)
          /\ \A l, b : Keeps(l, b)' <=> Keeps(l, b)
      BY <2>1, ToldStays
    <2>3. \A q : (Past(q)' <=> Past(q)) /\ (Saving(q)' <=> Saving(q)) /\ (Adding(q)' <=> Adding(q)) /\ at(q)' = at(q)
      BY <2>1 DEF Past, Saving, Adding, at
    <2>4. WTypeOK' /\ WTyped'
      BY <2>1, <2>2, <2>3 DEF WIInv, WTypeOK, WTyped
    <2>5. BooksAgree' /\ SendersAgree' /\ CreationIsFirst'
      BY <2>1, <2>2, <2>3 DEF WIInv, BooksAgree, SendersAgree, CreationIsFirst
    <2>6. MemoriesAgree'
      BY <2>1, <2>2, <2>3 DEF WIInv, MemoriesAgree, MemoryAgrees
    <2>7. SavesAgree'
      BY <2>1, <2>2, <2>3 DEF WIInv, SavesAgree, SavesAt
    <2>8. FilesAgree' /\ PhrasesAgree' /\ SignedAsNamed'
      BY <2>1, <2>2 DEF WIInv, FilesAgree, PhrasesAgree, SignedAsNamed
    <2>9. QED
      BY <2>4, <2>5, <2>6, <2>7, <2>8 DEF WIInv
  <1>8. QED
    BY <1>2, <1>3, <1>6, <1>7, crashKeeps DEF WNext

(* Every state of the wallets has the invariant.                           *)
THEOREM WalletInvariant == WSpec => []WIInv
  <1>1. WIInv /\ [WNext]_wvars => WIInv'
    BY StepWIInv
  <1>2. QED
    BY <1>1, InitWIInv, PTL DEF WSpec

(* The wallet file keeps what it was given, and names and transfers mean   *)
(* what they say.                                                          *)
THEOREM WalletStaysRight == WSpec => []WalletIsRight
  <1>1. WIInv => WalletIsRight
    <2> SUFFICES ASSUME WIInv PROVE WalletIsRight
      OBVIOUS
    <2>1. WTypeOK /\ SignedAsNamed /\ SavesAgree /\ CreationIsFirst
      BY DEF WIInv
    <2>2. ASSUME NEW i \in DOMAIN told, Settled(told[i].location)
          PROVE  /\ Entry(told[i]) # <<>>
                 /\ told[i].key /\ ~told[i].shadowed => ~is_watchonly(Entry(told[i])[1])
                 /\ IsFirst(i) => Means(store[told[i].location][2], told[i].label, told[i].addr)
      <3>1. PICK l : l = told[i].location
        OBVIOUS
      <3>2. l \in Locations
        BY <3>1 DEF WIInv, WTyped, Told
      <3>3. SavesAt(l) /\ IsBook(store[l])
        BY <2>1, <2>2, <3>1, <3>2 DEF SavesAgree, Settled
      <3>4. Keeps(l, store[l][2])
        BY <3>3 DEF SavesAt
      <3>5. QED
        BY <3>1, <3>4 DEF Keeps, Entry
    <2>3. QED
      BY <2>1, <2>2 DEF WalletIsRight, KeysAreKept, KeyUnlessWatched, NameMeansTheFirst, Told
  <1>2. QED
    BY <1>1, WalletInvariant, PTL

(* A backup restores its address and a phrase leads back to its own.       *)
THEOREM BackupsStayRight == WSpec => []BackupsAreRight
  <1>1. WIInv => BackupsAreRight
    <2> SUFFICES ASSUME WIInv PROVE BackupsAreRight
      OBVIOUS
    <2>1. ASSUME NEW f \in Files, files[f] # <<>>
          PROVE  from_keystore(files[f][1], backed[f]) # <<>> /\ from_keystore(files[f][1], backed[f])[1].addr = files[f][1].address
      <3>1. Genuine(files[f][1], backed[f])
        BY <2>1 DEF WIInv, FilesAgree
      <3>2. QED
        BY <3>1, RestoreIsSound
    <2>2. RecoveredIsSame
      BY DEF WIInv, PhrasesAgree, RecoveredIsSame
    <2>3. QED
      BY <2>1, <2>2 DEF BackupsAreRight, BackupRestores
  <1>2. QED
    BY <1>1, WalletInvariant, PTL

-----------------------------------------------------------------------------
(* Stellar *)

(* A fold over a finite set: there is the function that computes it.  step *)
(* adds one element, the one ch chooses, to what the others come to.       *)
Chooses(ch, S) == \A s \in SUBSET S : s # {} => ch[s] \in s
Accumulates(step, S, V) == \A x \in S, y \in V : step[<<x, y>>] \in V
FoldsUp(f, S, V, base, ch, step) ==
    f \in [SUBSET S -> V] /\ \A s \in SUBSET S : f[s] = IF s = {} THEN base ELSE step[<<ch[s], f[s \ {ch[s]}]>>]

LEMMA FoldExists ==
  ASSUME NEW S, IsFiniteSet(S), NEW V, NEW base \in V, NEW ch, NEW step, Chooses(ch, S), Accumulates(step, S, V)
  PROVE  \E f : FoldsUp(f, S, V, base, ch, step)
  <1> USE DEF Chooses, Accumulates
  <1> DEFINE Value(f, s) == IF s = {} THEN base ELSE step[<<ch[s], f[s \ {ch[s]}]>>]
             Good(n) == {f \in [SUBSET S -> V] : \A s \in SUBSET S : Cardinality(s) <= n => f[s] = Value(f, s)}
             Bad == {n \in Nat : Good(n) = {}}
  <1>1. \A s \in SUBSET S : IsFiniteSet(s) /\ Cardinality(s) \in Nat
    BY FS_Subset, FS_CardinalityType
  <1>2. \A s \in SUBSET S : s # {} => Cardinality(s \ {ch[s]}) = Cardinality(s) - 1
    BY <1>1, FS_RemoveElement
  <1>3. Bad = {}
    <2>1. SUFFICES ASSUME Bad # {} PROVE FALSE
      OBVIOUS
    <2>2. PICK n \in Bad : \A m \in Bad : n <= m
      BY <2>1, LeastNumber
    <2>3. n \in Nat /\ Good(n) = {}
      BY <2>2
    <2>4. CASE n = 0
      <3>1. PICK f : f = [s \in SUBSET S |-> base]
        OBVIOUS
      <3>2. ASSUME NEW s \in SUBSET S, Cardinality(s) <= 0 PROVE f[s] = Value(f, s)
        <4>1. Cardinality(s) = 0
          BY <1>1, <3>2
        <4>2. s = {}
          BY <1>1, <4>1, FS_EmptySet
        <4>3. QED
          BY <3>1, <4>2
      <3>3. f \in [SUBSET S -> V]
        BY <3>1
      <3>4. f \in Good(0)
        BY <3>2, <3>3
      <3>5. QED
        BY <2>3, <2>4, <3>4
    <2>5. CASE n # 0
      <3>1. n - 1 \in Nat /\ ~ (n <= n - 1)
        BY <2>3, <2>5
      <3>2. PICK g : g \in Good(n - 1)
        BY <2>2, <3>1
      <3>3. g \in [SUBSET S -> V] /\ \A s \in SUBSET S : Cardinality(s) <= n - 1 => g[s] = Value(g, s)
        BY <3>2
      <3>4. PICK f : f = [s \in SUBSET S |-> Value(g, s)]
        OBVIOUS
      <3>5. ASSUME NEW s \in SUBSET S PROVE Value(g, s) \in V
        <4>1. CASE s = {}
          BY <4>1
        <4>2. CASE s # {}
          <5>1. ch[s] \in S /\ s \ {ch[s]} \in SUBSET S
            BY <4>2
          <5>2. g[s \ {ch[s]}] \in V
            BY <3>3, <5>1
          <5>3. step[<<ch[s], g[s \ {ch[s]}]>>] \in V
            BY <5>1, <5>2
          <5>4. QED
            BY <4>2, <5>3
        <4>3. QED
          BY <4>1, <4>2
      <3>6. f \in [SUBSET S -> V] /\ \A s \in SUBSET S : f[s] = Value(g, s)
        BY <3>4, <3>5
      <3>7. ASSUME NEW s \in SUBSET S, Cardinality(s) <= n PROVE f[s] = Value(f, s)
        <4>1. CASE s = {}
          BY <3>6, <4>1
        <4>2. CASE s # {}
          <5>1. PICK t : t = s \ {ch[s]}
            OBVIOUS
          <5>2. t \in SUBSET S /\ Cardinality(t) <= n - 1
            BY <1>1, <1>2, <2>3, <3>7, <4>2, <5>1
          <5>3. g[t] = f[t]
            BY <3>3, <3>6, <5>2
          <5>4. QED
            BY <3>6, <4>2, <5>1, <5>3
        <4>3. QED
          BY <4>1, <4>2
      <3>8. f \in Good(n)
        BY <3>6, <3>7
      <3>9. QED
        BY <2>3, <3>8
    <2>6. QED
      BY <2>4, <2>5
  <1>4. Cardinality(S) \in Nat
    BY <1>1
  <1>5. PICK f : f \in Good(Cardinality(S))
    BY <1>3, <1>4
  <1>6. f \in [SUBSET S -> V] /\ \A s \in SUBSET S : Cardinality(s) <= Cardinality(S) => f[s] = Value(f, s)
    BY <1>5
  <1>7. \A s \in SUBSET S : Cardinality(s) <= Cardinality(S)
    BY FS_Subset
  <1>8. QED
    BY <1>6, <1>7 DEF FoldsUp

(* A set of positions has a last one.                                      *)
LEMMA GreatestNumber ==
  ASSUME NEW n \in Nat, NEW S, S \subseteq 1..n, S # {}
  PROVE  Max(S) \in S
  <1> DEFINE Above == {m \in Nat : \A x \in S : x <= m}
  <1>1. n \in Above
    OBVIOUS
  <1>2. PICK m \in Above : \A k \in Above : m <= k
    BY <1>1, LeastNumber
  <1>3. m \in Nat /\ \A x \in S : x <= m /\ x \in Nat \ {0}
    BY <1>2
  <1>4. m \in S
    <2>1. SUFFICES ASSUME m \notin S PROVE FALSE
      OBVIOUS
    <2>2. PICK x \in S : TRUE
      OBVIOUS
    <2>3. m - 1 \in Nat
      BY <1>3, <2>2
    <2>4. \A y \in S : y <= m - 1
      BY <1>3, <2>1
    <2>5. m - 1 \in Above
      BY <2>3, <2>4
    <2>6. QED
      BY <1>2, <1>3, <2>5
  <1>5. \E x \in S : \A y \in S : x >= y
    BY <1>3, <1>4
  <1>6. QED
    BY <1>5 DEF Max

(* The amount a text of digits stands for is a number.                     *)
LEMMA AmountIs ==
  ASSUME NEW digits \in Seq(0..9)
  PROVE  Amount(digits) \in Nat
  <1>1. PICK n \in Nat : DOMAIN digits = 1..n /\ \A i \in 1..n : digits[i] \in 0..9
    OBVIOUS
  <1>2. PICK S : S = 1..n
    OBVIOUS
  <1>3. PICK ch : ch = [s \in SUBSET S |-> Max(s)]
    OBVIOUS
  <1>4. PICK step : step = [p \in S \X Nat |-> 10 * p[2] + digits[p[1]]]
    OBVIOUS
  <1>5. \A s \in SUBSET S : s # {} => ch[s] \in s /\ ch[s] = Max(s)
    BY <1>2, <1>3, GreatestNumber
  <1>6. \A x \in S, y \in Nat : step[<<x, y>>] = 10 * y + digits[x] /\ step[<<x, y>>] \in Nat
    <2>1. SUFFICES ASSUME NEW x \in S, NEW y \in Nat PROVE step[<<x, y>>] = 10 * y + digits[x] /\ step[<<x, y>>] \in Nat
      OBVIOUS
    <2>2. step[<<x, y>>] = 10 * y + digits[x]
      BY <1>4
    <2>3. digits[x] \in 0..9
      BY <1>1, <1>2
    <2>4. 10 * y + digits[x] \in Nat
      BY <2>3
    <2>5. QED
      BY <2>2, <2>4
  <1>7. IsFiniteSet(S)
    BY <1>2, FS_Interval
  <1>7a. PICK f : FoldsUp(f, S, Nat, 0, ch, step)
    <2>1. Chooses(ch, S) /\ Accumulates(step, S, Nat)
      BY <1>5, <1>6 DEF Chooses, Accumulates
    <2>2. QED
      BY <1>7, <2>1, FoldExists
  <1>8. f \in [SUBSET S -> Nat] /\ \A s \in SUBSET S : f[s] = IF s = {} THEN 0 ELSE step[<<ch[s], f[s \ {ch[s]}]>>]
    BY <1>7a DEF FoldsUp
  <1> DEFINE Folds(g) == g = [s \in SUBSET S |-> IF s = {} THEN 0 ELSE 10 * g[s \ {Max(s)}] + digits[Max(s)]]
  <1>9. Folds(f)
    <2>1. ASSUME NEW s \in SUBSET S PROVE f[s] = IF s = {} THEN 0 ELSE 10 * f[s \ {Max(s)}] + digits[Max(s)]
      <3>1. CASE s = {}
        BY <1>8, <3>1
      <3>2. CASE s # {}
        <4>1. ch[s] \in S /\ f[s \ {ch[s]}] \in Nat /\ ch[s] = Max(s)
          BY <1>5, <1>8, <3>2
        <4>2. QED
          BY <1>6, <1>8, <3>2, <4>1
      <3>3. QED
        BY <3>1, <3>2
    <2>2. f = [s \in SUBSET S |-> f[s]]
      BY <1>8
    <2>3. QED
      BY <2>1, <2>2
  <1>10. ASSUME NEW g, Folds(g) PROVE g[S] \in Nat
    <2> DEFINE Bad == {m \in Nat : \E s \in SUBSET S : Cardinality(s) = m /\ g[s] \notin Nat}
    <2>1. \A s \in SUBSET S : IsFiniteSet(s) /\ Cardinality(s) \in Nat
      BY <1>7, FS_Subset, FS_CardinalityType
    <2>2. Bad = {}
      <3>1. SUFFICES ASSUME Bad # {} PROVE FALSE
        OBVIOUS
      <3>2. PICK m \in Bad : \A k \in Bad : m <= k
        BY <3>1, LeastNumber
      <3>3. PICK s \in SUBSET S : Cardinality(s) = m /\ g[s] \notin Nat
        BY <3>2
      <3>4. g[s] = IF s = {} THEN 0 ELSE 10 * g[s \ {Max(s)}] + digits[Max(s)]
        BY <1>10
      <3>5. s # {}
        BY <3>3, <3>4
      <3>6. Max(s) \in s /\ s \ {Max(s)} \in SUBSET S /\ Cardinality(s \ {Max(s)}) = m - 1
        <4>1. Max(s) \in s
          BY <1>5, <3>5
        <4>2. IsFiniteSet(s)
          BY <2>1
        <4>3. Cardinality(s \ {Max(s)}) = Cardinality(s) - 1
          BY <4>1, <4>2, FS_RemoveElement
        <4>4. QED
          BY <3>3, <4>1, <4>3
      <3>7. m \in Nat /\ m - 1 \in Nat
        BY <2>1, <3>2, <3>3, <3>6
      <3>8. g[s \ {Max(s)}] \in Nat
        BY <3>2, <3>6, <3>7
      <3>9. digits[Max(s)] \in 0..9
        BY <1>1, <1>2, <3>6
      <3>10. QED
        BY <3>3, <3>4, <3>5, <3>8, <3>9, SMTT(30)
    <2>3. QED
      BY <2>1, <2>2
  <1>11. PICK F : F = CHOOSE g : Folds(g)
    OBVIOUS
  <1>12. Folds(F)
    BY <1>9, <1>11
  <1>13. Amount(digits) = F[S]
    BY <1>1, <1>2, <1>11 DEF Amount, FoldLeft, MapThenFoldSet
  <1>14. QED
    BY <1>10, <1>12, <1>13

(* The sum of the amounts of some jobs: nothing for none of them, and one  *)
(* amount more for one job more.                                           *)
AddsUp(S, g) == g = [s \in SUBSET S |-> IF s = {} THEN 0
                                        ELSE LET x == CHOOSE x \in s : TRUE IN Amount(Asks[x].amount) + g[s \ {x}]]

LEMMA AddsUpIs ==
  ASSUME NEW S, NEW g, AddsUp(S, g)
  PROVE  /\ g[{}] = 0
         /\ \A s \in SUBSET S : s # {} => \E x \in s : g[s] = Amount(Asks[x].amount) + g[s \ {x}]
  <1>1. \A s \in SUBSET S : g[s] = IF s = {} THEN 0
                                   ELSE Amount(Asks[CHOOSE x \in s : TRUE].amount) + g[s \ {CHOOSE x \in s : TRUE}]
    BY DEF AddsUp
  <1>2. ASSUME NEW s \in SUBSET S, s # {} PROVE \E x \in s : g[s] = Amount(Asks[x].amount) + g[s \ {x}]
    <2>1. PICK c : c = CHOOSE x \in s : TRUE
      OBVIOUS
    <2>2. c \in s
      BY <1>2, <2>1
    <2>3. g[s] = Amount(Asks[c].amount) + g[s \ {c}]
      BY <1>1, <1>2, <2>1
    <2>4. QED
      BY <2>2, <2>3
  <1>3. QED
    BY <1>1, <1>2

LEMMA AmountsAre ==
  ASSUME NEW j \in Jobs
  PROVE  Amount(Asks[j].amount) \in Nat
  BY StellarAssumption, AmountIs

LEMMA SumIs ==
  ASSUME NEW S, S \subseteq Jobs, IsFiniteSet(S)
  PROVE  \E g : AddsUp(S, g) /\ Sum(S) = g[S]
  <1>1. PICK ch : ch = [s \in SUBSET S |-> CHOOSE x \in s : TRUE]
    OBVIOUS
  <1>2. PICK step : step = [p \in S \X Nat |-> Amount(Asks[p[1]].amount) + p[2]]
    OBVIOUS
  <1>3. \A s \in SUBSET S : s # {} => ch[s] \in s
    BY <1>1
  <1>4. ASSUME NEW x \in S, NEW y \in Nat PROVE step[<<x, y>>] = Amount(Asks[x].amount) + y /\ step[<<x, y>>] \in Nat
    <2>1. step[<<x, y>>] = Amount(Asks[x].amount) + y
      BY <1>2
    <2>2. Amount(Asks[x].amount) \in Nat
      BY AmountsAre
    <2>3. QED
      BY <2>1, <2>2
  <1>4a. PICK f : FoldsUp(f, S, Nat, 0, ch, step)
    <2>1. Chooses(ch, S) /\ Accumulates(step, S, Nat)
      BY <1>3, <1>4 DEF Chooses, Accumulates
    <2>2. QED
      BY <2>1, FoldExists
  <1>5. f \in [SUBSET S -> Nat] /\ \A s \in SUBSET S : f[s] = IF s = {} THEN 0 ELSE step[<<ch[s], f[s \ {ch[s]}]>>]
    BY <1>4a DEF FoldsUp
  <1>6. AddsUp(S, f)
    <2>1. ASSUME NEW s \in SUBSET S
          PROVE  f[s] = IF s = {} THEN 0 ELSE LET x == CHOOSE x \in s : TRUE IN Amount(Asks[x].amount) + f[s \ {x}]
      <3>1. CASE s = {}
        BY <1>5, <3>1
      <3>2. CASE s # {}
        <4>1. ch[s] \in S /\ f[s \ {ch[s]}] \in Nat /\ ch[s] = CHOOSE x \in s : TRUE
          BY <1>1, <1>3, <1>5, <3>2
        <4>2. f[s] = Amount(Asks[ch[s]].amount) + f[s \ {ch[s]}]
          BY <1>4, <1>5, <3>2, <4>1
        <4>3. QED
          BY <3>2, <4>1, <4>2
      <3>3. QED
        BY <3>1, <3>2
    <2>2. f = [s \in SUBSET S |-> f[s]]
      BY <1>5
    <2>3. QED
      BY <2>1, <2>2 DEF AddsUp
  <1>7. PICK F : F = CHOOSE g : AddsUp(S, g)
    OBVIOUS
  <1>8. AddsUp(S, F)
    BY <1>6, <1>7
  <1>9. Sum(S) = F[S]
    BY <1>7 DEF Sum, MapThenSumSet, MapThenFoldSet, AddsUp
  <1>10. QED
    BY <1>8, <1>9

(* Whichever element is taken out first, the sum is the same.              *)
LEMMA AddsUpAnyhow ==
  ASSUME NEW S, S \subseteq Jobs, IsFiniteSet(S), NEW g, AddsUp(S, g)
  PROVE  \A s \in SUBSET S : /\ g[s] \in Nat
                             /\ \A x \in s : g[s] = Amount(Asks[x].amount) + g[s \ {x}]
  <1> DEFINE Right(s) == /\ g[s] \in Nat
                         /\ \A x \in s : g[s] = Amount(Asks[x].amount) + g[s \ {x}]
             Bad == {m \in Nat : \E s \in SUBSET S : Cardinality(s) = m /\ ~ Right(s)}
  <1>1. \A s \in SUBSET S : IsFiniteSet(s) /\ Cardinality(s) \in Nat
    BY FS_Subset, FS_CardinalityType
  <1>2. ASSUME NEW s \in SUBSET S, NEW x \in s PROVE Cardinality(s \ {x}) = Cardinality(s) - 1
    <2>1. IsFiniteSet(s)
      BY <1>1
    <2>2. QED
      BY <2>1, FS_RemoveElement
  <1>3. Bad = {}
    <2>1. SUFFICES ASSUME Bad # {} PROVE FALSE
      OBVIOUS
    <2>2. PICK m \in Bad : \A k \in Bad : m <= k
      BY <2>1, LeastNumber
    <2>3. PICK s \in SUBSET S : Cardinality(s) = m /\ ~ Right(s)
      BY <2>2
    <2>4. ASSUME NEW t \in SUBSET S, Cardinality(t) < m PROVE Right(t)
      BY <1>1, <2>2, <2>4
    <2>5. s # {}
      <3>1. CASE s = {}
        <4>1. g[s] = 0
          BY <3>1, AddsUpIs
        <4>2. QED
          BY <2>3, <3>1, <4>1
      <3>2. QED
        BY <3>1
    <2>6. PICK c \in s : g[s] = Amount(Asks[c].amount) + g[s \ {c}]
      BY <2>5, AddsUpIs
    <2>7. m \in Nat /\ s \in SUBSET S
      BY <1>1, <2>3
    <2>8. Right(s \ {c})
      <3>1. s \ {c} \in SUBSET S
        BY <2>7
      <3>2. Cardinality(s \ {c}) < m
        BY <1>2, <2>3, <2>7
      <3>3. QED
        BY <2>4, <3>1, <3>2
    <2>9. Amount(Asks[c].amount) \in Nat
      BY <2>7, AmountsAre
    <2>10. g[s] \in Nat
      BY <2>6, <2>8, <2>9
    <2>11. ASSUME NEW x \in s PROVE g[s] = Amount(Asks[x].amount) + g[s \ {x}]
      <3>1. CASE x = c
        BY <2>6, <3>1
      <3>2. CASE x # c
        <4>1. PICK t : t = (s \ {c}) \ {x}
          OBVIOUS
        <4>2. g[s \ {c}] = Amount(Asks[x].amount) + g[t]
          BY <2>8, <3>2, <4>1
        <4>3. Right(s \ {x})
          <5>1. s \ {x} \in SUBSET S
            BY <2>7
          <5>2. Cardinality(s \ {x}) < m
            BY <1>2, <2>3, <2>7
          <5>3. QED
            BY <2>4, <5>1, <5>2
        <4>4. g[s \ {x}] = Amount(Asks[c].amount) + g[t]
          <5>1. (s \ {x}) \ {c} = t /\ c \in s \ {x}
            BY <3>2, <4>1
          <5>2. QED
            BY <4>3, <5>1
        <4>5. Right(t)
          <5>1. t \in SUBSET S /\ x \in s \ {c} /\ s \ {c} \in SUBSET S
            BY <2>7, <3>2, <4>1
          <5>2. Cardinality(t) = Cardinality(s \ {c}) - 1 /\ Cardinality(s \ {c}) = Cardinality(s) - 1
            BY <1>2, <4>1, <5>1
          <5>3. Cardinality(t) < m
            BY <2>3, <2>7, <5>2
          <5>4. QED
            BY <2>4, <5>1, <5>3
        <4>6. Amount(Asks[x].amount) \in Nat /\ g[t] \in Nat
          BY <2>7, <4>5, AmountsAre
        <4>7. QED
          BY <2>6, <2>9, <4>2, <4>4, <4>6
      <3>3. QED
        BY <3>1, <3>2
    <2>12. QED
      BY <2>3, <2>10, <2>11
  <1>4. QED
    BY <1>1, <1>3

LEMMA AddsUpAlike ==
  ASSUME NEW S, NEW T, S \subseteq T, T \subseteq Jobs, IsFiniteSet(T), NEW f, AddsUp(S, f), NEW g, AddsUp(T, g)
  PROVE  \A s \in SUBSET S : f[s] = g[s]
  <1> DEFINE Bad == {m \in Nat : \E s \in SUBSET S : Cardinality(s) = m /\ f[s] # g[s]}
  <1>1. IsFiniteSet(S) /\ \A s \in SUBSET S : IsFiniteSet(s) /\ Cardinality(s) \in Nat
    BY FS_Subset, FS_CardinalityType
  <1>2. Bad = {}
    <2>1. SUFFICES ASSUME Bad # {} PROVE FALSE
      OBVIOUS
    <2>2. PICK m \in Bad : \A k \in Bad : m <= k
      BY <2>1, LeastNumber
    <2>3. PICK s \in SUBSET S : Cardinality(s) = m /\ f[s] # g[s]
      BY <2>2
    <2>4. s # {}
      BY <2>3, AddsUpIs
    <2>5. PICK c \in s : f[s] = Amount(Asks[c].amount) + f[s \ {c}]
      BY <2>4, AddsUpIs
    <2>6. g[s] = Amount(Asks[c].amount) + g[s \ {c}]
      <3>1. s \in SUBSET T
        OBVIOUS
      <3>2. QED
        BY <3>1, AddsUpAnyhow
    <2>7. f[s \ {c}] = g[s \ {c}]
      <3>1. s \ {c} \in SUBSET S
        OBVIOUS
      <3>2. IsFiniteSet(s) /\ Cardinality(s) \in Nat /\ Cardinality(s \ {c}) \in Nat
        BY <1>1, <3>1
      <3>3. Cardinality(s \ {c}) = Cardinality(s) - 1
        BY <3>2, FS_RemoveElement
      <3>4. Cardinality(s \ {c}) \notin Bad
        <4>1. ~ (m <= Cardinality(s \ {c}))
          BY <2>3, <3>2, <3>3
        <4>2. QED
          BY <2>2, <4>1
      <3>5. QED
        BY <3>1, <3>2, <3>4
    <2>8. QED
      BY <2>3, <2>5, <2>6, <2>7
  <1>3. QED
    BY <1>1, <1>2

LEMMA SumAdded ==
  ASSUME NEW S, S \subseteq Jobs, IsFiniteSet(S), NEW j \in Jobs, j \notin S
  PROVE  Sum(S) \in Nat /\ Sum(S \cup {j}) = Amount(Asks[j].amount) + Sum(S)
  <1>1. PICK T : T = S \cup {j}
    OBVIOUS
  <1>2. T \subseteq Jobs /\ IsFiniteSet(T) /\ S \subseteq T /\ T \ {j} = S
    BY <1>1, FS_AddElement
  <1>3. PICK f : AddsUp(S, f) /\ Sum(S) = f[S]
    BY SumIs
  <1>4. PICK g : AddsUp(T, g) /\ Sum(T) = g[T]
    BY <1>2, SumIs
  <1>5. f[S] = g[S]
    BY <1>2, <1>3, <1>4, AddsUpAlike
  <1>6. g[T] = Amount(Asks[j].amount) + g[T \ {j}]
    BY <1>1, <1>2, <1>4, AddsUpAnyhow
  <1>7. f[S] \in Nat
    BY <1>3, AddsUpAnyhow
  <1>8. QED
    BY <1>1, <1>2, <1>3, <1>4, <1>5, <1>6, <1>7

LEMMA SumOfNone == Sum({}) = 0
  <1>1. IsFiniteSet({}) /\ {} \subseteq Jobs
    BY FS_EmptySet
  <1>2. PICK g : AddsUp({}, g) /\ Sum({}) = g[{}]
    BY <1>1, SumIs
  <1>3. QED
    BY <1>2, AddsUpIs

(* What holds of every request by itself.                                  *)
Fits(j, r) ==
    /\ r \in [at : {"idle", "no issuer", "issuer", "submitted", "ended"}, seq : Nat,
              outcome : {"none", "pending", "applied", "failed"}, answer : Answers]
    /\ (r.at = "ended") = (r.answer # "none")
    /\ r.answer \in {"completed", "successfully added", "Successfully adding whitelist"} => r.outcome = "applied"
    /\ r.answer = "insufficient" \/ (r.answer = "ERROR" /\ Kind(j) # "acceptasset") => r.outcome = "none"
    /\ r.at \in {"idle", "no issuer", "issuer"} => r.outcome = "none"
    /\ Kind(j) = "createwallet" /\ r.at = "ended" /\ r.answer # "wallet" => r.outcome = "none"

LEMMA JobFits ==
  ASSUME StIInv, NEW j \in Jobs
  PROVE  Fits(j, job[j])
  BY DEF StIInv, StTypeOK, StTyped, CompletedIsApplied, RefusedStaysAway, Unsent, Fits

LEMMA JobChanged ==
  ASSUME StIInv, NEW j \in Jobs, NEW r, job' = [job EXCEPT ![j] = r]
  PROVE  job'[j] = r /\ \A k \in Jobs : k # j => job'[k] = job[k]
  BY DEF StIInv, StTyped

(* A step of one request leaves the others as they were.                   *)
LEMMA JobStep ==
  ASSUME StIInv, NEW j \in Jobs, NEW r, Fits(j, r), job' = [job EXCEPT ![j] = r],
         DOMAIN sequence \subseteq DOMAIN sequence', \A a \in DOMAIN sequence' : sequence'[a] \in Nat,
         line' \in [DOMAIN sequence' -> TrustLine \cup {NoLine}]
  PROVE  /\ StTypeOK' /\ StTyped' /\ CompletedIsApplied' /\ RefusedStaysAway' /\ Unsent' /\ FewApplied'
  <1>1. \A k \in Jobs : Fits(k, job'[k])
    <2>1. SUFFICES ASSUME NEW k \in Jobs PROVE Fits(k, job'[k])
      OBVIOUS
    <2>2. CASE k = j
      BY <2>2, JobChanged
    <2>3. CASE k # j
      BY <2>3, JobChanged, JobFits
    <2>4. QED
      BY <2>2, <2>3
  <1>2. StTypeOK'
    <2>1. DOMAIN line' = DOMAIN sequence' /\ DOMAIN Holders \subseteq DOMAIN sequence'
      BY DEF StIInv, StTypeOK
    <2>2. \A a \in DOMAIN line' : sequence'[a] \in Nat /\ (line'[a] # NoLine => line'[a].balance \in Nat)
      <3>1. \A x \in TrustLine : x.balance \in Nat
        BY DEF TrustLine
      <3>2. QED
        BY <2>1, <3>1
    <2>3. \A k \in Jobs : /\ job'[k].outcome \in {"none", "pending", "applied", "failed"}
                          /\ (job'[k].at = "ended") = (job'[k].answer # "none")
      BY <1>1 DEF Fits
    <2>4. QED
      BY <2>1, <2>2, <2>3 DEF StTypeOK
  <1>3. StTyped'
    <2>1. job' \in [Jobs -> [at : {"idle", "no issuer", "issuer", "submitted", "ended"}, seq : Nat,
                             outcome : {"none", "pending", "applied", "failed"}, answer : Answers]]
      <3>1. job' = [k \in Jobs |-> job'[k]]
        BY DEF StIInv, StTyped
      <3>2. QED
        BY <1>1, <3>1 DEF Fits
    <2>2. QED
      BY <2>1 DEF StTyped
  <1>4. CompletedIsApplied' /\ RefusedStaysAway' /\ Unsent'
    BY <1>1 DEF Fits, CompletedIsApplied, RefusedStaysAway, Unsent
  <1>5. FewApplied'
    <2>1. PICK A : A = {k \in Jobs : job[k].outcome = "applied"} /\ IsFiniteSet(A)
      BY DEF StIInv, FewApplied
    <2>2. IsFiniteSet(A \cup {j})
      BY <2>1, FS_AddElement
    <2>3. {k \in Jobs : job'[k].outcome = "applied"} \subseteq A \cup {j}
      BY <2>1, JobChanged
    <2>4. QED
      BY <2>2, <2>3, FS_Subset DEF FewApplied
  <1>6. QED
    BY <1>2, <1>3, <1>4, <1>5

(* A step that applies no payment leaves the payments that were.           *)
LEMMA AppliedKept ==
  ASSUME StIInv, NEW j \in Jobs, NEW r, job' = [job EXCEPT ![j] = r],
         Kind(j) # "sendpayment" \/ (r.outcome = "applied" <=> job[j].outcome = "applied"),
         NEW a, NEW end
  PROVE  Applied(a, end)' = Applied(a, end)
  <1>1. \A k \in Jobs : Kind(k) = "sendpayment" => (job'[k].outcome = "applied" <=> job[k].outcome = "applied")
    BY JobChanged
  <1>2. QED
    BY <1>1 DEF Applied

LEMMA SumOfNext ==
  ASSUME NEW a, NEW end, NEW S, Applied(a, end)' = S
  PROVE  Sum(Applied(a, end))' = Sum(S)
  BY DEF Sum, MapThenSumSet, MapThenFoldSet

(* The steps of the service leave the ledger alone.                        *)
LEMMA ServiceStep ==
  ASSUME StIInv, NEW j \in Jobs, NEW r, Fits(j, r), job' = [job EXCEPT ![j] = r],
         sequence' = sequence, line' = line, r.outcome = "applied" <=> job[j].outcome = "applied"
  PROVE  StIInv'
  <1>1. StTypeOK' /\ StTyped' /\ CompletedIsApplied' /\ RefusedStaysAway' /\ Unsent' /\ FewApplied'
    <2>1. DOMAIN sequence \subseteq DOMAIN sequence' /\ line' \in [DOMAIN sequence' -> TrustLine \cup {NoLine}]
      BY DEF StIInv, StTyped
    <2>2. \A a \in DOMAIN sequence' : sequence'[a] \in Nat
      BY DEF StIInv, StTypeOK
    <2>3. QED
      BY <2>1, <2>2, JobStep
  <1>2. AppliedOnce'
    <2>1. SUFFICES ASSUME NEW a \in DOMAIN Holders, Holders[a] # NoLine
                   PROVE  line[a].balance + Sum(Applied(a, "source"))' = Holders[a].balance + Sum(Applied(a, "to"))'
      BY DEF AppliedOnce
    <2>2. Applied(a, "source")' = Applied(a, "source") /\ Applied(a, "to")' = Applied(a, "to")
      BY AppliedKept
    <2>3. Sum(Applied(a, "source"))' = Sum(Applied(a, "source")) /\ Sum(Applied(a, "to"))' = Sum(Applied(a, "to"))
      BY <2>2, SumOfNext
    <2>4. QED
      BY <2>1, <2>3 DEF StIInv, AppliedOnce
  <1>3. CreatedByItsJob'
    BY JobChanged DEF StIInv, CreatedByItsJob, Exists
  <1>4. LinesStay'
    BY DEF StIInv, LinesStay
  <1>5. QED
    BY <1>1, <1>2, <1>3, <1>4 DEF StIInv

(* The answer to a request, by what was thrown or returned.                *)
LEMMA AnswersAre ==
  ASSUME NEW j \in Jobs
  PROVE  /\ Answer(j, Threw(j)) \in Answers \ {"none", "completed", "successfully added", "Successfully adding whitelist"}
         /\ \A ok \in BOOLEAN :
              LET reply == Answer(j, Returned(j, ok))
              IN /\ reply \in Answers \ {"none", "insufficient"}
                 /\ reply \in {"completed", "successfully added", "Successfully adding whitelist"} => ok
                 /\ reply = "ERROR" => Kind(j) = "acceptasset"
                 /\ Kind(j) = "createwallet" => reply = "wallet"
  <1>1. CASE Kind(j) = "createwallet"
    <2>1. \A x : Answer(j, x) = createwallet(x)
      BY <1>1 DEF Answer
    <2>2. \A ok \in BOOLEAN : Returned(j, ok) = CreateWallet(ok)
      BY <1>1 DEF Returned
    <2>3. Threw(j) = Rejected
      BY <1>1 DEF Threw
    <2>4. QED
      BY <1>1, <2>1, <2>2, <2>3 DEF createwallet, CreateWallet, Rejected, Answers
  <1>2. CASE Kind(j) = "acceptasset"
    <2>1. \A x : Answer(j, x) = acceptasset(x)
      BY <1>2 DEF Answer
    <2>2. \A ok \in BOOLEAN : Returned(j, ok) = AcceptAsset(ok)
      BY <1>2 DEF Returned
    <2>3. Threw(j) = Rejected
      BY <1>2 DEF Threw
    <2>4. QED
      BY <1>2, <2>1, <2>2, <2>3 DEF acceptasset, AcceptAsset, Rejected, Answers
  <1>3. CASE Kind(j) = "sendpayment"
    <2>1. \A x : Answer(j, x) = sendpayment(x)
      BY <1>3 DEF Answer
    <2>2. \A ok \in BOOLEAN : Returned(j, ok) = SendPayment(ok)
      BY <1>3 DEF Returned
    <2>3. Threw(j) = Rejected
      BY <1>3 DEF Threw
    <2>4. QED
      BY <1>3, <2>1, <2>2, <2>3 DEF sendpayment, SendPayment, Rejected, Answers
  <1>4. CASE Kind(j) = "feecharge"
    <2>1. \A x : Answer(j, x) = feecharge(x)
      BY <1>4 DEF Answer
    <2>2. \A ok \in BOOLEAN : Returned(j, ok) = FeeCharge(ok)
      BY <1>4 DEF Returned
    <2>3. Threw(j) = Rejected
      BY <1>4 DEF Threw
    <2>4. QED
      BY <1>4, <2>1, <2>2, <2>3 DEF feecharge, FeeCharge, Rejected, Answers
  <1>5. CASE Kind(j) = "whitelist"
    <2>1. \A x : Answer(j, x) = whitelist(x)
      BY <1>5 DEF Answer
    <2>2. \A ok \in BOOLEAN : Returned(j, ok) = allowTrust(ok)
      BY <1>5 DEF Returned
    <2>3. Threw(j) = allowTrust(FALSE)
      BY <1>5 DEF Threw
    <2>4. QED
      BY <1>5, <2>1, <2>2, <2>3 DEF whitelist, allowTrust, Rejected, Answers
  <1>6. QED
    BY <1>1, <1>2, <1>3, <1>4, <1>5, StellarAssumption DEF Kind

LEMMA InitStIInv ==
  ASSUME StInit
  PROVE  StIInv
  <1> USE DEF StInit
  <1>1. \A j \in Jobs : job[j] = SInitial /\ job[j].outcome = "none"
    BY DEF SInitial
  <1>2. StTypeOK
    <2>1. \A a \in DOMAIN Holders : line[a] # NoLine => line[a].balance \in Nat
      BY StellarAssumption DEF TrustLine
    <2>2. QED
      BY <1>1, <2>1 DEF StTypeOK, SInitial
  <1>3. StTyped
    <2>1. line \in [DOMAIN sequence -> TrustLine \cup {NoLine}]
      BY StellarAssumption
    <2>2. SInitial \in [at : {"idle", "no issuer", "issuer", "submitted", "ended"}, seq : Nat,
                        outcome : {"none", "pending", "applied", "failed"}, answer : Answers]
      BY DEF SInitial, Answers
    <2>3. QED
      BY <2>1, <2>2 DEF StTyped
  <1>4. CompletedIsApplied /\ RefusedStaysAway /\ Unsent
    BY <1>1 DEF CompletedIsApplied, RefusedStaysAway, Unsent, SInitial
  <1>5. \A a, end : Applied(a, end) = {}
    BY <1>1 DEF Applied
  <1>6. AppliedOnce
    <2>1. SUFFICES ASSUME NEW a \in DOMAIN Holders, Holders[a] # NoLine
                   PROVE  line[a].balance + Sum(Applied(a, "source")) = Holders[a].balance + Sum(Applied(a, "to"))
      BY DEF AppliedOnce
    <2>2. Sum(Applied(a, "source")) = 0 /\ Sum(Applied(a, "to")) = 0
      BY <1>5, SumOfNone
    <2>3. QED
      BY <2>2
  <1>7. CreatedByItsJob
    BY StellarAssumption DEF CreatedByItsJob, Exists, Kind
  <1>8. LinesStay
    BY DEF LinesStay
  <1>9. FewApplied
    BY <1>1, FS_EmptySet DEF FewApplied
  <1>10. QED
    BY <1>2, <1>3, <1>4, <1>6, <1>7, <1>8, <1>9 DEF StIInv

(* A request that ends: the record of it.                                  *)
LEMMA RequestEnded ==
  ASSUME StIInv, NEW j \in Jobs, NEW reply \in Answers \ {"none"}, Ends(j, reply), sequence' = sequence, line' = line,
         reply \in {"completed", "successfully added", "Successfully adding whitelist"} => job[j].outcome = "applied",
         reply = "insufficient" \/ (reply = "ERROR" /\ Kind(j) # "acceptasset") => job[j].outcome = "none",
         Kind(j) = "createwallet" /\ reply # "wallet" => job[j].outcome = "none"
  PROVE  StIInv'
  <1>1. PICK r : r = [job[j] EXCEPT !.at = "ended", !.answer = reply]
    OBVIOUS
  <1>2. Fits(j, job[j])
    BY JobFits
  <1>3. r.at = "ended" /\ r.answer = reply /\ r.outcome = job[j].outcome
        /\ r \in [at : {"idle", "no issuer", "issuer", "submitted", "ended"}, seq : Nat,
                  outcome : {"none", "pending", "applied", "failed"}, answer : Answers]
    BY <1>1, <1>2 DEF Fits
  <1>4. Fits(j, r)
    BY <1>3 DEF Fits
  <1>5. job' = [job EXCEPT ![j] = r]
    BY <1>1 DEF Ends, StIInv, StTyped
  <1>6. QED
    BY <1>3, <1>4, <1>5, ServiceStep

LEMMA GetIssuerStIInv ==
  ASSUME StIInv, NEW j \in Jobs, GetIssuer(j)
  PROVE  StIInv'
  <1>1. Fits(j, job[j]) /\ job[j].at = "idle" /\ job[j].outcome = "none" /\ Kind(j) = "sendpayment"
        /\ sequence' = sequence /\ line' = line
    BY JobFits DEF GetIssuer, Fits
  <1>2. \/ Reaches(j, "no issuer") \/ Reaches(j, "issuer")
        \/ Ends(j, sendpayment("insufficient")) \/ Ends(j, sendpayment(Rejected))
    <2>1. PICK issuer : issuer = FirstLine(Asks[j].source)
      OBVIOUS
    <2>2. PICK less \in BOOLEAN : less = Before(issuer.balance, Asks[j].amount)
      BY DEF Before
    <2>3. QED
      BY <2>1, <2>2 DEF GetIssuer
  <1>3. ASSUME NEW to \in {"no issuer", "issuer"}, Reaches(j, to) PROVE StIInv'
    <2>1. PICK r : r = [job[j] EXCEPT !.at = to]
      OBVIOUS
    <2>2. r.at = to /\ r.answer = job[j].answer /\ r.outcome = job[j].outcome
          /\ r \in [at : {"idle", "no issuer", "issuer", "submitted", "ended"}, seq : Nat,
                    outcome : {"none", "pending", "applied", "failed"}, answer : Answers]
      BY <1>1, <2>1 DEF Fits
    <2>3. Fits(j, r)
      BY <1>1, <2>2 DEF Fits
    <2>4. job' = [job EXCEPT ![j] = r]
      BY <1>3, <2>1 DEF Reaches, StIInv, StTyped
    <2>5. QED
      BY <1>1, <2>2, <2>3, <2>4, ServiceStep
  <1>4. sendpayment("insufficient") = "insufficient" /\ sendpayment(Rejected) = "ERROR"
    BY DEF sendpayment, Rejected
  <1>5. ASSUME NEW reply \in {"insufficient", "ERROR"}, Ends(j, reply) PROVE StIInv'
    <2>1. reply \in Answers \ {"none"} /\ ~ (reply \in {"completed", "successfully added", "Successfully adding whitelist"})
      BY <1>5 DEF Answers
    <2>2. QED
      BY <1>1, <1>5, <2>1, RequestEnded
  <1>6. QED
    BY <1>2, <1>3, <1>4, <1>5

LEMMA LoadAccountStIInv ==
  ASSUME StIInv, NEW j \in Jobs, loadAccount(j)
  PROVE  StIInv'
  <1>1. Fits(j, job[j]) /\ job[j].outcome = "none" /\ sequence' = sequence /\ line' = line
    BY JobFits DEF loadAccount, Ready, Fits
  <1>2. PICK r : r = [at |-> "submitted", seq |-> sequence[Asks[j].source] + 1, outcome |-> "pending", answer |-> "none"]
    OBVIOUS
  <1>3. sequence[Asks[j].source] + 1 \in Nat
    BY DEF loadAccount, Exists, StIInv, StTypeOK
  <1>3a. r.at = "submitted" /\ r.answer = "none" /\ r.outcome = "pending"
        /\ r \in [at : {"idle", "no issuer", "issuer", "submitted", "ended"}, seq : Nat,
                  outcome : {"none", "pending", "applied", "failed"}, answer : Answers]
    BY <1>2, <1>3 DEF Answers
  <1>4. Fits(j, r)
    BY <1>3a DEF Fits
  <1>5. job' = [job EXCEPT ![j] = r]
    BY <1>2 DEF loadAccount, Submits
  <1>6. QED
    BY <1>1, <1>3a, <1>4, <1>5, ServiceStep

LEMMA LoadAccountThrowsStIInv ==
  ASSUME StIInv, NEW j \in Jobs, loadAccount_throws(j)
  PROVE  StIInv'
  <1>1. Fits(j, job[j]) /\ job[j].outcome = "none" /\ sequence' = sequence /\ line' = line /\ Ends(j, Answer(j, Threw(j)))
    BY JobFits DEF loadAccount_throws, Ready, Fits
  <1>2. PICK reply : reply = Answer(j, Threw(j))
                    /\ reply \in Answers \ {"none", "completed", "successfully added", "Successfully adding whitelist"}
    BY AnswersAre
  <1>3. QED
    BY <1>1, <1>2, RequestEnded

LEMMA SubmitStIInv ==
  ASSUME StIInv, NEW j \in Jobs, submitTransaction(j) \/ submitTransaction_lost(j)
  PROVE  StIInv'
  <1>1. PICK ok \in BOOLEAN : /\ Ends(j, Answer(j, Returned(j, ok))) /\ (ok => job[j].outcome = "applied")
                              /\ sequence' = sequence /\ line' = line
    BY DEF submitTransaction, submitTransaction_lost
  <1>2. PICK reply : reply = Answer(j, Returned(j, ok)) /\ reply \in Answers \ {"none", "insufficient"}
                    /\ (reply \in {"completed", "successfully added", "Successfully adding whitelist"} => ok)
                    /\ (reply = "ERROR" => Kind(j) = "acceptasset")
                    /\ (Kind(j) = "createwallet" => reply = "wallet")
    BY AnswersAre
  <1>3. QED
    BY <1>1, <1>2, RequestEnded

LEMMA RefuseStIInv ==
  ASSUME StIInv, NEW j \in Jobs, refuse(j)
  PROVE  StIInv'
  <1>1. Fits(j, job[j]) /\ job[j].outcome = "pending" /\ sequence' = sequence /\ line' = line
    BY JobFits DEF refuse, Turn
  <1>2. PICK r : r = [job[j] EXCEPT !.outcome = "failed"]
    OBVIOUS
  <1>3. r.at = job[j].at /\ r.answer = job[j].answer /\ r.outcome = "failed"
        /\ r \in [at : {"idle", "no issuer", "issuer", "submitted", "ended"}, seq : Nat,
                  outcome : {"none", "pending", "applied", "failed"}, answer : Answers]
    BY <1>1, <1>2 DEF Fits
  <1>4. Fits(j, r)
    BY <1>1, <1>3 DEF Fits
  <1>5. job' = [job EXCEPT ![j] = r]
    BY <1>2 DEF refuse, StIInv, StTyped
  <1>6. QED
    BY <1>1, <1>3, <1>4, <1>5, ServiceStep

LEMMA LineIs ==
  ASSUME StIInv
  PROVE  /\ DOMAIN line = DOMAIN sequence /\ line \in [DOMAIN sequence -> TrustLine \cup {NoLine}]
         /\ DOMAIN Holders \subseteq DOMAIN sequence /\ \A a \in DOMAIN sequence : sequence[a] \in Nat
         /\ \A a \in DOMAIN line : line[a] # NoLine => line[a] \in TrustLine
         /\ \A a \in DOMAIN Holders : Holders[a] # NoLine => line[a] # NoLine
  BY DEF StIInv, StTypeOK, StTyped, LinesStay

(* What a transaction does to the lines, if it can: accounts and lines     *)
(* stay, and only a payment changes a balance there was.                   *)
LEMMA EffectIs ==
  ASSUME StIInv, NEW j \in Jobs, Possible(j), NEW after, after = Effect(j)
  PROVE  LET src == Asks[j].source  to == Asks[j].to  amount == Amount(Asks[j].amount)
         IN /\ after \in [(IF Kind(j) = "createwallet" THEN DOMAIN sequence \cup {to} ELSE DOMAIN sequence) -> TrustLine \cup {NoLine}]
            /\ \A a \in DOMAIN line : line[a] # NoLine =>
                 /\ after[a] # NoLine
                 /\ Kind(j) # "sendpayment" => after[a].balance = line[a].balance
                 /\ Kind(j) = "sendpayment" =>
                      after[a].balance = line[a].balance - (IF a = src THEN amount ELSE 0) + (IF a = to THEN amount ELSE 0)
  <1>1. PICK src, to, amount : src = Asks[j].source /\ to = Asks[j].to /\ amount = Amount(Asks[j].amount)
    OBVIOUS
  <1>2. /\ line \in [DOMAIN sequence -> TrustLine \cup {NoLine}] /\ DOMAIN line = DOMAIN sequence /\ src \in DOMAIN line
        /\ amount \in Nat
    BY <1>1, LineIs, AmountsAre, StellarAssumption
  <1>3. NoLine \notin TrustLine /\ \A x \in TrustLine : x.balance \in Nat /\ x.allowed \in BOOLEAN
    BY StellarAssumption DEF TrustLine
  <1>4. CASE Kind(j) = "createwallet"
    <2>1. after = [b \in DOMAIN line \cup {to} |-> IF b = to THEN NoLine ELSE line[b]]
      BY <1>1, <1>4 DEF Effect, With
    <2>2. to \notin DOMAIN line
      BY <1>1, <1>2, <1>4 DEF Possible, Exists
    <2>3. after \in [DOMAIN sequence \cup {to} -> TrustLine \cup {NoLine}]
      BY <1>2, <2>1, <2>2
    <2>4. \A a \in DOMAIN line : after[a] = line[a]
      BY <2>1, <2>2
    <2>5. QED
      BY <1>1, <1>4, <2>3, <2>4
  <1>5. CASE Kind(j) = "acceptasset"
    <2>1. PICK fresh : fresh = [balance |-> 0, allowed |-> FALSE] /\ fresh \in TrustLine
      <3>1. [balance |-> 0, allowed |-> FALSE] \in TrustLine
        BY DEF TrustLine
      <3>2. QED
        BY <3>1
    <2>2. after = IF line[src] = NoLine THEN [line EXCEPT ![src] = fresh] ELSE line
      BY <1>1, <1>5, <2>1 DEF Effect
    <2>3. after \in [DOMAIN sequence -> TrustLine \cup {NoLine}]
      BY <1>2, <2>1, <2>2
    <2>4. \A a \in DOMAIN line : line[a] # NoLine => after[a] = line[a]
      BY <1>2, <2>2
    <2>5. QED
      BY <1>1, <1>5, <2>3, <2>4
  <1>6. CASE Kind(j) = "sendpayment"
    <2>1. /\ to \in DOMAIN line /\ line[src] \in TrustLine /\ line[to] \in TrustLine /\ amount <= line[src].balance
      BY <1>1, <1>2, <1>6 DEF Possible, Holds, Funded, Exists
    <2>2. PICK paid : paid = [line EXCEPT ![src].balance = @ - amount] /\ after = [paid EXCEPT ![to].balance = @ + amount]
      BY <1>1, <1>6 DEF Effect
    <2>3. PICK x : x = [line[src] EXCEPT !.balance = line[src].balance - amount]
      OBVIOUS
    <2>4. x \in TrustLine /\ x.balance = line[src].balance - amount
      BY <1>2, <2>1, <2>3 DEF TrustLine
    <2>5. paid = [line EXCEPT ![src] = x]
      BY <1>2, <2>2, <2>3
    <2>6. paid \in [DOMAIN sequence -> TrustLine \cup {NoLine}] /\ paid[src] = x /\ \A a \in DOMAIN line : a # src => paid[a] = line[a]
      BY <1>2, <2>4, <2>5
    <2>7. paid[to] \in TrustLine
      BY <2>1, <2>4, <2>6
    <2>8. PICK y : y = [paid[to] EXCEPT !.balance = paid[to].balance + amount]
      OBVIOUS
    <2>9. y \in TrustLine /\ y.balance = paid[to].balance + amount
      BY <1>2, <2>7, <2>8 DEF TrustLine
    <2>10. after = [paid EXCEPT ![to] = y]
      BY <2>2, <2>8, <2>6
    <2>11. after \in [DOMAIN sequence -> TrustLine \cup {NoLine}] /\ after[to] = y /\ \A a \in DOMAIN line : a # to => after[a] = paid[a]
      BY <1>2, <2>1, <2>6, <2>9, <2>10
    <2>12. ASSUME NEW a \in DOMAIN line, line[a] # NoLine
           PROVE  /\ after[a] # NoLine
                  /\ after[a].balance = line[a].balance - (IF a = src THEN amount ELSE 0) + (IF a = to THEN amount ELSE 0)
      <3>1. line[a] \in TrustLine /\ line[a].balance \in Nat
        BY <1>2, <1>3, <2>12
      <3>2. paid[a] \in TrustLine /\ paid[a].balance = line[a].balance - (IF a = src THEN amount ELSE 0)
        <4>1. CASE a = src
          BY <2>4, <2>6, <4>1
        <4>2. CASE a # src
          BY <1>2, <2>6, <3>1, <4>2
        <4>3. QED
          BY <4>1, <4>2
      <3>3. after[a] \in TrustLine /\ after[a].balance = paid[a].balance + (IF a = to THEN amount ELSE 0)
        <4>1. CASE a = to
          BY <2>9, <2>11, <4>1
        <4>2. CASE a # to
          <5>1. paid[a].balance \in Nat
            BY <1>3, <3>2
          <5>2. QED
            BY <2>11, <2>12, <3>2, <4>2, <5>1
        <4>3. QED
          BY <4>1, <4>2
      <3>4. QED
        BY <1>3, <3>2, <3>3
    <2>13. QED
      BY <1>1, <1>6, <2>11, <2>12
  <1>7. CASE Kind(j) = "whitelist"
    <2>1. to \in DOMAIN line /\ line[to] \in TrustLine
      BY <1>1, <1>2, <1>7 DEF Possible, Exists
    <2>2. PICK x : x = [line[to] EXCEPT !.allowed = TRUE]
      OBVIOUS
    <2>3. x \in TrustLine /\ x.balance = line[to].balance
      BY <2>1, <2>2 DEF TrustLine
    <2>4. after = [line EXCEPT ![to] = x]
      BY <1>1, <1>2, <1>7, <2>2 DEF Effect
    <2>5. after \in [DOMAIN sequence -> TrustLine \cup {NoLine}] /\ after[to] = x /\ \A a \in DOMAIN line : a # to => after[a] = line[a]
      BY <1>2, <2>1, <2>3, <2>4
    <2>6. \A a \in DOMAIN line : line[a] # NoLine => after[a] # NoLine /\ after[a].balance = line[a].balance
      <3>1. SUFFICES ASSUME NEW a \in DOMAIN line, line[a] # NoLine
                     PROVE  after[a] # NoLine /\ after[a].balance = line[a].balance
        OBVIOUS
      <3>2. CASE a = to
        BY <1>3, <2>3, <2>5, <3>2
      <3>3. CASE a # to
        BY <2>5, <3>1, <3>3
      <3>4. QED
        BY <3>2, <3>3
    <2>7. QED
      BY <1>1, <1>7, <2>5, <2>6
  <1>8. CASE Kind(j) = "feecharge"
    <2>1. after = line
      BY <1>8 DEF Effect
    <2>2. QED
      BY <1>1, <1>2, <1>8, <2>1
  <1>9. QED
    BY <1>4, <1>5, <1>6, <1>7, <1>8, StellarAssumption DEF Kind

(* A transaction is applied or fails, and counts either way.               *)
LEMMA ApplyStIInv ==
  ASSUME StIInv, NEW j \in Jobs, apply(j)
  PROVE  StIInv'
  <1>1. PICK src, to, amount : src = Asks[j].source /\ to = Asks[j].to /\ amount = Amount(Asks[j].amount)
    OBVIOUS
  <1>2. PICK r : r = [job[j] EXCEPT !.outcome = IF Possible(j) THEN "applied" ELSE "failed"]
    OBVIOUS
  <1>3. Fits(j, job[j]) /\ job[j].outcome = "pending"
    BY JobFits DEF apply, Turn
  <1>4. r.at = job[j].at /\ r.answer = job[j].answer /\ r.outcome = (IF Possible(j) THEN "applied" ELSE "failed")
        /\ r \in [at : {"idle", "no issuer", "issuer", "submitted", "ended"}, seq : Nat,
                  outcome : {"none", "pending", "applied", "failed"}, answer : Answers]
    BY <1>2, <1>3 DEF Fits
  <1>5. Fits(j, r)
    BY <1>3, <1>4 DEF Fits
  <1>6. job' = [job EXCEPT ![j] = r] /\ job'[j] = r /\ \A k \in Jobs : k # j => job'[k] = job[k]
    <2>1. job' = [job EXCEPT ![j] = r]
      BY <1>2 DEF apply, StIInv, StTyped
    <2>2. QED
      BY <2>1, JobChanged
  <1>7. /\ DOMAIN line = DOMAIN sequence /\ line \in [DOMAIN sequence -> TrustLine \cup {NoLine}]
        /\ DOMAIN Holders \subseteq DOMAIN sequence /\ \A a \in DOMAIN sequence : sequence[a] \in Nat
        /\ \A a \in DOMAIN Holders : Holders[a] # NoLine => line[a] # NoLine
        /\ src \in DOMAIN Holders /\ amount \in Nat
    BY <1>1, LineIs, AmountsAre, StellarAssumption
  <1>8. PICK counted : counted = [sequence EXCEPT ![src] = @ + 1]
    OBVIOUS
  <1>9. DOMAIN counted = DOMAIN sequence /\ \A a \in DOMAIN counted : counted[a] \in Nat
    BY <1>7, <1>8
  <1>10. /\ DOMAIN sequence' = (IF Kind(j) = "createwallet" /\ Possible(j) THEN DOMAIN sequence \cup {to} ELSE DOMAIN sequence)
         /\ \A a \in DOMAIN sequence' : sequence'[a] \in Nat
    <2>1. sequence' = IF Kind(j) = "createwallet" /\ Possible(j) THEN With(counted, to, 0) ELSE counted
      BY <1>1, <1>8 DEF apply
    <2>2. CASE Kind(j) = "createwallet" /\ Possible(j)
      <3>1. sequence' = [b \in DOMAIN counted \cup {to} |-> IF b = to THEN 0 ELSE counted[b]]
        BY <2>1, <2>2 DEF With
      <3>2. QED
        BY <1>9, <2>2, <3>1
    <2>3. CASE ~ (Kind(j) = "createwallet" /\ Possible(j))
      BY <1>9, <2>1, <2>3
    <2>4. QED
      BY <2>2, <2>3
  <1>11. line' = (IF Possible(j) THEN Effect(j) ELSE line)
    BY DEF apply
  <1>12. /\ line' \in [DOMAIN sequence' -> TrustLine \cup {NoLine}]
         /\ \A a \in DOMAIN line : line[a] # NoLine =>
              /\ line'[a] # NoLine
              /\ ~ (Possible(j) /\ Kind(j) = "sendpayment") => line'[a].balance = line[a].balance
              /\ Possible(j) /\ Kind(j) = "sendpayment" =>
                   line'[a].balance = line[a].balance - (IF a = src THEN amount ELSE 0) + (IF a = to THEN amount ELSE 0)
    <2>1. CASE Possible(j)
      <3>1. line' = Effect(j)
        BY <1>11, <2>1
      <3>2. /\ line' \in [(IF Kind(j) = "createwallet" THEN DOMAIN sequence \cup {to} ELSE DOMAIN sequence) -> TrustLine \cup {NoLine}]
            /\ \A a \in DOMAIN line : line[a] # NoLine =>
                 /\ line'[a] # NoLine
                 /\ Kind(j) # "sendpayment" => line'[a].balance = line[a].balance
                 /\ Kind(j) = "sendpayment" =>
                      line'[a].balance = line[a].balance - (IF a = src THEN amount ELSE 0) + (IF a = to THEN amount ELSE 0)
        BY <1>1, <2>1, <3>1, EffectIs
      <3>3. line' \in [DOMAIN sequence' -> TrustLine \cup {NoLine}]
        BY <1>10, <2>1, <3>2
      <3>4. QED
        BY <2>1, <3>2, <3>3
    <2>2. CASE ~ Possible(j)
      BY <1>7, <1>10, <1>11, <2>2
    <2>3. QED
      BY <2>1, <2>2
  <1>13. StTypeOK' /\ StTyped' /\ CompletedIsApplied' /\ RefusedStaysAway' /\ Unsent' /\ FewApplied'
    <2>1. DOMAIN sequence \subseteq DOMAIN sequence'
      BY <1>10
    <2>2. QED
      BY <1>5, <1>6, <1>10, <1>12, <2>1, JobStep
  <1>14. LinesStay'
    BY <1>7, <1>12 DEF LinesStay
  <1>15. CreatedByItsJob'
    <2>1. SUFFICES ASSUME NEW k \in Jobs, Kind(k) = "createwallet", Asks[k].to \in DOMAIN sequence'
                   PROVE  job'[k].outcome = "applied"
      BY DEF CreatedByItsJob, Exists
    <2>2. CASE Asks[k].to \in DOMAIN sequence
      <3>1. job[k].outcome = "applied"
        BY <2>1, <2>2 DEF StIInv, CreatedByItsJob, Exists
      <3>2. k # j
        BY <1>3, <3>1
      <3>3. QED
        BY <1>6, <3>1, <3>2
    <2>3. CASE Asks[k].to \notin DOMAIN sequence
      <3>1. Kind(j) = "createwallet" /\ Possible(j) /\ Asks[k].to = to
        BY <1>10, <2>1, <2>3
      <3>2. k = j
        BY <1>1, <3>1, StellarAssumption DEF Kind
      <3>3. QED
        BY <1>4, <1>6, <3>1, <3>2
    <2>4. QED
      BY <2>2, <2>3
  <1>16. AppliedOnce'
    <2>1. SUFFICES ASSUME NEW a \in DOMAIN Holders, Holders[a] # NoLine
                   PROVE  line'[a].balance + Sum(Applied(a, "source"))' = Holders[a].balance + Sum(Applied(a, "to"))'
      BY DEF AppliedOnce
    <2>2. line[a].balance + Sum(Applied(a, "source")) = Holders[a].balance + Sum(Applied(a, "to"))
      BY <2>1 DEF StIInv, AppliedOnce
    <2>3. a \in DOMAIN line /\ line[a] # NoLine
      BY <1>7, <2>1
    <2>4. CASE ~ (Possible(j) /\ Kind(j) = "sendpayment")
      <3>1. Kind(j) # "sendpayment" \/ (r.outcome = "applied" <=> job[j].outcome = "applied")
        BY <1>3, <1>4, <2>4
      <3>2. Applied(a, "source")' = Applied(a, "source") /\ Applied(a, "to")' = Applied(a, "to")
        BY <1>6, <3>1, AppliedKept
      <3>3. Sum(Applied(a, "source"))' = Sum(Applied(a, "source")) /\ Sum(Applied(a, "to"))' = Sum(Applied(a, "to"))
        BY <3>2, SumOfNext
      <3>4. QED
        BY <1>12, <2>2, <2>3, <2>4, <3>3
    <2>5. CASE Possible(j) /\ Kind(j) = "sendpayment"
      <3>1. ASSUME NEW end \in {"source", "to"}
            PROVE  /\ Sum(Applied(a, end)) \in Nat
                   /\ Sum(Applied(a, end))' = Sum(Applied(a, end)) + (IF Asks[j][end] = a THEN amount ELSE 0)
        <4>1. PICK S : S = Applied(a, end)
          OBVIOUS
        <4>2. S \subseteq Jobs /\ j \notin S
          BY <1>3, <4>1 DEF Applied
        <4>3. IsFiniteSet(S)
          <5>1. S \subseteq {k \in Jobs : job[k].outcome = "applied"}
            BY <4>1 DEF Applied
          <5>2. QED
            BY <5>1, FS_Subset DEF StIInv, FewApplied
        <4>4. Sum(S) \in Nat /\ Sum(S \cup {j}) = amount + Sum(S)
          BY <1>1, <4>2, <4>3, SumAdded
        <4>5. Applied(a, end)' = IF Asks[j][end] = a THEN S \cup {j} ELSE S
          <5>1. job'[j].outcome = "applied"
            BY <1>4, <1>6, <2>5
          <5>2. \A k \in Jobs : k # j => (job'[k].outcome = "applied" <=> job[k].outcome = "applied")
            BY <1>6
          <5>3. QED
            BY <2>5, <4>1, <4>2, <5>1, <5>2 DEF Applied
        <4>6. Sum(Applied(a, end))' = IF Asks[j][end] = a THEN Sum(S \cup {j}) ELSE Sum(S)
          BY <4>5, SumOfNext
        <4>7. QED
          BY <1>7, <4>1, <4>4, <4>6
      <3>2. Asks[j]["source"] = src /\ Asks[j]["to"] = to
        BY <1>1
      <3>3. /\ Sum(Applied(a, "source")) \in Nat /\ Sum(Applied(a, "to")) \in Nat
            /\ Sum(Applied(a, "source"))' = Sum(Applied(a, "source")) + (IF src = a THEN amount ELSE 0)
            /\ Sum(Applied(a, "to"))' = Sum(Applied(a, "to")) + (IF to = a THEN amount ELSE 0)
        BY <3>1, <3>2
      <3>4. line'[a].balance = line[a].balance - (IF a = src THEN amount ELSE 0) + (IF a = to THEN amount ELSE 0)
        BY <1>12, <2>3, <2>5
      <3>5. line[a].balance \in Nat /\ Holders[a].balance \in Nat
        <4>1. line[a] \in TrustLine /\ Holders[a] \in TrustLine
          BY <1>7, <2>1, <2>3, StellarAssumption
        <4>2. QED
          BY <4>1 DEF TrustLine
      <3>6. PICK b, c, m, p, q : /\ b = line[a].balance /\ c = Holders[a].balance
                                 /\ m = line'[a].balance
                                 /\ p = Sum(Applied(a, "source")) /\ q = Sum(Applied(a, "to"))
        OBVIOUS
      <3>7. PICK x, y : x = (IF src = a THEN amount ELSE 0) /\ y = (IF to = a THEN amount ELSE 0) /\ x \in Nat /\ y \in Nat
        BY <1>7
      <3>8. b \in Nat /\ c \in Nat /\ p \in Nat /\ q \in Nat /\ m = b - x + y /\ b + p = c + q
        BY <2>2, <3>3, <3>4, <3>5, <3>6, <3>7
      <3>9. m + (p + x) = c + (q + y)
        BY <3>7, <3>8
      <3>10. QED
        BY <3>3, <3>6, <3>7, <3>9
    <2>6. QED
      BY <2>4, <2>5
  <1>17. QED
    BY <1>13, <1>14, <1>15, <1>16 DEF StIInv

LEMMA StepStIInv ==
  ASSUME StIInv, [StNext]_stvars
  PROVE  StIInv'
  <1>1. CASE StNext
    BY <1>1, GetIssuerStIInv, LoadAccountStIInv, LoadAccountThrowsStIInv, SubmitStIInv, ApplyStIInv, RefuseStIInv DEF StNext
  <1>2. CASE UNCHANGED stvars
    <2>1. sequence' = sequence /\ line' = line /\ job' = job
      BY <1>2 DEF stvars
    <2>2. StTypeOK' /\ StTyped' /\ CompletedIsApplied' /\ RefusedStaysAway' /\ Unsent'
      BY <2>1 DEF StIInv, StTypeOK, StTyped, CompletedIsApplied, RefusedStaysAway, Unsent
    <2>3. CreatedByItsJob' /\ LinesStay' /\ FewApplied'
      BY <2>1 DEF StIInv, CreatedByItsJob, LinesStay, FewApplied, Exists
    <2>4. \A a, end : Applied(a, end)' = Applied(a, end)
      BY <2>1 DEF Applied
    <2>5. AppliedOnce'
      <3>1. \A a, end : Sum(Applied(a, end))' = Sum(Applied(a, end))
        BY <2>4, SumOfNext
      <3>2. QED
        BY <2>1, <3>1 DEF StIInv, AppliedOnce
    <2>6. QED
      BY <2>2, <2>3, <2>5 DEF StIInv
  <1>3. QED
    BY <1>1, <1>2

(* The Stellar service and its ledger (op/*.js): a request has an outcome  *)
(* only once it was submitted, a new account is there by its own request,  *)
(* a trust line stays, and the balances add up.                            *)
THEOREM LedgerInvariant == StSpec => []StIInv
  <1>1. StInit => StIInv
    BY InitStIInv
  <1>2. StIInv /\ [StNext]_stvars => StIInv'
    BY StepStIInv
  <1>3. QED
    BY <1>1, <1>2, PTL DEF StSpec

(* Whoever is told by the Stellar service that a payment is completed, an  *)
(* asset added or an account white-listed is told the truth, the seed of    *)
(* an account that exists was told, a refused payment is never made, and   *)
(* each account holds what it held and what the payments applied, each     *)
(* once, say, for any requests, lines and order of the ledger (op/*.js).   *)
THEOREM LedgerStaysRight == StSpec => []LedgerIsRight
  <1>1. StIInv => LedgerIsRight
    <2>1. SUFFICES ASSUME StIInv PROVE LedgerIsRight
      OBVIOUS
    <2>2. FundedIsTold
      BY <2>1 DEF StIInv, CreatedByItsJob, Unsent, FundedIsTold
    <2>3. QED
      BY <2>1, <2>2 DEF StIInv, LedgerIsRight
  <1>2. QED
    BY <1>1, LedgerInvariant, PTL

-----------------------------------------------------------------------------
(* Args: what the parser of a command makes of the flags that are written.  *)

\* the value of a flag that takes none
Present == TRUE
\* the words that give a flag a value
Gives(f, v, ws) ==
    \E c : \/ /\ <<"Short", c>> \in f.forms /\ f.takes
              /\ ws = <<<<"-", c>>, <<"Plain", v>>>> \/ ws = <<<<"-", c, v>>>>
           \/ /\ <<"Long", c>> \in f.forms /\ f.takes
              /\ ws = <<<<"--", c>>, <<"Plain", v>>>> \/ ws = <<<<"--", c, "=", v>>>>
           \/ /\ <<"Short", c>> \in f.forms /\ ~f.takes /\ v = Present /\ ws = <<<<"-", c>>>>
           \/ /\ <<"Long", c>> \in f.forms /\ ~f.takes /\ v = Present /\ ws = <<<<"--", c>>>>
\* n flags with their values, one after the other: rest[i] is what follows the first i
WrittenFlags(com, n, flags, values, rest, Word) ==
    /\ n \in Nat /\ rest \in [0..n -> Seq(Word)] /\ rest[n] = <<>>
    /\ \A i \in 1..n : /\ flags[i] \in Flags[com]
                       /\ \E ws \in Seq(Word) : Gives(flags[i], values[i], ws) /\ rest[i - 1] = ws \o rest[i]
\* the value of a field after the first i flags: that of the last which is its own
Bears(flags, values, i, field, v) ==
    \/ v = NotGiven /\ \A k \in 1..i : flags[k].field # field
    \/ \E k \in 1..i : /\ flags[k].field = field /\ v = <<values[k]>>
                       /\ \A l \in 1..i : l > k => flags[l].field # field

LEMMA FormsOf ==
  ASSUME NEW s, NEW l, NEW d, NEW t
  PROVE  Flag(s, l, d, t).forms = {<<"Short", s>>, <<"Long", l>>}
  BY DEF Flag

Unlike(com, f, arg) == /\ \A g \in Flags[com] : arg \in g.forms => g = f
                       /\ arg \notin {<<"Short", "h">>, <<"Long", "help">>} /\ arg # <<>>

\* no two flags of a command are written alike, and none as the help
LEMMA FlagsApart ==
  ASSUME NEW com \in DOMAIN Flags, NEW f \in Flags[com], NEW arg \in f.forms
  PROVE  Unlike(com, f, arg)
  <1>1. CASE com = "balance"
    <2>1. PICK a1, a2 :
             /\ a1 = Flag("t", "total-issuance", "total_issuance", FALSE)
             /\ a2 = Flag("f", "free-balance", "accountid", TRUE)
      OBVIOUS
    <2>2. /\ a1.forms = {<<"Short", "t">>, <<"Long", "total-issuance">>}
          /\ a2.forms = {<<"Short", "f">>, <<"Long", "free-balance">>}
      BY <2>1, FormsOf
    <2>3. f \in {a1, a2} /\ \A g \in Flags[com] : g \in {a1, a2}
      BY <1>1, <2>1 DEF parse_balance, Flags
    <2>4. QED
      BY <2>2, <2>3 DEF Unlike
  <1>2. CASE com = "listaddresses"
    <2>1. PICK a1 :
             /\ a1 = LocationFlag
      OBVIOUS
    <2>2. /\ a1.forms = {<<"Short", "l">>, <<"Long", "location">>}
      BY <2>1, FormsOf DEF LocationFlag
    <2>3. f \in {a1} /\ \A g \in Flags[com] : g \in {a1}
      BY <1>2, <2>1 DEF parse_list_wallet, Flags
    <2>4. QED
      BY <2>2, <2>3 DEF Unlike
  <1>3. CASE com = "watchaddress"
    <2>1. PICK a1, a2, a3 :
             /\ a1 = AddrFlag
             /\ a2 = LocationFlag
             /\ a3 = NameFlag
      OBVIOUS
    <2>2. /\ a1.forms = {<<"Short", "a">>, <<"Long", "addr">>}
          /\ a2.forms = {<<"Short", "l">>, <<"Long", "location">>}
          /\ a3.forms = {<<"Short", "n">>, <<"Long", "name">>}
      BY <2>1, FormsOf DEF AddrFlag, LocationFlag, NameFlag
    <2>3. f \in {a1, a2, a3} /\ \A g \in Flags[com] : g \in {a1, a2, a3}
      BY <1>3, <2>1 DEF parse_watchonly, Flags
    <2>4. QED
      BY <2>2, <2>3 DEF Unlike
  <1>4. CASE com = "restore"
    <2>1. PICK a1, a2, a3 :
             /\ a1 = FileFlag
             /\ a2 = LocationFlag
             /\ a3 = PasswordFlag
      OBVIOUS
    <2>2. /\ a1.forms = {<<"Short", "f">>, <<"Long", "file">>}
          /\ a2.forms = {<<"Short", "l">>, <<"Long", "location">>}
          /\ a3.forms = {<<"Short", "p">>, <<"Long", "password">>}
      BY <2>1, FormsOf DEF FileFlag, LocationFlag, PasswordFlag
    <2>3. f \in {a1, a2, a3} /\ \A g \in Flags[com] : g \in {a1, a2, a3}
      BY <1>4, <2>1 DEF parse_restore, Flags
    <2>4. QED
      BY <2>2, <2>3 DEF Unlike
  <1>5. CASE com = "backup"
    <2>1. PICK a1, a2, a3, a4 :
             /\ a1 = FileFlag
             /\ a2 = LocationFlag
             /\ a3 = AddrFlag
             /\ a4 = PasswordFlag
      OBVIOUS
    <2>2. /\ a1.forms = {<<"Short", "f">>, <<"Long", "file">>}
          /\ a2.forms = {<<"Short", "l">>, <<"Long", "location">>}
          /\ a3.forms = {<<"Short", "a">>, <<"Long", "addr">>}
          /\ a4.forms = {<<"Short", "p">>, <<"Long", "password">>}
      BY <2>1, FormsOf DEF AddrFlag, FileFlag, LocationFlag, PasswordFlag
    <2>3. f \in {a1, a2, a3, a4} /\ \A g \in Flags[com] : g \in {a1, a2, a3, a4}
      BY <1>5, <2>1 DEF parse_backup, Flags
    <2>4. QED
      BY <2>2, <2>3 DEF Unlike
  <1>6. CASE com = "getnewaddress"
    <2>1. PICK a1, a2, a3, a4, a5, a6, a7 :
             /\ a1 = Flag("e", "ed25519", "ed25519", FALSE)
             /\ a2 = Flag("k", "ecdsa", "ecdsa", FALSE)
             /\ a3 = Flag("s", "sr25519", "sr25519", FALSE)
             /\ a4 = PasswordFlag
             /\ a5 = NameFlag
             /\ a6 = LocationFlag
             /\ a7 = [forms |-> {<<"Long", "phrase">>}, field |-> "phrase", takes |-> TRUE]
      OBVIOUS
    <2>2. /\ a1.forms = {<<"Short", "e">>, <<"Long", "ed25519">>}
          /\ a2.forms = {<<"Short", "k">>, <<"Long", "ecdsa">>}
          /\ a3.forms = {<<"Short", "s">>, <<"Long", "sr25519">>}
          /\ a4.forms = {<<"Short", "p">>, <<"Long", "password">>}
          /\ a5.forms = {<<"Short", "n">>, <<"Long", "name">>}
          /\ a6.forms = {<<"Short", "l">>, <<"Long", "location">>}
          /\ a7.forms = {<<"Long", "phrase">>}
      BY <2>1, FormsOf DEF LocationFlag, NameFlag, PasswordFlag
    <2>3. f \in {a1, a2, a3, a4, a5, a6, a7} /\ \A g \in Flags[com] : g \in {a1, a2, a3, a4, a5, a6, a7}
      BY <1>6, <2>1 DEF parse_get_wallet, Flags
    <2>4. QED
      BY <2>2, <2>3 DEF Unlike
  <1>7. CASE com = "transfer"
    <2>1. PICK a1, a2, a3, a4 :
             /\ a1 = Flag("s", "sender", "sender", TRUE)
             /\ a2 = Flag("r", "receiver", "receiver", TRUE)
             /\ a3 = Flag("a", "amount", "amount", TRUE)
             /\ a4 = LocationFlag
      OBVIOUS
    <2>2. /\ a1.forms = {<<"Short", "s">>, <<"Long", "sender">>}
          /\ a2.forms = {<<"Short", "r">>, <<"Long", "receiver">>}
          /\ a3.forms = {<<"Short", "a">>, <<"Long", "amount">>}
          /\ a4.forms = {<<"Short", "l">>, <<"Long", "location">>}
      BY <2>1, FormsOf DEF LocationFlag
    <2>3. f \in {a1, a2, a3, a4} /\ \A g \in Flags[com] : g \in {a1, a2, a3, a4}
      BY <1>7, <2>1 DEF parse_transaction, Flags
    <2>4. QED
      BY <2>2, <2>3 DEF Unlike
  <1>8. QED
    BY <1>1, <1>2, <1>3, <1>4, <1>5, <1>6, <1>7 DEF Flags

\* the iterator before its words, with what is left of a word
On(words, left) == [args |-> words, is_raw |-> FALSE, leftover |-> left]

LEMMA OnIs ==
  ASSUME NEW a, NEW l, NEW it, it = On(a, l)
  PROVE  it.args = a /\ it.leftover = l
  BY DEF On

LEMMA NotRaw ==
  ASSUME NEW a, NEW l, NEW it, it = On(a, l)
  PROVE  ~it.is_raw
  BY DEF On

LEMMA ArgsAfter ==
  ASSUME NEW a, NEW l, NEW b
  PROVE  [On(a, l) EXCEPT !.args = b] = On(b, l)
  <1>1. \A r : [[args |-> a, is_raw |-> r, leftover |-> l] EXCEPT !.args = b] = [args |-> b, is_raw |-> r, leftover |-> l]
    OBVIOUS
  <1>2. QED
    BY <1>1, Zenon DEF On

LEMMA LeftAfter ==
  ASSUME NEW a, NEW l, NEW m
  PROVE  [On(a, l) EXCEPT !.leftover = m] = On(a, m)
  <1>1. \A r : [[args |-> a, is_raw |-> r, leftover |-> l] EXCEPT !.leftover = m] = [args |-> a, is_raw |-> r, leftover |-> m]
    OBVIOUS
  <1>2. QED
    BY <1>1, Zenon DEF On

LEMMA NextLeft ==
  ASSUME NEW a, NEW v
  PROVE  Next(On(a, <<v>>)) = <<<<"Plain", v>>, On(a, <<>>)>>
  <1>1. PICK it : it = On(a, <<v>>)
    OBVIOUS
  <1>2a. it.leftover = <<v>>
    BY <1>1, OnIs
  <1>2. it.leftover = <<v>> /\ [it EXCEPT !.leftover = <<>>] = On(a, <<>>)
    BY <1>1, <1>2a, LeftAfter
  <1>3. it.leftover # <<>> /\ it.leftover[1] = v
    BY <1>2
  <1>4. Next(it) = <<<<"Plain", it.leftover[1]>>, [it EXCEPT !.leftover = <<>>]>>
    BY <1>3 DEF Next
  <1>5. QED
    BY <1>1, <1>2, <1>3, <1>4

LEMMA NextNone == Next(On(<<>>, <<>>)) = <<<<>>, On(<<>>, <<>>)>>
  <1>1. PICK it : it = On(<<>>, <<>>)
    OBVIOUS
  <1>2. it.args = <<>> /\ it.leftover = <<>> /\ ~it.is_raw
    BY <1>1, OnIs, NotRaw
  <1>3a. Next(it) = Raw(it)
    BY <1>2 DEF Next
  <1>3. Next(it) = <<<<>>, it>>
    BY <1>2, <1>3a DEF Raw
  <1>4. QED
    BY <1>1, <1>3

LEMMA NextWord ==
  ASSUME NEW a, a # <<>>
  PROVE  Next(On(a, <<>>)) = ByWord(Head(a), On(Tail(a), <<>>))
  <1>1. PICK it : it = On(a, <<>>)
    OBVIOUS
  <1>2a. it.args = a /\ it.leftover = <<>> /\ ~it.is_raw
    BY <1>1, OnIs, NotRaw
  <1>2b. [it EXCEPT !.args = Tail(a)] = On(Tail(a), <<>>)
    BY <1>1, ArgsAfter
  <1>2. it.args = a /\ it.leftover = <<>> /\ ~it.is_raw /\ [it EXCEPT !.args = Tail(a)] = On(Tail(a), <<>>)
    BY <1>2a, <1>2b
  <1>3. Next(it) = ByWord(Head(it.args), [it EXCEPT !.args = Tail(it.args)])
    BY <1>2 DEF Next
  <1>4. QED
    BY <1>1, <1>2, <1>3

LEMMA NextPlain ==
  ASSUME NEW a, NEW v, a # <<>>, Head(a) = <<"Plain", v>>
  PROVE  Next(On(a, <<>>)) = <<<<"Plain", v>>, On(Tail(a), <<>>)>>
  <1>1. ByWord(<<"Plain", v>>, On(Tail(a), <<>>)) = <<<<"Plain", v>>, On(Tail(a), <<>>)>>
    BY DEF ByWord
  <1>2. QED
    BY <1>1, NextWord

LEMMA NextFlag ==
  ASSUME NEW a, NEW c, a # <<>>
  PROVE  /\ Head(a) = <<"-", c>> => Next(On(a, <<>>)) = <<<<"Short", c>>, On(Tail(a), <<>>)>>
         /\ Head(a) = <<"--", c>> => Next(On(a, <<>>)) = <<<<"Long", c>>, On(Tail(a), <<>>)>>
         /\ \A v : Head(a) = <<"-", c, v>> => Next(On(a, <<>>)) = <<<<"Short", c>>, On(Tail(a), <<v>>)>>
         /\ \A v : Head(a) = <<"--", c, "=", v>> => Next(On(a, <<>>)) = <<<<"Long", c>>, On(Tail(a), <<v>>)>>
  <1>0. PICK rest : rest = On(Tail(a), <<>>)
    OBVIOUS
  <1>1. ByWord(<<"-", c>>, rest) = <<<<"Short", c>>, rest>>
    BY DEF ByWord
  <1>2. ByWord(<<"--", c>>, rest) = <<<<"Long", c>>, rest>>
    BY DEF ByWord
  <1>3. ASSUME NEW v
        PROVE  ByWord(<<"-", c, v>>, rest) = <<<<"Short", c>>, [rest EXCEPT !.leftover = <<v>>]>>
    BY DEF ByWord
  <1>4. ASSUME NEW v
        PROVE  ByWord(<<"--", c, "=", v>>, rest) = <<<<"Long", c>>, [rest EXCEPT !.leftover = <<v>>]>>
    BY DEF ByWord
  <1>5. \A v : [rest EXCEPT !.leftover = <<v>>] = On(Tail(a), <<v>>)
    BY <1>0, LeftAfter
  <1>6. PICK h, n : h = Head(a) /\ n = Next(On(a, <<>>))
    OBVIOUS
  <1>7. n = ByWord(h, rest)
    BY <1>0, <1>6, NextWord
  <1>8. /\ h = <<"-", c>> => n = <<<<"Short", c>>, rest>>
        /\ h = <<"--", c>> => n = <<<<"Long", c>>, rest>>
    BY <1>1, <1>2, <1>7
  <1>9. \A v : h = <<"-", c, v>> => n = <<<<"Short", c>>, On(Tail(a), <<v>>)>>
    BY <1>3, <1>5, <1>7
  <1>10. \A v : h = <<"--", c, "=", v>> => n = <<<<"Long", c>>, On(Tail(a), <<v>>)>>
    BY <1>4, <1>5, <1>7
  <1>11. QED
    BY <1>0, <1>6, <1>8, <1>9, <1>10

LEMMA NextAttached ==
  ASSUME NEW a, NEW c, NEW v, a # <<>>
  PROVE  /\ Head(a) = <<"-", c, v>> => Next(On(a, <<>>)) = <<<<"Short", c>>, On(Tail(a), <<v>>)>>
         /\ Head(a) = <<"--", c, "=", v>> => Next(On(a, <<>>)) = <<<<"Long", c>>, On(Tail(a), <<v>>)>>
  <1>1. \A u : Head(a) = <<"-", c, u>> => Next(On(a, <<>>)) = <<<<"Short", c>>, On(Tail(a), <<u>>)>>
    BY NextFlag
  <1>2. \A u : Head(a) = <<"--", c, "=", u>> => Next(On(a, <<>>)) = <<<<"Long", c>>, On(Tail(a), <<u>>)>>
    BY NextFlag
  <1>3. QED
    BY <1>1, <1>2

\* the fields once a flag was given a value
Took(fields, f, v) == [fields EXCEPT ![f.field] = <<v>>]

MeetsFlag(com, f, arg, it, after) ==
    com \in DOMAIN Flags /\ f \in Flags[com] /\ arg \in f.forms /\ Next(it) = <<arg, after>>

LEMMA TurnIs ==
  ASSUME NEW com, NEW f, NEW arg, NEW it, NEW after, MeetsFlag(com, f, arg, it, after), NEW fields
  PROVE  /\ ~f.takes => ParseFlag(com, <<"more", it, fields>>) = <<"more", after, Took(fields, f, Present)>>
         /\ \A v, last : f.takes /\ expect_plain(after) = <<"ok", <<v>>, last>> =>
               ParseFlag(com, <<"more", it, fields>>) = <<"more", last, Took(fields, f, v)>>
  <1>0. com \in DOMAIN Flags /\ f \in Flags[com] /\ arg \in f.forms /\ Next(it) = <<arg, after>>
    BY DEF MeetsFlag
  <1>1. {g \in Flags[com] : arg \in g.forms} = {f}
    BY <1>0, FlagsApart DEF Unlike
  <1>2. arg # <<>> /\ arg \notin {<<"Short", "h">>, <<"Long", "help">>}
    BY <1>0, FlagsApart DEF Unlike
  <1>3. PICK s : s = <<"more", it, fields>>
    OBVIOUS
  <1>4. s[1] = "more" /\ s[3] = fields /\ Next(s[2]) = <<arg, after>>
    BY <1>0, <1>3
  <1>5. ParseFlag(com, s) =
           LET v == expect_plain(after)
           IN IF ~f.takes THEN <<"more", after, [fields EXCEPT ![f.field] = <<TRUE>>]>>
              ELSE IF v[1] = "ok" THEN <<"more", v[3], [fields EXCEPT ![f.field] = v[2]]>> ELSE v
    <2>1. PICK fitting : fitting = {g \in Flags[com] : Next(s[2])[1] \in g.forms}
      OBVIOUS
    <2>2. fitting = {f} /\ (CHOOSE g \in fitting : TRUE) = f
      BY <1>1, <1>4, <2>1
    <2>3. Next(s[2])[1] = arg /\ Next(s[2])[2] = after
      BY <1>4
    <2>4. ParseFlag(com, s) = LET g == CHOOSE g \in fitting : TRUE
                                  v == expect_plain(Next(s[2])[2])
                              IN IF ~g.takes THEN <<"more", Next(s[2])[2], [s[3] EXCEPT ![g.field] = <<TRUE>>]>>
                                 ELSE IF v[1] = "ok" THEN <<"more", v[3], [s[3] EXCEPT ![g.field] = v[2]]>> ELSE v
      <3>1. fitting # {}
        BY <2>2
      <3>2. QED
        BY <1>2, <1>4, <2>1, <2>3, <3>1 DEF ParseFlag
    <2>5. QED
      BY <1>4, <2>2, <2>3, <2>4
  <1>6. ASSUME NEW v, NEW last, f.takes, expect_plain(after) = <<"ok", <<v>>, last>>
        PROVE  ParseFlag(com, s) = <<"more", last, [fields EXCEPT ![f.field] = <<v>>]>>
    <2>1. PICK p : p = expect_plain(after)
      OBVIOUS
    <2>2. p[1] = "ok" /\ p[2] = <<v>> /\ p[3] = last
      BY <1>6, <2>1
    <2>3. ParseFlag(com, s) = <<"more", p[3], [fields EXCEPT ![f.field] = p[2]]>>
      BY <1>5, <1>6, <2>1, <2>2
    <2>4. QED
      BY <2>2, <2>3
  <1>7. ~f.takes => ParseFlag(com, s) = <<"more", after, [fields EXCEPT ![f.field] = <<TRUE>>]>>
    BY <1>5
  <1>8. QED
    BY <1>3, <1>6, <1>7 DEF Took, Present

LEMMA ValueTurn ==
  ASSUME NEW com, NEW f, NEW arg, NEW it, NEW after, MeetsFlag(com, f, arg, it, after), NEW fields,
         f.takes, NEW v, NEW last, expect_plain(after) = <<"ok", <<v>>, last>>
  PROVE  ParseFlag(com, <<"more", it, fields>>) = <<"more", last, Took(fields, f, v)>>
  BY TurnIs

LEMMA OneWord ==
  ASSUME NEW Word, NEW w \in Word, NEW r \in Seq(Word)
  PROVE  /\ <<w>> \o r # <<>> /\ Head(<<w>> \o r) = w /\ Tail(<<w>> \o r) = r
         /\ Len(<<w>> \o r) = Len(r) + 1
  <1>1. <<w>> \in Seq(Word) /\ Len(<<w>>) = 1 /\ Len(r) \in Nat
    OBVIOUS
  <1>2. PICK s : s = <<w>> \o r
    OBVIOUS
  <1>3. s \in Seq(Word) /\ Len(s) = Len(r) + 1
    BY <1>1, <1>2
  <1>4. s # <<>> /\ Head(s) = w
    BY <1>1, <1>2, <1>3
  <1>5. Tail(s) \in Seq(Word) /\ Len(Tail(s)) = Len(r)
    BY <1>1, <1>3, <1>4
  <1>6. \A i \in 1..Len(r) : Tail(s)[i] = r[i]
    <2>1. \A i \in 1..Len(r) : Tail(s)[i] = s[i + 1]
      BY <1>1, <1>3, <1>4
    <2>2. \A i \in 1..Len(r) : s[i + 1] = r[i]
      BY <1>1, <1>2
    <2>3. QED
      BY <2>1, <2>2
  <1>7. Tail(s) = r
    BY <1>5, <1>6
  <1>8. QED
    BY <1>2, <1>3, <1>4, <1>7

LEMMA TwoWords ==
  ASSUME NEW Word, NEW w \in Word, NEW x \in Word, NEW r \in Seq(Word)
  PROVE  /\ <<w, x>> \o r # <<>> /\ Head(<<w, x>> \o r) = w /\ Tail(<<w, x>> \o r) = <<x>> \o r
         /\ Len(<<w, x>> \o r) = Len(r) + 2
  <1>1. PICK s : s = <<x>> \o r
    OBVIOUS
  <1>2. s \in Seq(Word) /\ Len(s) = Len(r) + 1 /\ Len(r) \in Nat
    BY <1>1, OneWord
  <1>3. <<w, x>> \o r = <<w>> \o s
    <2>1. <<w>> \in Seq(Word) /\ <<x>> \in Seq(Word) /\ <<w, x>> \in Seq(Word)
      OBVIOUS
    <2>2. <<w>> \o <<x>> = <<w, x>>
      <3>1. PICK t, u : t = <<w>> \o <<x>> /\ u = <<w, x>>
        OBVIOUS
      <3>2. t \in Seq(Word) /\ Len(t) = 2 /\ t[1] = w /\ t[2] = x
        BY <2>1, <3>1
      <3>3. u \in Seq(Word) /\ Len(u) = 2 /\ u[1] = w /\ u[2] = x
        BY <2>1, <3>1
      <3>4. \A i \in 1..2 : t[i] = u[i]
        <4>1. \A i \in 1..2 : i = 1 \/ i = 2
          OBVIOUS
        <4>2. QED
          BY <3>2, <3>3, <4>1
      <3>5. t = u
        BY <3>2, <3>3, <3>4
      <3>6. QED
        BY <3>1, <3>5
    <2>3. (<<w>> \o <<x>>) \o r = <<w>> \o (<<x>> \o r)
      BY <2>1, ConcatAssociative
    <2>4. QED
      BY <1>1, <2>2, <2>3
  <1>4. <<w>> \o s # <<>> /\ Head(<<w>> \o s) = w /\ Tail(<<w>> \o s) = s /\ Len(<<w>> \o s) = Len(s) + 1
    BY <1>2, OneWord
  <1>5. QED
    BY <1>1, <1>2, <1>3, <1>4

\* the value of a flag, attached or the next word
LEMMA ValueIs ==
  ASSUME NEW a, NEW v
  PROVE  /\ expect_plain(On(a, <<v>>)) = <<"ok", <<v>>, On(a, <<>>)>>
         /\ a # <<>> /\ Head(a) = <<"Plain", v>> => expect_plain(On(a, <<>>)) = <<"ok", <<v>>, On(Tail(a), <<>>)>>
  <1>1. ASSUME NEW it, NEW after, Next(it) = <<<<"Plain", v>>, after>>
        PROVE  expect_plain(it) = <<"ok", <<v>>, after>>
    <2>1. PICK n : n = Next(it)
      OBVIOUS
    <2>2. n[1] = <<"Plain", v>> /\ n[2] = after /\ n[1] # <<>> /\ n[1][1] = "Plain" /\ n[1][2] = v
      BY <1>1, <2>1
    <2>3. expect_plain(it) = <<"ok", <<n[1][2]>>, n[2]>>
      BY <2>1, <2>2 DEF expect_plain
    <2>4. QED
      BY <2>2, <2>3
  <1>2. QED
    BY <1>1, NextLeft, NextPlain

\* the words of one flag are one turn of the loop
LEMMA FlagIsRead ==
  ASSUME NEW com \in DOMAIN Flags, NEW f \in Flags[com], NEW Word, NEW ws \in Seq(Word), NEW v, Gives(f, v, ws),
         NEW r \in Seq(Word), NEW fields
  PROVE  /\ ParseFlag(com, <<"more", On(ws \o r, <<>>), fields>>) =
               <<"more", On(r, <<>>), Took(fields, f, v)>>
         /\ Len(ws \o r) >= Len(r) + 1
  <1>1. PICK c : \/ /\ <<"Short", c>> \in f.forms /\ f.takes
                    /\ ws = <<<<"-", c>>, <<"Plain", v>>>> \/ ws = <<<<"-", c, v>>>>
                 \/ /\ <<"Long", c>> \in f.forms /\ f.takes
                    /\ ws = <<<<"--", c>>, <<"Plain", v>>>> \/ ws = <<<<"--", c, "=", v>>>>
                 \/ /\ <<"Short", c>> \in f.forms /\ ~f.takes /\ v = Present /\ ws = <<<<"-", c>>>>
                 \/ /\ <<"Long", c>> \in f.forms /\ ~f.takes /\ v = Present /\ ws = <<<<"--", c>>>>
    BY DEF Gives
  <1> DEFINE Done(a) == /\ ParseFlag(com, <<"more", On(a, <<>>), fields>>) = <<"more", On(r, <<>>), Took(fields, f, v)>>
                        /\ Len(a) >= Len(r) + 1
  <1>2. Len(r) \in Nat
    OBVIOUS
  <1>3. ASSUME NEW arg \in f.forms, NEW w, NEW x, ws = <<w, x>>, f.takes, x = <<"Plain", v>>,
               \A a : a # <<>> /\ Head(a) = w => Next(On(a, <<>>)) = <<arg, On(Tail(a), <<>>)>>
        PROVE  Done(ws \o r)
    <2>1. w \in Word /\ x \in Word
      <3>1. ws[1] = w /\ ws[2] = x /\ 1 \in DOMAIN ws /\ 2 \in DOMAIN ws
        BY <1>3
      <3>2. QED
        BY <3>1
    <2>2. PICK a, b : a = ws \o r /\ b = <<x>> \o r
      OBVIOUS
    <2>2a. a = <<w, x>> \o r
      BY <1>3, <2>2
    <2>2b. /\ <<w, x>> \o r # <<>> /\ Head(<<w, x>> \o r) = w /\ Tail(<<w, x>> \o r) = <<x>> \o r
           /\ Len(<<w, x>> \o r) = Len(r) + 2
      BY <2>1, TwoWords
    <2>3. a # <<>> /\ Head(a) = w /\ Tail(a) = b /\ Len(a) = Len(r) + 2
      BY <2>2, <2>2a, <2>2b
    <2>4. b # <<>> /\ Head(b) = x /\ Tail(b) = r
      BY <2>1, <2>2, OneWord
    <2>5. Next(On(a, <<>>)) = <<arg, On(b, <<>>)>>
      BY <1>3, <2>3
    <2>5a. MeetsFlag(com, f, arg, On(a, <<>>), On(b, <<>>))
      BY <1>3, <2>5 DEF MeetsFlag
    <2>6. expect_plain(On(b, <<>>)) = <<"ok", <<v>>, On(r, <<>>)>>
      BY <1>3, <2>4, ValueIs
    <2>7. ParseFlag(com, <<"more", On(a, <<>>), fields>>) = <<"more", On(r, <<>>), Took(fields, f, v)>>
      BY <1>3, <2>5a, <2>6, ValueTurn
    <2>8. QED
      BY <1>2, <2>2, <2>3, <2>7
  <1>4. ASSUME NEW arg \in f.forms, NEW w, ws = <<w>>, f.takes,
               \A a : a # <<>> /\ Head(a) = w => Next(On(a, <<>>)) = <<arg, On(Tail(a), <<v>>)>>
        PROVE  Done(ws \o r)
    <2>1. w \in Word
      <3>1. ws[1] = w /\ 1 \in DOMAIN ws
        BY <1>4
      <3>2. QED
        BY <3>1
    <2>2. PICK a : a = ws \o r
      OBVIOUS
    <2>3. a # <<>> /\ Head(a) = w /\ Tail(a) = r /\ Len(a) = Len(r) + 1
      BY <1>4, <2>1, <2>2, OneWord
    <2>5. Next(On(a, <<>>)) = <<arg, On(r, <<v>>)>>
      BY <1>4, <2>3
    <2>5a. MeetsFlag(com, f, arg, On(a, <<>>), On(r, <<v>>))
      BY <1>4, <2>5 DEF MeetsFlag
    <2>6. expect_plain(On(r, <<v>>)) = <<"ok", <<v>>, On(r, <<>>)>>
      BY ValueIs
    <2>7. ParseFlag(com, <<"more", On(a, <<>>), fields>>) = <<"more", On(r, <<>>), Took(fields, f, v)>>
      BY <1>4, <2>5a, <2>6, ValueTurn
    <2>8. QED
      BY <1>2, <2>2, <2>3, <2>7
  <1>5. ASSUME NEW arg \in f.forms, NEW w, ws = <<w>>, ~f.takes, v = Present,
               \A a : a # <<>> /\ Head(a) = w => Next(On(a, <<>>)) = <<arg, On(Tail(a), <<>>)>>
        PROVE  Done(ws \o r)
    <2>1. w \in Word
      <3>1. ws[1] = w /\ 1 \in DOMAIN ws
        BY <1>5
      <3>2. QED
        BY <3>1
    <2>2. PICK a : a = ws \o r
      OBVIOUS
    <2>3. a # <<>> /\ Head(a) = w /\ Tail(a) = r /\ Len(a) = Len(r) + 1
      BY <1>5, <2>1, <2>2, OneWord
    <2>5. Next(On(a, <<>>)) = <<arg, On(r, <<>>)>>
      BY <1>5, <2>3
    <2>5a. MeetsFlag(com, f, arg, On(a, <<>>), On(r, <<>>))
      BY <1>5, <2>5 DEF MeetsFlag
    <2>7. ParseFlag(com, <<"more", On(a, <<>>), fields>>) = <<"more", On(r, <<>>), Took(fields, f, Present)>>
      BY <1>5, <2>5a, TurnIs
    <2>8. QED
      BY <1>2, <1>5, <2>2, <2>3, <2>7
  <1> HIDE DEF Done
  <1>6. CASE <<"Short", c>> \in f.forms /\ f.takes /\ ws = <<<<"-", c>>, <<"Plain", v>>>>
    BY <1>3, <1>6, NextFlag DEF Done
  <1>7. CASE <<"Short", c>> \in f.forms /\ f.takes /\ ws = <<<<"-", c, v>>>>
    <2>1. \A a : a # <<>> /\ Head(a) = <<"-", c, v>> => Next(On(a, <<>>)) = <<<<"Short", c>>, On(Tail(a), <<v>>)>>
      BY NextAttached
    <2>2. PICK arg, w : arg = <<"Short", c>> /\ w = <<"-", c, v>>
      OBVIOUS
    <2>3. \A a : a # <<>> /\ Head(a) = w => Next(On(a, <<>>)) = <<arg, On(Tail(a), <<v>>)>>
      BY <2>1, <2>2
    <2>4. arg \in f.forms /\ ws = <<w>> /\ f.takes
      BY <1>7, <2>2
    <2>5. QED
      BY <1>4, <2>3, <2>4 DEF Done
  <1>8. CASE <<"Long", c>> \in f.forms /\ f.takes /\ ws = <<<<"--", c>>, <<"Plain", v>>>>
    BY <1>3, <1>8, NextFlag DEF Done
  <1>9. CASE <<"Long", c>> \in f.forms /\ f.takes /\ ws = <<<<"--", c, "=", v>>>>
    <2>1. \A a : a # <<>> /\ Head(a) = <<"--", c, "=", v>> => Next(On(a, <<>>)) = <<<<"Long", c>>, On(Tail(a), <<v>>)>>
      BY NextAttached
    <2>2. PICK arg, w : arg = <<"Long", c>> /\ w = <<"--", c, "=", v>>
      OBVIOUS
    <2>3. \A a : a # <<>> /\ Head(a) = w => Next(On(a, <<>>)) = <<arg, On(Tail(a), <<v>>)>>
      BY <2>1, <2>2
    <2>4. arg \in f.forms /\ ws = <<w>> /\ f.takes
      BY <1>9, <2>2
    <2>5. QED
      BY <1>4, <2>3, <2>4 DEF Done
  <1>10. CASE <<"Short", c>> \in f.forms /\ ~f.takes /\ v = Present /\ ws = <<<<"-", c>>>>
    BY <1>5, <1>10, NextFlag DEF Done
  <1>11. CASE <<"Long", c>> \in f.forms /\ ~f.takes /\ v = Present /\ ws = <<<<"--", c>>>>
    BY <1>5, <1>11, NextFlag DEF Done
  <1>12. QED
    BY <1>1, <1>6, <1>7, <1>8, <1>9, <1>10, <1>11

\* the loop: its first n turns
Begin(com, it) == <<"more", it, [d \in Fields(com) |-> NotGiven]>>
Turns(com, it, n, g) == g = [i \in 0..n |-> IF i = 0 THEN Begin(com, it) ELSE ParseFlag(com, g[i - 1])]

LEMMA TurnsExist ==
  ASSUME NEW com, NEW it, NEW n \in Nat
  PROVE  \E g : Turns(com, it, n, g)
  <1> DEFINE Bad == {m \in Nat : ~ \E g : Turns(com, it, m, g)}
  <1>1. SUFFICES ASSUME Bad # {} PROVE FALSE
    OBVIOUS
  <1>2. PICK m \in Bad : \A k \in Bad : m <= k
    BY <1>1, LeastNumber
  <1>3. CASE m = 0
    <2>1. PICK g : g = [i \in 0..0 |-> Begin(com, it)]
      OBVIOUS
    <2>2. [i \in 0..0 |-> IF i = 0 THEN Begin(com, it) ELSE ParseFlag(com, g[i - 1])] = [i \in 0..0 |-> Begin(com, it)]
      OBVIOUS
    <2>3. Turns(com, it, 0, g)
      BY <2>1, <2>2 DEF Turns
    <2>4. QED
      BY <1>3, <2>3
  <1>4. CASE m # 0
    <2>1. m - 1 \in Nat /\ m - 1 \notin Bad
      BY <1>2, <1>4
    <2>2. PICK h : Turns(com, it, m - 1, h)
      BY <2>1
    <2>3. \A i \in 0..(m - 1) : h[i] = IF i = 0 THEN Begin(com, it) ELSE ParseFlag(com, h[i - 1])
      BY <2>2 DEF Turns
    <2>4. PICK g : g = [i \in 0..m |-> IF i = m THEN ParseFlag(com, h[m - 1]) ELSE h[i]]
      OBVIOUS
    <2>5. /\ \A i \in 0..(m - 1) : g[i] = h[i]
          /\ g[m] = ParseFlag(com, h[m - 1])
      BY <1>4, <2>1, <2>4
    <2>6. ASSUME NEW i \in 0..m PROVE g[i] = IF i = 0 THEN Begin(com, it) ELSE ParseFlag(com, g[i - 1])
      <3>1. CASE i = m
        <4>1. m - 1 \in 0..(m - 1)
          BY <2>1
        <4>2. g[m - 1] = h[m - 1]
          BY <2>5, <4>1
        <4>3. QED
          BY <1>4, <2>5, <3>1, <4>2
      <3>2. CASE i # m
        <4>1. i \in 0..(m - 1)
          BY <2>1, <3>2
        <4>2. i # 0 => i - 1 \in 0..(m - 1)
          BY <2>1, <4>1
        <4>3. QED
          BY <2>3, <2>5, <4>1, <4>2
      <3>3. QED
        BY <3>1, <3>2
    <2>7. g = [i \in 0..m |-> g[i]]
      BY <2>4
    <2>8. [i \in 0..m |-> g[i]] = [i \in 0..m |-> IF i = 0 THEN Begin(com, it) ELSE ParseFlag(com, g[i - 1])]
      BY <2>6
    <2>9. Turns(com, it, m, g)
      BY <2>7, <2>8 DEF Turns
    <2>10. QED
      BY <2>9
  <1>5. QED
    BY <1>3, <1>4

LEMMA LoopIs ==
  ASSUME NEW com, NEW it, Len(it.args) \in Nat
  PROVE  \E g : /\ parse_flags(com, it) = g[Len(it.args) + 1]
                /\ g[0] = Begin(com, it)
                /\ \A i \in 1..(Len(it.args) + 1) : g[i] = ParseFlag(com, g[i - 1])
  <1>1. PICK n : n = Len(it.args) + 1
    OBVIOUS
  <1>2. n \in Nat
    BY <1>1
  <1>3. PICK g : g = CHOOSE h : Turns(com, it, n, h)
    OBVIOUS
  <1>4. Turns(com, it, n, g)
    BY <1>2, <1>3, TurnsExist
  <1>5. parse_flags(com, it) = g[n]
    BY <1>1, <1>3 DEF parse_flags, Turns, Begin
  <1>6. \A i \in 0..n : g[i] = IF i = 0 THEN Begin(com, it) ELSE ParseFlag(com, g[i - 1])
    BY <1>4 DEF Turns
  <1>7. g[0] = Begin(com, it) /\ \A i \in 1..n : g[i] = ParseFlag(com, g[i - 1])
    BY <1>2, <1>6
  <1>8. QED
    BY <1>1, <1>5, <1>7

\* the loop ends when nothing is left
LEMMA EndTurn ==
  ASSUME NEW com \in DOMAIN Flags, NEW fields
  PROVE  /\ ParseFlag(com, <<"more", On(<<>>, <<>>), fields>>) = <<"ok", fields>>
         /\ ParseFlag(com, <<"ok", fields>>) = <<"ok", fields>>
  <1>1. PICK s : s = <<"more", On(<<>>, <<>>), fields>>
    OBVIOUS
  <1>2. s[1] = "more" /\ s[3] = fields /\ Next(s[2])[1] = <<>>
    BY <1>1, NextNone
  <1>2a. \A f \in Flags[com] : <<>> \notin f.forms
    BY FlagsApart DEF Unlike
  <1>2b. {f \in Flags[com] : Next(s[2])[1] \in f.forms} = {}
    BY <1>2, <1>2a
  <1>2c. Next(s[2])[1] \notin {<<"Short", "h">>, <<"Long", "help">>}
    BY <1>2
  <1>3. ParseFlag(com, s) = <<"ok", s[3]>>
    BY <1>2, <1>2b, <1>2c DEF ParseFlag
  <1>4. PICK t : t = <<"ok", fields>>
    OBVIOUS
  <1>5. t[1] # "more"
    BY <1>4
  <1>6. ParseFlag(com, t) = t
    BY <1>5 DEF ParseFlag
  <1>7. QED
    BY <1>1, <1>2, <1>3, <1>4, <1>6

LEMMA BearsNext ==
  ASSUME NEW flags, NEW values, NEW i \in Nat, NEW d, NEW v, Bears(flags, values, i, d, v)
  PROVE  /\ flags[i + 1].field = d => Bears(flags, values, i + 1, d, <<values[i + 1]>>)
         /\ flags[i + 1].field # d => Bears(flags, values, i + 1, d, v)
  <1>1. \A k : k \in 1..(i + 1) <=> (k \in 1..i \/ k = i + 1)
    OBVIOUS
  <1>2. ASSUME flags[i + 1].field = d PROVE Bears(flags, values, i + 1, d, <<values[i + 1]>>)
    <2>1. i + 1 \in 1..(i + 1) /\ \A l \in 1..(i + 1) : ~(l > i + 1)
      OBVIOUS
    <2>2. QED
      BY <1>2, <2>1 DEF Bears
  <1>3. ASSUME flags[i + 1].field # d PROVE Bears(flags, values, i + 1, d, v)
    <2>1. CASE v = NotGiven /\ \A k \in 1..i : flags[k].field # d
      BY <1>1, <1>3, <2>1 DEF Bears
    <2>2. CASE \E k \in 1..i : /\ flags[k].field = d /\ v = <<values[k]>>
                               /\ \A l \in 1..i : l > k => flags[l].field # d
      <3>1. PICK k \in 1..i : /\ flags[k].field = d /\ v = <<values[k]>>
                              /\ \A l \in 1..i : l > k => flags[l].field # d
        BY <2>2
      <3>2. \A l \in 1..(i + 1) : l > k => flags[l].field # d
        BY <1>1, <1>3, <3>1
      <3>3. k \in 1..(i + 1)
        OBVIOUS
      <3>4. QED
        BY <3>1, <3>2, <3>3 DEF Bears
    <2>3. QED
      BY <2>1, <2>2 DEF Bears
  <1>4. QED
    BY <1>2, <1>3

\* the loop after i turns: what the first i flags give, before the rest
Reached(com, flags, values, rest, i, s) ==
    \E fields : /\ s = <<"more", On(rest[i], <<>>), fields>>
                /\ DOMAIN fields = Fields(com) /\ fields = [d \in Fields(com) |-> fields[d]]
                /\ \A d \in Fields(com) : Bears(flags, values, i, d, fields[d])
                /\ i + Len(rest[i]) <= Len(rest[0])

LEMMA TurnsOn ==
  ASSUME NEW com \in DOMAIN Flags, NEW n, NEW flags, NEW values, NEW rest, NEW Word,
         WrittenFlags(com, n, flags, values, rest, Word), NEW i \in 0..(n - 1), NEW s,
         Reached(com, flags, values, rest, i, s)
  PROVE  Reached(com, flags, values, rest, i + 1, ParseFlag(com, s))
  <1>1. /\ n \in Nat /\ i \in Nat /\ i + 1 \in 1..n /\ i \in 0..n /\ i + 1 \in 0..n /\ 0 \in 0..n
        /\ rest \in [0..n -> Seq(Word)]
    BY DEF WrittenFlags
  <1>2. /\ flags[i + 1] \in Flags[com]
        /\ \E ws \in Seq(Word) : Gives(flags[i + 1], values[i + 1], ws) /\ rest[(i + 1) - 1] = ws \o rest[i + 1]
    BY <1>1 DEF WrittenFlags
  <1>3. (i + 1) - 1 = i
    BY <1>1
  <1>4. PICK f, v, r : f = flags[i + 1] /\ v = values[i + 1] /\ r = rest[i + 1]
    OBVIOUS
  <1>5. PICK ws \in Seq(Word) : Gives(f, v, ws) /\ rest[i] = ws \o r
    BY <1>2, <1>3, <1>4
  <1>6. PICK fields : /\ s = <<"more", On(rest[i], <<>>), fields>>
                      /\ DOMAIN fields = Fields(com) /\ fields = [d \in Fields(com) |-> fields[d]]
                      /\ \A d \in Fields(com) : Bears(flags, values, i, d, fields[d])
                      /\ i + Len(rest[i]) <= Len(rest[0])
    BY DEF Reached
  <1>7. f \in Flags[com] /\ r \in Seq(Word) /\ Len(r) \in Nat /\ Len(rest[i]) \in Nat /\ Len(rest[0]) \in Nat
    BY <1>1, <1>2, <1>4
  <1>8. /\ ParseFlag(com, s) = <<"more", On(r, <<>>), Took(fields, f, v)>>
        /\ Len(rest[i]) >= Len(r) + 1
    BY <1>5, <1>6, <1>7, FlagIsRead
  <1>9. PICK after : after = Took(fields, f, v)
    OBVIOUS
  <1>10. f.field \in Fields(com)
    BY <1>7 DEF Fields
  <1>11. /\ DOMAIN after = Fields(com) /\ after = [d \in Fields(com) |-> after[d]]
         /\ after[f.field] = <<v>> /\ \A d \in Fields(com) : d # f.field => after[d] = fields[d]
    BY <1>6, <1>9, <1>10 DEF Took
  <1>12. ASSUME NEW d \in Fields(com) PROVE Bears(flags, values, i + 1, d, after[d])
    BY <1>1, <1>4, <1>6, <1>11, BearsNext, ZenonT(60)
  <1>13. (i + 1) + Len(r) <= Len(rest[0])
    BY <1>1, <1>6, <1>7, <1>8, SMTT(30)
  <1>14. QED
    BY <1>4, <1>8, <1>9, <1>11, <1>12, <1>13 DEF Reached

LEMMA AllReached ==
  ASSUME NEW com \in DOMAIN Flags, NEW n, NEW flags, NEW values, NEW rest, NEW Word,
         WrittenFlags(com, n, flags, values, rest, Word), NEW g, g[0] = Begin(com, On(rest[0], <<>>)),
         NEW m \in Nat, m <= n, \A i \in 1..m : g[i] = ParseFlag(com, g[i - 1])
  PROVE  Reached(com, flags, values, rest, m, g[m])
  <1>0. n \in Nat /\ rest \in [0..n -> Seq(Word)] /\ 0 \in 0..n /\ Len(rest[0]) \in Nat
    BY DEF WrittenFlags
  <1> DEFINE Bad == {i \in 0..m : ~Reached(com, flags, values, rest, i, g[i])}
  <1>a. m \in 0..m
    OBVIOUS
  <1>b. m \notin Bad => Reached(com, flags, values, rest, m, g[m])
    BY <1>a
  <1>1. SUFFICES ASSUME Bad # {} PROVE FALSE
    BY <1>b
  <1>2. PICK i \in Bad : \A k \in Bad : i <= k
    <2>1. Bad \subseteq Nat
      BY <1>0
    <2>2. QED
      BY <1>1, <2>1, LeastNumber
  <1>3. i # 0
    <2>1. PICK fields : fields = [d \in Fields(com) |-> NotGiven]
      OBVIOUS
    <2>2. g[0] = <<"more", On(rest[0], <<>>), fields>>
      BY <2>1 DEF Begin
    <2>3. \A d \in Fields(com) : Bears(flags, values, 0, d, fields[d])
      BY <2>1 DEF Bears
    <2>4. DOMAIN fields = Fields(com) /\ fields = [d \in Fields(com) |-> fields[d]] /\ 0 + Len(rest[0]) <= Len(rest[0])
      BY <1>0, <2>1
    <2>5. Reached(com, flags, values, rest, 0, g[0])
      BY <2>2, <2>3, <2>4 DEF Reached
    <2>6. QED
      BY <2>5
  <1>4. i - 1 \in 0..(n - 1) /\ i - 1 \in 0..n /\ (i - 1) + 1 = i /\ i \in 1..m /\ i - 1 \notin Bad
    BY <1>0, <1>2, <1>3
  <1>5. PICK k : k = i - 1
    OBVIOUS
  <1>6. Reached(com, flags, values, rest, k, g[k]) /\ k \in 0..(n - 1) /\ k + 1 = i
    BY <1>4, <1>5
  <1>7. Reached(com, flags, values, rest, k + 1, ParseFlag(com, g[k]))
    BY <1>6, TurnsOn
  <1>8. g[i] = ParseFlag(com, g[k])
    BY <1>4, <1>5
  <1>9. QED
    BY <1>6, <1>7, <1>8

\* the flags are read to the end
LEMMA FlagsAreRead ==
  ASSUME NEW com \in DOMAIN Flags, NEW n, NEW flags, NEW values, NEW rest, NEW Word,
         WrittenFlags(com, n, flags, values, rest, Word)
  PROVE  \E fields : /\ parse_flags(com, Iter(rest[0])) = <<"ok", fields>>
                     /\ fields = [d \in Fields(com) |-> fields[d]]
                     /\ \A d \in Fields(com) : Bears(flags, values, n, d, fields[d])
  <1>0. n \in Nat /\ rest \in [0..n -> Seq(Word)] /\ rest[n] = <<>> /\ n \in 0..n /\ 0 \in 0..n
    BY DEF WrittenFlags
  <1>1. PICK it : it = Iter(rest[0])
    OBVIOUS
  <1>2. it = On(rest[0], <<>>) /\ it.args = rest[0]
    BY <1>1 DEF Iter, On
  <1>3. PICK m : m = Len(it.args)
    OBVIOUS
  <1>4. m \in Nat /\ m = Len(rest[0])
    BY <1>0, <1>2, <1>3
  <1>5a. Len(it.args) \in Nat
    BY <1>3, <1>4
  <1>5b. PICK g : /\ parse_flags(com, it) = g[Len(it.args) + 1] /\ g[0] = Begin(com, it)
                  /\ \A i \in 1..(Len(it.args) + 1) : g[i] = ParseFlag(com, g[i - 1])
    BY <1>5a, LoopIs
  <1>5. /\ parse_flags(com, it) = g[m + 1] /\ g[0] = Begin(com, it)
        /\ \A i \in 1..(m + 1) : g[i] = ParseFlag(com, g[i - 1])
    BY <1>3, <1>5b
  <1>6. ASSUME NEW k \in Nat, k <= n, k <= m + 1 PROVE Reached(com, flags, values, rest, k, g[k])
    <2>1. \A i \in 1..k : g[i] = ParseFlag(com, g[i - 1])
      BY <1>4, <1>5, <1>6
    <2>2. g[0] = Begin(com, On(rest[0], <<>>))
      BY <1>2, <1>5
    <2>3. QED
      BY <1>6, <2>1, <2>2, AllReached
  <1>7. n <= m
    <2>1. ASSUME m + 1 <= n PROVE FALSE
      <3>1. Reached(com, flags, values, rest, m + 1, g[m + 1])
        BY <1>4, <1>6, <2>1
      <3>2. m + 1 + Len(rest[m + 1]) <= m
        BY <1>4, <3>1 DEF Reached
      <3>3. rest[m + 1] \in Seq(Word)
        BY <1>0, <1>4, <2>1
      <3>4. Len(rest[m + 1]) \in Nat
        BY <3>3
      <3>5. PICK l \in Nat : l = Len(rest[m + 1])
        BY <3>4
      <3>6. (m + 1) + l <= m
        BY <3>2, <3>5
      <3>7. m \in Nat
        BY <1>4
      <3>8. \A a, b \in Nat : ~((a + 1) + b <= a)
        OBVIOUS
      <3>9. QED
        BY <3>5, <3>6, <3>7, <3>8
    <2>2. QED
      BY <1>0, <1>4, <2>1
  <1>8. Reached(com, flags, values, rest, n, g[n])
    BY <1>0, <1>4, <1>6, <1>7
  <1>9. PICK fields : /\ g[n] = <<"more", On(rest[n], <<>>), fields>>
                      /\ fields = [d \in Fields(com) |-> fields[d]]
                      /\ \A d \in Fields(com) : Bears(flags, values, n, d, fields[d])
    BY <1>8 DEF Reached
  <1>10. g[n + 1] = <<"ok", fields>>
    <2>1. n + 1 \in 1..(m + 1) /\ (n + 1) - 1 = n
      BY <1>0, <1>4, <1>7
    <2>2. g[n + 1] = ParseFlag(com, <<"more", On(<<>>, <<>>), fields>>)
      BY <1>0, <1>5, <1>9, <2>1
    <2>3. QED
      BY <2>2, EndTurn
  <1>11. g[m + 1] = <<"ok", fields>>
    <2> DEFINE Bad == {i \in (n + 1)..(m + 1) : g[i] # <<"ok", fields>>}
    <2>a. m + 1 \in (n + 1)..(m + 1)
      BY <1>0, <1>4, <1>7
    <2>b. m + 1 \notin Bad => g[m + 1] = <<"ok", fields>>
      BY <2>a
    <2>1. SUFFICES ASSUME Bad # {} PROVE FALSE
      BY <2>b
    <2>2. PICK i \in Bad : \A k \in Bad : i <= k
      <3>1. Bad \subseteq Nat
        BY <1>0
      <3>2. QED
        BY <2>1, <3>1, LeastNumber
    <2>3. i # n + 1
      BY <1>10
    <2>4. i - 1 \in (n + 1)..(m + 1) /\ i \in 1..(m + 1) /\ i - 1 \notin Bad
      BY <1>0, <1>4, <2>2, <2>3
    <2>5. g[i] = ParseFlag(com, <<"ok", fields>>)
      BY <1>5, <2>4
    <2>6. g[i] = <<"ok", fields>>
      BY <2>5, EndTurn
    <2>7. QED
      BY <2>6
  <1>12. parse_flags(com, Iter(rest[0])) = <<"ok", fields>>
    BY <1>1, <1>5, <1>11
  <1>13. QED
    BY <1>9, <1>12

(* A command with its flags, however many, in whatever order and each in any *)
(* of its forms, is read to the end: what is run is the command, and every   *)
(* field holds the value of the last flag that was given for it, or none     *)
(* (operation.rs parse, ArgIter and the parse_ functions).                   *)
THEOREM LineIsRead ==
  ASSUME NEW com \in DOMAIN Flags, NEW n, NEW flags, NEW values, NEW rest, NEW Word,
         WrittenFlags(com, n, flags, values, rest, Word), NEW exe,
         <<"Plain", exe>> \in Word, <<"Plain", com>> \in Word
  PROVE  \E fields : /\ parse(<<<<"Plain", exe>>, <<"Plain", com>>>> \o rest[0]) = <<"ok", command(com, fields)>>
                     /\ fields = [d \in Fields(com) |-> fields[d]]
                     /\ \A d \in Fields(com) : Bears(flags, values, n, d, fields[d])
  <1>1. rest[0] \in Seq(Word)
    <2>1. rest \in [0..n -> Seq(Word)] /\ 0 \in 0..n
      BY DEF WrittenFlags
    <2>2. QED
      BY <2>1
  <1>2. PICK text, x, y, more : /\ x = <<"Plain", exe>> /\ y = <<"Plain", com>>
                                /\ text = <<x, y>> \o rest[0] /\ more = <<y>> \o rest[0]
    OBVIOUS
  <1>3. x \in Word /\ y \in Word
    BY <1>2
  <1>4. text # <<>> /\ Head(text) = x /\ Tail(text) = more
    <2>1. /\ <<x, y>> \o rest[0] # <<>> /\ Head(<<x, y>> \o rest[0]) = x
          /\ Tail(<<x, y>> \o rest[0]) = <<y>> \o rest[0]
      BY <1>1, <1>3, TwoWords
    <2>2. QED
      BY <1>2, <2>1
  <1>5. more # <<>> /\ Head(more) = y /\ Tail(more) = rest[0]
    BY <1>1, <1>2, <1>3, OneWord
  <1>6. Next(On(text, <<>>)) = <<x, On(more, <<>>)>>
    BY <1>2, <1>4, NextPlain
  <1>7. Next(On(more, <<>>)) = <<y, On(rest[0], <<>>)>>
    BY <1>2, <1>5, NextPlain
  <1>8. Iter(text) = On(text, <<>>) /\ Iter(rest[0]) = On(rest[0], <<>>)
    BY Zenon DEF Iter, On
  <1>9. PICK fields : /\ parse_flags(com, Iter(rest[0])) = <<"ok", fields>>
                      /\ fields = [d \in Fields(com) |-> fields[d]]
                      /\ \A d \in Fields(com) : Bears(flags, values, n, d, fields[d])
    BY FlagsAreRead
  <1>10. PICK it : it = Next(Iter(text))[2]
    OBVIOUS
  <1>11. it = On(more, <<>>)
    BY <1>6, <1>8, <1>10
  <1>12. PICK next : next = Next(it)
    OBVIOUS
  <1>13. next[1] = y /\ next[2] = On(rest[0], <<>>)
    BY <1>7, <1>11, <1>12
  <1>14. PICK p : p = parse_flags(com, next[2])
    OBVIOUS
  <1>15. p[1] = "ok" /\ p[2] = fields
    BY <1>8, <1>9, <1>13, <1>14
  <1>16. parse(text) = <<"ok", command(com, p[2])>>
    <2>1. next[1] # <<>> /\ next[1][1] = "Plain" /\ next[1][2] = com
      BY <1>2, <1>13
    <2>2. next[1] # <<"Long", "version">> /\ next[1] \notin {<<"Short", "h">>, <<"Long", "help">>}
      BY <1>2, <1>13
    <2>3. parse(text) = IF p[1] = "ok" THEN <<"ok", command(com, p[2])>> ELSE p
      BY <1>10, <1>12, <1>14, <2>1, <2>2 DEF parse
    <2>4. QED
      BY <1>15, <2>3
  <1>17. QED
    BY <1>2, <1>9, <1>15, <1>16
=============================================================================
