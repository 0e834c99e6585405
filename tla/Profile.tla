------------------------------ MODULE Profile ------------------------------
(***************************************************************************)
(* What users do to their own rows once they are registered: they set up   *)
(* a profile and submit identity documents (account/userinfo.clj), and     *)
(* change the password and the PIN (account/login.clj).  A submission is   *)
(* three statements around the id of the next document, which all          *)
(* submissions share in the atom docs-id; a change is a comparison and an  *)
(* UPDATE.  The n-th uuid is n; NULL is 0 for a document, NotSet for a     *)
(* PIN.  Every session is authorized.                                      *)
(***************************************************************************)
EXTENDS Naturals

CONSTANTS People, Submissions, Changes,
          Maker,    \* the user of each submission and change
          Asked,    \* what a change asks: [field, old, new]
          Secrets, NotSet

ASSUME ProfileAssumption ==
  /\ Submissions \cap Changes = {}
  /\ Maker \in [Submissions \cup Changes -> People]
  /\ Asked \in [Changes -> [field : {"password", "pin"}, old : Secrets, new : Secrets]]
  /\ NotSet \notin Secrets

VARIABLES docs_id,     \* the atom of userinfo.clj
          documents,   \* DOCUMENTS: the user of each id
          people,      \* USERS: [status, documents_id, password, pin]
          submission,  \* where each submission is, or how it ended
          change       \* the same for each change

pvars == <<docs_id, documents, people, submission, change>>

NULL == 0
PInit == /\ docs_id = 1
         /\ documents = [d \in {} |-> NULL]
         /\ people \in [People -> [status : {"active"}, documents_id : {NULL},
                                   password : Secrets, pin : Secrets \cup {NotSet}]]
         /\ submission = [s \in Submissions |-> "idle"]
         /\ change = [c \in Changes |-> "idle"]

-----------------------------------------------------------------------------
(* set-kyc! *)

Goes(s, from, to) == submission[s] = from /\ submission' = [submission EXCEPT ![s] = to]
Stored(u) == \E d \in DOMAIN documents : documents[d] = u

\* mutant: a user may have several documents
set_documentsAnyOwner(s) ==
    /\ docs_id \notin DOMAIN documents /\ Goes(s, "idle", "inserted")
    /\ documents' = [d \in DOMAIN documents \cup {docs_id} |-> IF d = docs_id THEN Maker[s] ELSE documents[d]]
    /\ UNCHANGED <<docs_id, people, change>>
\* mutant: the status is updated first
set_documentsVerifies(s) ==
    /\ Goes(s, "idle", "refused")
    /\ people' = [people EXCEPT ![Maker[s]].status = "verifying"]
    /\ UNCHANGED <<docs_id, documents, change>>
\* the INSERT, with the two constraints of the table
set_documents(s) ==
    /\ IF docs_id \in DOMAIN documents \/ Stored(Maker[s])
       THEN Goes(s, "idle", "refused") /\ UNCHANGED documents
       ELSE /\ Goes(s, "idle", "inserted")
            /\ documents' = [d \in DOMAIN documents \cup {docs_id} |->
                               IF d = docs_id THEN Maker[s] ELSE documents[d]]
    /\ UNCHANGED <<docs_id, people, change>>

update_status(s) ==
    /\ Goes(s, "inserted", "verifying")
    /\ people' = [people EXCEPT ![Maker[s]].status = "verifying"]
    /\ UNCHANGED <<docs_id, documents, change>>

\* mutant: the atom is reset one statement early
update_doc_idReset(s) ==
    /\ Goes(s, "verifying", "linked")
    /\ docs_id' = docs_id + 1
    /\ people' = [people EXCEPT ![Maker[s]].documents_id = docs_id']
    /\ UNCHANGED <<documents, change>>
\* reads the atom a second time
update_doc_id(s) ==
    /\ Goes(s, "verifying", "linked")
    /\ people' = [people EXCEPT ![Maker[s]].documents_id = docs_id]
    /\ UNCHANGED <<docs_id, documents, change>>

\* mutant: reset to nil
resetNil(s) ==
    /\ Goes(s, "linked", "ok") /\ docs_id' = NULL
    /\ UNCHANGED <<documents, people, change>>
\* mutant: not reset
resetNot(s) ==
    /\ Goes(s, "linked", "ok")
    /\ UNCHANGED <<docs_id, documents, people, change>>
reset(s) ==
    /\ Goes(s, "linked", "ok") /\ docs_id' = docs_id + 1
    /\ UNCHANGED <<documents, people, change>>

\* a statement fails: before the document was inserted, or after
set_kyc_fails(s) ==
    /\ \/ Goes(s, "idle", "refused")
       \/ Goes(s, "inserted", "broken")
       \/ Goes(s, "verifying", "broken")
    /\ UNCHANGED <<docs_id, documents, people, change>>

setup_profile(u) ==
    /\ people' = [people EXCEPT ![u].status = "active"]
    /\ UNCHANGED <<docs_id, documents, submission, change>>

-----------------------------------------------------------------------------
(* change-password!, change-pin! *)

Moves(c, from, to) == change[c] = from /\ change' = [change EXCEPT ![c] = to]

\* mutant: the old secret is not compared
change_checkNot(c) == Moves(c, "idle", "checked") /\ UNCHANGED <<docs_id, documents, people, submission>>
change_check(c) ==
    /\ Moves(c, "idle", IF people[Maker[c]][Asked[c].field] = Asked[c].old THEN "checked" ELSE "incorrect")
    /\ UNCHANGED <<docs_id, documents, people, submission>>
change_write(c) ==
    /\ Moves(c, "checked", "changed")
    /\ people' = [people EXCEPT ![Maker[c]] = [@ EXCEPT ![Asked[c].field] = Asked[c].new]]
    /\ UNCHANGED <<docs_id, documents, submission>>
change_fails(c) == Moves(c, "checked", "failed") /\ UNCHANGED <<docs_id, documents, people, submission>>

\* the server stops and starts: requests end without an answer, the atom is made anew
restart_profile ==
    /\ docs_id' = docs_id + 1
    /\ submission' = [s \in Submissions |->
         IF submission[s] \in {"inserted", "verifying", "linked"} THEN "dead" ELSE submission[s]]
    /\ change' = [c \in Changes |-> IF change[c] = "checked" THEN "dead" ELSE change[c]]
    /\ UNCHANGED <<documents, people>>

PNext == \/ \E s \in Submissions : \/ set_documents(s) \/ update_status(s) \/ update_doc_id(s)
                                   \/ reset(s) \/ set_kyc_fails(s)
         \/ \E u \in People : setup_profile(u)
         \/ \E c \in Changes : change_check(c) \/ change_write(c) \/ change_fails(c)
         \/ restart_profile
PSpec == PInit /\ [][PNext]_pvars

-----------------------------------------------------------------------------
(* Properties *)

\* Every variable has its type (userinfo.clj:17, users.sql, documents.sql).
PTypeOK == /\ docs_id \in Nat \ {NULL}
           /\ DOMAIN documents \subseteq 1..docs_id /\ \A d \in DOMAIN documents : documents[d] \in People
           /\ people \in [People -> [status : {"active", "verifying"}, documents_id : Nat,
                                     password : Secrets, pin : Secrets \cup {NotSet}]]
           /\ submission \in [Submissions -> {"idle", "inserted", "verifying", "linked", "ok", "refused", "broken", "dead"}]
           /\ change \in [Changes -> {"idle", "checked", "changed", "incorrect", "failed", "dead"}]

\* Although the atom is read twice, with a statement in between (userinfo.clj:79, 95), the document a
\* user is linked to is stored and is the user's own.
LinkedIsOwn == \A u \in People : people[u].documents_id # NULL =>
    /\ people[u].documents_id \in DOMAIN documents
    /\ documents[people[u].documents_id] = u

\* The id of the next document is free, unless the submission that used it is under way, or failed after
\* its INSERT and left it (userinfo.clj:97 is then not reached).
NextDocumentIsFree == docs_id \in DOMAIN documents =>
    \E s \in Submissions : /\ Maker[s] = documents[docs_id]
                           /\ submission[s] \in {"inserted", "verifying", "linked", "broken"}

\* Of several submissions of one user, retried or at once, one at most is accepted, and the user of an
\* accepted one is linked to a document (userinfo.clj:99).
AcceptedOnce == \A s \in Submissions : submission[s] = "ok" =>
    /\ people[Maker[s]].documents_id # NULL
    /\ \A t \in Submissions : submission[t] = "ok" /\ Maker[t] = Maker[s] => t = s

\* Nobody waits to be verified without a document to verify, whichever statement failed (userinfo.clj:88).
VerifyingHasDocument == \A u \in People : people[u].status = "verifying" => Stored(u)

\* A secret is replaced by one who knew it, or whose change overlapped another of the same secret: the
\* comparison and the UPDATE of change-password! and change-pin! are two statements.
SameSecret(c, d) == Maker[c] = Maker[d] /\ Asked[c].field = Asked[d].field
ReplacedKnowingly ==
    [][\A u \in People : \A f \in {"password", "pin"} : people'[u][f] # people[u][f] =>
          \E c \in Changes : /\ Maker[c] = u /\ Asked[c].field = f
                             /\ change[c] = "checked" /\ change'[c] = "changed"
                             /\ \/ people[u][f] = Asked[c].old
                                \/ \E d \in Changes \ {c} : SameSecret(c, d) /\ change[d] = "changed"]_pvars

\* Documents, statuses and the atom docs-id agree, whichever statement of set-kyc! failed (userinfo.clj:74-103).
DocumentsAreRight == PTypeOK /\ LinkedIsOwn /\ NextDocumentIsFree /\ AcceptedOnce /\ VerifyingHasDocument

-----------------------------------------------------------------------------
(* The inductive invariant: what the steps rely on. *)

Under == {"inserted", "verifying", "linked"}
After == Under \cup {"ok", "broken", "dead"}

\* The table is keyed by uuids that were made.
DocumentsTyped == documents \in [DOMAIN documents -> People]

\* One submission is under way, on the document that the atom names; so the second read of the atom is of
\* the id that the submission stored.
OneUnderWay ==
    /\ \A s \in Submissions : submission[s] \in Under =>
         docs_id \in DOMAIN documents /\ documents[docs_id] = Maker[s]
    /\ \A s, t \in Submissions : submission[s] \in Under /\ submission[t] \in Under => s = t

\* Whoever passed the INSERT stays the only one of that user to do so, and is linked when told so.
OnePerUser ==
    /\ \A s \in Submissions : /\ submission[s] \in After => Stored(Maker[s])
                              /\ submission[s] \in {"linked", "ok"} => people[Maker[s]].documents_id # NULL
    /\ \A s, t \in Submissions :
         submission[s] \in After /\ submission[t] \in After /\ Maker[s] = Maker[t] => s = t

\* A secret that was compared is in force, or another change replaced it meanwhile.
CheckedIsKnown == \A c \in Changes : change[c] = "checked" =>
    \/ people[Maker[c]][Asked[c].field] = Asked[c].old
    \/ \E d \in Changes \ {c} : SameSecret(c, d) /\ change[d] = "changed"

PIInv == /\ PTypeOK /\ DocumentsTyped /\ OneUnderWay /\ OnePerUser /\ CheckedIsKnown
         /\ LinkedIsOwn /\ NextDocumentIsFree /\ VerifyingHasDocument
=============================================================================
