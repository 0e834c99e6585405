----------------------------- MODULE Merchants -----------------------------
(***************************************************************************)
(* Merchants, their branches and the API keys of partners                  *)
(* (loyalty/merchant.clj, loyalty/branches.clj).  Adding                   *)
(* a merchant is an INSERT and an UPDATE that makes the creator a partner; *)
(* a partner is given the stored key, or a new one, whose secret is made   *)
(* of an uuid and of the session's token.  The uuid goes through the atom  *)
(* user-id, which all requests share and each dereferences three times.    *)
(* The n-th uuid is n; the key of a user is the user.                      *)
(***************************************************************************)
EXTENDS Naturals

CONSTANTS Staff,
          Mailed,      \* those of them whose account has an e-mail address
          Adds, Gets,  \* requests for add-merchant! and get-apikey
          Sender,      \* who sends each
          Title,       \* the name of the merchant of each of Adds
          BranchNames,
          Token        \* the session token of each of Gets

ASSUME MerchantsAssumption ==
  /\ Mailed \subseteq Staff /\ Adds \cap Gets = {}
  /\ Sender \in [Adds \cup Gets -> Staff]

VARIABLES merchants,   \* MERCHANTS, by id, which is the request that made it: [name, owner]
          partners,    \* the users with IS_PARTNER
          apiacc,      \* APIACC: [id, key, sec]
          branches,    \* BRANCHES, by name: [merchant, owner, granted]
          user_id,     \* the atom of merchant.clj
          adding,      \* where each of Adds is
          getting,     \* where each of Gets is, the id and secret it read, and what it was told
          overlapped   \* the Gets that were under way while another was

mvars == <<merchants, partners, apiacc, branches, user_id, adding, getting, overlapped>>

Titles == {Title[a] : a \in Adds}
NoSecret == <<0, "none">>
MInit == /\ merchants = [a \in {} |-> 0] /\ partners = {} /\ apiacc = {} /\ branches = [b \in {} |-> 0] /\ user_id = 1
         /\ adding = [a \in Adds |-> "idle"]
         /\ getting = [g \in Gets |-> [at |-> "idle", id |-> 0, sec |-> NoSecret, told |-> NoSecret]]
         /\ overlapped = {}

-----------------------------------------------------------------------------
(* add-merchant!, update-merchant? *)

AddGoes(a, from, to) == /\ adding[a] = from /\ adding' = [adding EXCEPT ![a] = to]
                        /\ UNCHANGED <<apiacc, branches, user_id, getting, overlapped>>
Taken(name) == \E m \in DOMAIN merchants : merchants[m].name = name

\* mutant: the creator becomes a partner before the INSERT, which may be refused
add_merchantsJoined(a) ==
    /\ partners' = partners \cup {Sender[a]}
    /\ IF Taken(Title[a]) THEN AddGoes(a, "idle", "error") /\ UNCHANGED merchants
       ELSE /\ AddGoes(a, "idle", "stored")
            /\ merchants' = [m \in DOMAIN merchants \cup {a} |->
                               IF m = a THEN [name |-> Title[a], owner |-> Sender[a]] ELSE merchants[m]]
add_merchants(a) ==
    /\ IF Taken(Title[a]) THEN AddGoes(a, "idle", "error") /\ UNCHANGED merchants
       ELSE /\ AddGoes(a, "idle", "stored")
            /\ merchants' = [m \in DOMAIN merchants \cup {a} |->
                               IF m = a THEN [name |-> Title[a], owner |-> Sender[a]] ELSE merchants[m]]
    /\ UNCHANGED partners
join_partners(a) ==
    /\ AddGoes(a, "stored", "ok")
    /\ partners' = partners \cup {Sender[a]} /\ UNCHANGED merchants
add_merchant_fails(a) ==
    /\ AddGoes(a, "idle", "error") \/ AddGoes(a, "stored", "error")
    /\ UNCHANGED <<merchants, partners>>

\* mutant: a name may be taken twice
update_merchantsTaken(m, name) ==
    /\ merchants' = [merchants EXCEPT ![m].name = name]
    /\ UNCHANGED <<partners, apiacc, branches, user_id, adding, getting, overlapped>>
\* by any session; a name that is taken is refused
update_merchants(m, name) ==
    /\ ~Taken(name)
    /\ merchants' = [merchants EXCEPT ![m].name = name]
    /\ UNCHANGED <<partners, apiacc, branches, user_id, adding, getting, overlapped>>

-----------------------------------------------------------------------------
(* add-branches!, update-branches?, granted-user!: a check that stays true, then one statement *)

Owns(u) == \E m \in DOMAIN merchants : merchants[m].owner = u
BranchIs(name, b) == /\ branches' = [n \in DOMAIN branches \cup {name} |-> IF n = name THEN b ELSE branches[n]]
                     /\ UNCHANGED <<merchants, partners, apiacc, user_id, adding, getting, overlapped>>
\* mutant: the check is left out
add_branchesAnyone(u, m, name) ==
    /\ name \notin DOMAIN branches
    /\ BranchIs(name, [merchant |-> m, owner |-> u, granted |-> "nobody"])
\* of any merchant, known or not; the name is UNIQUE
add_branches(u, m, name) ==
    /\ Owns(u) /\ name \notin DOMAIN branches
    /\ BranchIs(name, [merchant |-> m, owner |-> u, granted |-> "nobody"])
\* by any owner of a merchant; somebody without e-mail address is not found
granted_user(u, name, v) ==
    /\ Owns(u) /\ name \in DOMAIN branches
    /\ BranchIs(name, [branches[name] EXCEPT !.granted = IF v \in Mailed THEN v ELSE "nobody"])

-----------------------------------------------------------------------------
(* get-apikey *)

Busy == {g \in Gets : getting[g].at \notin {"idle", "ended"}}
At(g, from) == getting[g].at = from
Now(g, r) == /\ getting' = [getting EXCEPT ![g] = r]
             /\ UNCHANGED <<merchants, partners, branches, adding>>
Rows(u) == {r \in apiacc : r.key = u}

\* mutant: any session passes
is_partnerAny(g) ==
    /\ At(g, "idle") /\ Now(g, [getting[g] EXCEPT !.at = "partner"])
    /\ overlapped' = IF Busy = {} THEN overlapped ELSE overlapped \cup Busy \cup {g}
    /\ UNCHANGED <<apiacc, user_id>>
\* looks the account up by its e-mail address; an account without one is no partner
is_partner(g) ==
    /\ At(g, "idle")
    /\ IF Sender[g] \in partners \cap Mailed
       THEN /\ Now(g, [getting[g] EXCEPT !.at = "partner"])
            /\ overlapped' = IF Busy = {} THEN overlapped ELSE overlapped \cup Busy \cup {g}
       ELSE Now(g, [getting[g] EXCEPT !.at = "ended"]) /\ UNCHANGED overlapped
    /\ UNCHANGED <<apiacc, user_id>>

\* mutant: a new key whenever one is asked for
if_apikey_existNot(g) ==
    /\ At(g, "partner") /\ Now(g, [getting[g] EXCEPT !.at = "new"])
    /\ UNCHANGED <<apiacc, user_id, overlapped>>
if_apikey_exist(g) ==
    /\ At(g, "partner")
    /\ Now(g, [getting[g] EXCEPT !.at = IF Rows(Sender[g]) = {} THEN "new" ELSE "stored"])
    /\ UNCHANGED <<apiacc, user_id, overlapped>>

reset_user_id(g) ==
    /\ At(g, "new") /\ Now(g, [getting[g] EXCEPT !.at = "reset"])
    /\ user_id' = user_id + 1 /\ UNCHANGED <<apiacc, overlapped>>
read_id(g) ==
    /\ At(g, "reset") /\ Now(g, [getting[g] EXCEPT !.at = "id", !.id = user_id])
    /\ UNCHANGED <<apiacc, user_id, overlapped>>
read_sec(g) ==
    /\ At(g, "id") /\ Now(g, [getting[g] EXCEPT !.at = "sec", !.sec = <<user_id, Token[g]>>])
    /\ UNCHANGED <<apiacc, user_id, overlapped>>
\* refused when the id is taken, or by a failure
set_apikey(g) ==
    /\ At(g, "sec")
    /\ \/ /\ \A r \in apiacc : r.id # getting[g].id
          /\ apiacc' = apiacc \cup {[id |-> getting[g].id, key |-> Sender[g], sec |-> getting[g].sec]}
          /\ Now(g, [getting[g] EXCEPT !.at = "inserted"])
       \/ Now(g, [getting[g] EXCEPT !.at = "ended"]) /\ UNCHANGED apiacc
    /\ UNCHANGED <<user_id, overlapped>>
\* mutant: the reply makes an uuid of its own
reply_newUuid(g) ==
    /\ At(g, "inserted")
    /\ Now(g, [getting[g] EXCEPT !.at = "ended", !.told = <<user_id + 1, Token[g]>>])
    /\ user_id' = user_id + 1
    /\ UNCHANGED <<apiacc, overlapped>>
\* dereferences the atom again
reply_new(g) ==
    /\ At(g, "inserted")
    /\ Now(g, [getting[g] EXCEPT !.at = "ended", !.told = <<user_id, Token[g]>>])
    /\ UNCHANGED <<apiacc, user_id, overlapped>>
\* the first of the rows the database finds
reply_stored(g) ==
    /\ At(g, "stored")
    /\ \E r \in Rows(Sender[g]) : Now(g, [getting[g] EXCEPT !.at = "ended", !.told = r.sec])
    /\ UNCHANGED <<apiacc, user_id, overlapped>>

restart_merchants ==
    /\ user_id' = user_id + 1
    /\ adding' = [a \in Adds |-> IF adding[a] = "stored" THEN "error" ELSE adding[a]]
    /\ getting' = [g \in Gets |-> IF g \in Busy THEN [getting[g] EXCEPT !.at = "ended"] ELSE getting[g]]
    /\ UNCHANGED <<merchants, partners, apiacc, branches, overlapped>>

MNext == \/ \E a \in Adds : add_merchants(a) \/ join_partners(a) \/ add_merchant_fails(a)
         \/ \E m \in DOMAIN merchants, name \in Titles : update_merchants(m, name)
         \/ \E u \in Staff, name \in BranchNames : \/ \E m \in Adds : add_branches(u, m, name)
                                                  \/ \E v \in Staff : granted_user(u, name, v)
         \/ \E g \in Gets : \/ is_partner(g) \/ if_apikey_exist(g) \/ reset_user_id(g) \/ read_id(g)
                            \/ read_sec(g) \/ set_apikey(g) \/ reply_new(g) \/ reply_stored(g)
         \/ restart_merchants
MSpec == MInit /\ [][MNext]_mvars

-----------------------------------------------------------------------------
(* Properties *)

\* Every variable has its type, and no two merchants and no two keys share what their tables keep unique
\* (merchant.sql, apiacc.sql).
MTypeOK == /\ DOMAIN merchants \subseteq Adds
           /\ \A m \in DOMAIN merchants : merchants[m] \in [name : Titles, owner : Staff]
           /\ \A m, n \in DOMAIN merchants : merchants[m].name = merchants[n].name => m = n
           /\ partners \subseteq Staff
           /\ DOMAIN branches \subseteq BranchNames
           /\ \A n \in DOMAIN branches : branches[n] \in [merchant : Adds, owner : Staff, granted : Mailed \cup {"nobody"}]
           /\ \A r \in apiacc : r.key \in Staff /\ r.id \in 1..user_id
           /\ \A r, q \in apiacc : r.id = q.id => r = q
           /\ overlapped \subseteq Gets

\* A partner has a merchant of the own making, although the two statements may be cut apart and anyone
\* may rename a merchant (merchant.clj:28-29).
PartnersHaveMerchant == \A u \in partners : \E m \in DOMAIN merchants : merchants[m].owner = u

\* A branch is made by someone with a merchant, and opened to nobody before there is one, whatever merchant
\* it names (branches.clj:14).
BranchesHaveMerchant == \A n \in DOMAIN branches : Owns(branches[n].owner)

\* Keys are given to partners only, and to those who can be found by e-mail (merchant.clj:86).
KeysAreOfPartners == \A r \in apiacc : r.key \in partners \cap Mailed

\* Unless requests for keys overlapped, the secret that a partner is told, at once or later, is the one
\* of every row that a payment may look up (merchant.clj:90-91, pay.clj:167).
Undisturbed(u) == \A g \in overlapped : Sender[g] # u
UndisturbedKeyWorks ==
    \A g \in Gets : getting[g].told # NoSecret /\ Undisturbed(Sender[g]) =>
        \A r \in Rows(Sender[g]) : r.sec = getting[g].told

\* Merchants, partners, branches and keys agree, and an undisturbed partner knows the own key (merchant.clj, branches.clj).
PartnersAreRight == MTypeOK /\ PartnersHaveMerchant /\ BranchesHaveMerchant /\ KeysAreOfPartners /\ UndisturbedKeyWorks

-----------------------------------------------------------------------------
(* The inductive invariant: what the steps rely on. *)

Places == {"idle", "partner", "stored", "new", "reset", "id", "sec", "inserted", "ended"}
Issued == {NoSecret} \cup (Nat \X {Token[g] : g \in Gets})
RequestsTyped ==
    /\ merchants \in [DOMAIN merchants -> [name : Titles, owner : Staff]]
    /\ branches \in [DOMAIN branches -> [merchant : Adds, owner : Staff, granted : Mailed \cup {"nobody"}]]
    /\ user_id \in Nat \ {0}
    /\ apiacc \subseteq [id : Nat, key : Staff, sec : Issued]
    /\ adding \in [Adds -> {"idle", "stored", "ok", "error"}]
    /\ getting \in [Gets -> [at : Places, id : Nat, sec : Issued, told : Issued]]

\* Who becomes a partner next has the merchant; who is past is_partner is one.
AddsAgree == \A a \in Adds :
    /\ adding[a] = "idle" => a \notin DOMAIN merchants
    /\ adding[a] = "stored" => a \in DOMAIN merchants /\ merchants[a].owner = Sender[a]
GetsAgree == \A g \in Gets :
    /\ g \in Busy => Sender[g] \in partners \cap Mailed
    /\ getting[g].at \in {"id", "sec"} => getting[g].id \in 1..user_id

\* Requests that are under way at once are all known to overlap.
OverlapIsKnown == \A g, h \in Busy : g # h => g \in overlapped

\* A partner whose requests never overlapped has one secret: the next one goes by the uuid in the atom
\* until it is told, and nobody is told one before it is stored.
OneSecret(g) ==
    /\ \A r, q \in Rows(Sender[g]) : r.sec = q.sec
    /\ getting[g].at \in {"new", "reset", "id", "sec"} => Rows(Sender[g]) = {}
    /\ getting[g].at = "sec" => getting[g].sec = <<user_id, Token[g]>>
    /\ getting[g].at = "inserted" =>
         Rows(Sender[g]) # {} /\ \A r \in Rows(Sender[g]) : r.sec = <<user_id, Token[g]>>
    /\ getting[g].told # NoSecret => Rows(Sender[g]) # {}
SecretsAgree == \A g \in Gets : Undisturbed(Sender[g]) => OneSecret(g)

MIInv == PartnersAreRight /\ RequestsTyped /\ AddsAgree /\ GetsAgree /\ OverlapIsKnown /\ SecretsAgree
=============================================================================
