------------------------------ MODULE MCOffice ------------------------------
(***************************************************************************)
(* Four small services, which a behaviour is one of: profiles, merchants   *)
(* and the Stellar service, and the wallet store, which share no state.    *)
(***************************************************************************)
EXTENDS MCWalletStore, Profile, Merchants, Stellar

CONSTANTS p1, p2, k1, k2, k3, n1, n2, n3, d1, d2, g1, g2, g3
VARIABLE subject

\* two submissions of one user and one of the other; two changes of one password and one of a PIN
MCMaker == k1 :> p1 @@ k2 :> p1 @@ k3 :> p2 @@ n1 :> p1 @@ n2 :> p1 @@ n3 :> p2
MCAsked == n1 :> [field |-> "password", old |-> "a", new |-> "b"] @@ n2 :> [field |-> "password", old |-> "a", new |-> "c"]
           @@ n3 :> [field |-> "pin", old |-> "a", new |-> "b"]
MCPeople == people \in [{p1, p2} -> [status : {"active"}, documents_id : {NULL}, password : {"a"}, pin : {"a", NotSet}]]

\* two merchants, of which one may be renamed as the other; three sessions, two of one user
MCSender == d1 :> p1 @@ d2 :> p2 @@ g1 :> p1 @@ g2 :> p1 @@ g3 :> p2
MCTitle == d1 :> "shop" @@ d2 :> "bank"
MCToken == [g \in {g1, g2, g3} |-> <<"token", g>>]

\* two payments that exceed the balance together; "10." is a text before "9"
Ask(kind, source, to, amount) == [kind |-> kind, source |-> source, to |-> to, amount |-> amount]
MCAsks == << Ask("sendpayment", "a", "b", <<1, 0>>), Ask("sendpayment", "a", "c", <<1, 0>>), Ask("sendpayment", "b", "a", <<9>>),
             Ask("feecharge", "a", "a", <<>>), Ask("acceptasset", "e", "e", <<>>), Ask("whitelist", "issuer", "c", <<>>),
             Ask("createwallet", "distributor", "new1", <<>>), Ask("createwallet", "distributor", "new2", <<>>) >>
MCJobs == DOMAIN MCAsks
Line(n) == [balance |-> n, allowed |-> TRUE]
MCHolders == "a" :> Line(12) @@ "b" :> Line(0) @@ "c" :> [balance |-> 0, allowed |-> FALSE] @@ "e" :> NoLine @@ "issuer" :> NoLine @@ "distributor" :> NoLine

Subjects == {"profile", "merchants", "stellar", "keys"}
MCVars == <<pvars, mvars, stvars, wvars, subject>>
MCInit == /\ PInit /\ MInit /\ StInit /\ WInit
          /\ subject \in Subjects
          /\ MCPeople /\ (subject # "profile" => \A u \in {p1, p2} : people[u].pin = "a")

\* at most three requests to the Stellar service; documents and secrets are apart, so are branches and
\* keys; three uuids more
MCFew == /\ Cardinality({j \in Jobs : job[j].at # "idle"}) <= 3
         /\ (\A s \in Submissions : submission[s] = "idle") \/ (\A c \in Changes : change[c] = "idle")
         /\ branches = <<>> \/ \A g \in Gets : getting[g].at = "idle"
         /\ docs_id <= 4 /\ user_id <= 4

MCNext == /\ UNCHANGED subject
          /\ \/ subject = "profile" /\ PNext /\ UNCHANGED <<mvars, stvars, wvars>>
             \/ subject = "merchants" /\ MNext /\ UNCHANGED <<pvars, stvars, wvars>>
             \/ subject = "stellar" /\ StNext /\ UNCHANGED <<pvars, mvars, wvars>>
             \/ subject = "keys" /\ WNext /\ UNCHANGED <<pvars, mvars, stvars>>
          /\ MCFew'
MCSpec == MCInit /\ [][MCNext]_MCVars

=============================================================================
