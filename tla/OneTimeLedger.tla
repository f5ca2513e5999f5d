--------------------------- MODULE OneTimeLedger ---------------------------
(***************************************************************************)
(* What the two SQLite ledgers of RegAgentOps promise whoever redeems a    *)
(* token there (a lease, an approval requirement): the first entry for a   *)
(* token is the only one and stays, and one caller at most, and only after *)
(* the entry is there, is answered that it redeemed the token.             *)
(***************************************************************************)
EXTENDS Integers

VARIABLES spent,  \* [token, entry]: what is recorded
          told    \* [token, entry, answer]: what callers were answered

OneTimeInit == spent = {} /\ told = {}

Spend(x) == /\ \A y \in spent : y.token # x.token
            /\ spent' = spent \cup {x}
            /\ told' = told

Tell(a) == /\ \E x \in spent : x.token = a.token /\ x.entry = a.entry
           /\ \A b \in told : b.token # a.token
           /\ told' = told \cup {a}
           /\ spent' = spent

OneTimeNext == (\E x \in spent' : Spend(x)) \/ (\E a \in told' : Tell(a))

OneTimeSpec == OneTimeInit /\ [][OneTimeNext]_<<spent, told>>
=============================================================================
