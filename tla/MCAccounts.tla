------------------------------- MODULE MCAccounts -------------------------------
EXTENDS Accounts

VARIABLE part  \* what is looked at: the parts share nothing

\* Requests about an address cross, or one at a time meets a Redis that fails.
Crossing == \E c, d \in Client :
  c # d /\ client[c].step # "idle" /\ client[d].step # "idle"
OnlyCrossing == delayed' = {} /\ (unsure' \subseteq unsure \/ Crossing)

MCInit ==
  /\ part \in {"codes", "redis", "pictures"}
  /\ AccountsInit
  /\ part # "pictures" => picture = "logo"

MCNext ==
  /\ UNCHANGED part
  /\ \/ part = "codes" /\ CodesNext /\ OnlyCrossing
     \/ part = "redis" /\ CodesNext /\ ~Crossing'
     \/ part = "pictures" /\ PicturesNext

MCSpec == MCInit /\ [][MCNext]_<<part, accountVars>>
=============================================================================
