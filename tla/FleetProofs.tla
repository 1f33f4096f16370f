----------------------------- MODULE FleetProofs -----------------------------
(***************************************************************************)
(* How the registry operators of Fleet change the domain and the values of *)
(* a function of rows.                                                     *)
(***************************************************************************)
EXTENDS Fleet, TLAPS

LEMMA PutType ==
    ASSUME NEW S, NEW T, NEW f, DOMAIN f \subseteq S, f \in [DOMAIN f -> T],
           NEW i \in S, NEW v \in T
    PROVE  /\ DOMAIN Put(f, i, v) = DOMAIN f \cup {i}
           /\ DOMAIN Put(f, i, v) \subseteq S
           /\ Put(f, i, v) \in [DOMAIN Put(f, i, v) -> T]
BY DEF Put

LEMMA WithoutType ==
    ASSUME NEW S, NEW T, NEW f, DOMAIN f \subseteq S, f \in [DOMAIN f -> T],
           NEW i
    PROVE  /\ DOMAIN Without(f, i) = DOMAIN f \ {i}
           /\ DOMAIN Without(f, i) \subseteq S
           /\ Without(f, i) \in [DOMAIN Without(f, i) -> T]
BY DEF Without, Restrict

LEMMA NoRowsType == DOMAIN NoRows = {} /\ \A T : NoRows \in [{} -> T]
BY DEF NoRows
=============================================================================
