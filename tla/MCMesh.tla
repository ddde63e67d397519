------------------------------- MODULE MCMesh -------------------------------
(***************************************************************************)
(* Small instances of Mesh: daemons that ask and serve, cards that compete, *)
(* and the publications that make directory hits collide.                  *)
(***************************************************************************)
EXTENDS Mesh, TLC

CONSTANTS a, b, d,       \* daemons
          c1, c2,        \* conversations
          t1, t2,        \* LSH tables
          k1, k2, k3,    \* cards
          x, y           \* capability ids

\* k1 and k2 are cards of agent b, k3 is a card of agent d that shares its
\* capability id with k1.
MCCapOf == [k \in Card |-> IF k = k2 THEN y ELSE x]
MCAgentOf == [k \in Card |-> IF k = k3 THEN d ELSE b]

\* a asks in c1, b asks in c2.
MCOwnerOf == [c \in Conv |-> IF c = c1 THEN a ELSE b]
\* Both intents are asked at a.
AllByA == [c \in Conv |-> a]

\* Table t1 of an intent shares its key with k1 and k3, t2 with every card.
MCHits == [c \in Conv |-> [t \in Table |-> IF t = t1 THEN {k1, k3} \cap Card
                                                      ELSE Card]]
\* The same, but the second table of c2 finds nothing.
FewHits == [c \in Conv |-> [t \in Table |-> IF c = c2 /\ t = t2 THEN {}
                                             ELSE MCHits[c][t]]]
\* k1 and k3 tie, k2 outranks them.
MCScore == [c \in Conv |-> [k \in Card |-> IF k = k2 THEN 2 ELSE 1]]

AllPass == [c \in Conv |-> Card]
\* The facets of k1 exclude it.
NotK1 == [c \in Conv |-> Card \ {k1}]

\* Every agent publishes its own cards.
OwnCards == {<<MCAgentOf[k], k>> : k \in Card}
\* b also hands out d's card, under the id of its own k1.
Relayed == OwnCards \cup {<<b, k3>>}
=============================================================================
