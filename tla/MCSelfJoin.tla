----------------------------- MODULE MCSelfJoin -----------------------------
(* SelfJoin over a small table.                                            *)
EXTENDS SelfJoin

CONSTANTS Ids, Keys, Versions

(* Siblings: both correlated fields are the same column, so a row is a     *)
(* child of itself.  The order may change with the version.                *)
Sibling       == [id: Ids, key: Keys \cup {Null}, version: Versions]
SiblingPk     == [r \in Sibling |-> r.id]
SiblingKey    == [r \in Sibling |-> r.key]
SiblingRank   == [r \in Sibling |-> IF r.version = 1 THEN r.id ELSE 10 - r.id]
OfVersion1    == {r \in Sibling : r.version = 1}

=============================================================================
