----------------------------- MODULE MCAttributes -----------------------------
(* Small instances of AttributeCatalog for TLC.                            *)
EXTENDS AttributeCatalog, TLC

\* Visuals have no attributes, or those of their asset; one value at most is
\* described and not used, and a key is locked or single, or neither.
SmallInit ==
    /\ Init
    /\ \A a \in visual : shown[a] \in {{}, attrs[a]}
    /\ \A k \in Keys : valued[k] = {} \/ \E v \in Values \ Used(k) : valued[k] = {v}
    /\ locked \cap single = {}

SmallSpec == SmallInit /\ [][Next]_vars

Symmetry == Permutations(Requests) \cup Permutations(Values)
=============================================================================
