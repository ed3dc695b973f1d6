---------------------------- MODULE ClarityMaps ----------------------------
(***************************************************************************)
(* Clarity's define-map: a partial function that starts empty.  (map-get?  *)
(* m k) is none exactly when k \notin DOMAIN m.                            *)
(***************************************************************************)
EXTENDS Integers, Functions

\* m maps some of the keys to values.
IsMap(m, keys, values) ==
    DOMAIN m \subseteq keys /\ m \in [DOMAIN m -> values]

EmptyMap == [k \in {} |-> k]

\* (map-set m k v): adds the key or overwrites it.
MapSet(m, k, v) == [x \in DOMAIN m \cup {k} |-> IF x = k THEN v ELSE m[x]]

\* (map-delete m k).
MapDelete(m, k) == Restrict(m, DOMAIN m \ {k})

\* (default-to d (map-get? m k)).
MapGetOr(m, k, d) == IF k \in DOMAIN m THEN m[k] ELSE d

=============================================================================
