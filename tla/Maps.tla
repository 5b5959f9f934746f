-------------------------------- MODULE Maps --------------------------------
(* std::map as a function from the keys it holds to their values. *)
EXTENDS FiniteSets

EmptyMap == [k \in {} |-> 0]

(* map[key] = value *)
With(map, key, value) ==
  [k \in DOMAIN map \cup {key} |-> IF k = key THEN value ELSE map[k]]

(* map.erase(k) for every k in ks *)
Without(map, ks) == [k \in DOMAIN map \ ks |-> map[k]]

(* map.size() *)
Size(map) == Cardinality(DOMAIN map)
=============================================================================
