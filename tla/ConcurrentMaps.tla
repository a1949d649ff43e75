--------------------------- MODULE ConcurrentMaps ---------------------------
(***************************************************************************)
(* The operations of java.util.concurrent.ConcurrentHashMap that the       *)
(* server uses, each of which is atomic.  A map is a function whose domain *)
(* is the set of its keys, as is a std::map of the client.                 *)
(***************************************************************************)

EmptyMap == [k \in {} |-> {}]

(* map.put(k, v) *)
Put(map, k, v) ==
  [x \in DOMAIN map \cup {k} |-> IF x = k THEN v ELSE map[x]]

(* map.putIfAbsent(k, v) *)
PutIfAbsent(map, k, v) == IF k \in DOMAIN map THEN map ELSE Put(map, k, v)

(* map.remove(k) for every k in keys *)
RemoveKeys(map, keys) == [x \in DOMAIN map \ keys |-> map[x]]

(* map.entrySet().removeIf(entry -> entry.getValue().equals(v)) *)
RemoveValue(map, v) == [x \in {y \in DOMAIN map : map[y] # v} |-> map[x]]

(* map.values() *)
Values(map) == {map[x] : x \in DOMAIN map}

(* The maps from a subset of keys to values *)
MapsOf(keys, values) == UNION {[D -> values] : D \in SUBSET keys}

=============================================================================
