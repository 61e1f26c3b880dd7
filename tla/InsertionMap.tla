---------------------------- MODULE InsertionMap ----------------------------
(***************************************************************************)
(* A JavaScript Map with string keys, as the sequence of its entries in    *)
(* insertion order.  An entry is a record whose key is its field `id`.     *)
(* Both the relay (agents of a session) and the agent (adapters) pick an   *)
(* entry by its place in that order, so a function would lose too much.    *)
(***************************************************************************)
EXTENDS Naturals, Sequences, FiniteSets, SequencesExt

Keys(m) == {m[i].id : i \in DOMAIN m}

Position(m, w) == CHOOSE i \in DOMAIN m : m[i].id = w

\* Map.get of a key that is present.
At(m, w) == m[Position(m, w)]

\* Map.set: the entry of a key that is present is replaced where it stands.
MapSet(m, e) ==
  IF e.id \in Keys(m) THEN [m EXCEPT ![Position(m, e.id)] = e] ELSE Append(m, e)

MapDelete(m, w) == IF w \in Keys(m) THEN RemoveAt(m, Position(m, w)) ELSE m

\* map.keys().next().value ?? null
FirstKey(m, none) == IF m = <<>> THEN none ELSE m[1].id

\* The entries at the places I, in order: entry n has n places of I up to it.
Entries(m, I) ==
  [n \in 1 .. Cardinality(I) |->
     m[CHOOSE i \in I : Cardinality({j \in I : j <= i}) = n]]

=============================================================================
