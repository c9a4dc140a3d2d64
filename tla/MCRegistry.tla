----------------------------- MODULE MCRegistry -----------------------------
(* Two entities, one component type per treatment by the serializer, two
   payloads, and runs that register the same meshes under different ids or
   miss one of them. *)
EXTENDS Registry

CONSTANTS Cube, Sensor, Broken

MCCatalogues == {<<Broken, Sensor>>, <<Sensor>>}

\* The run's bound: one stray at a time, with components of restored types; and
\* the payloads of the entity with the largest id keep the default.
Bounded ==
  /\ Cardinality(strays) <= 1
  /\ \A t \in WriteOnly \cap DOMAIN pools : (strays = {} \/ pools[t].data = <<>>)
  /\ \A t \in Plain \cap DOMAIN pools :
       \A i \in 1 .. Len(pools[t].data) :
         (pools[t].entities[i] = MaxID => pools[t].data[i] = Default)
=============================================================================
