--------------------------- MODULE MetadataMirror ---------------------------
(***************************************************************************)
(* What the metadata worker promises to those who read the Asset table: it *)
(* mirrors the registry.  Somebody watches the asset of each row, until it *)
(* is given up; only who watches it writes its metadata, and never what is *)
(* older.  MetadataWorker implements it, with a queue of jobs that expire, *)
(* fail and are retried, and handlers that hold batches of them.           *)
(***************************************************************************)
EXTENDS Naturals

CONSTANTS Assets, MaxVersion

VARIABLES
  registry,    \* version of each asset's metadata in the registry
  rows,        \* assets with a row in the Asset table
  stored,      \* version of the metadata in the row
  watched,     \* assets whose metadata will be looked up
  givenUp,     \* assets that were watched, and nobody watches any more
  repeated     \* assets that were watched twice: of those less is promised

mirrorVars == <<registry, rows, stored, watched, givenUp, repeated>>

Init ==
  /\ registry = [a \in Assets |-> 0] /\ stored = [a \in Assets |-> 0]
  /\ rows = {} /\ watched = {} /\ givenUp = {} /\ repeated = {}

Renew(a) ==
  /\ registry[a] < MaxVersion
  /\ registry' = [registry EXCEPT ![a] = @ + 1]
  /\ UNCHANGED <<rows, stored, watched, givenUp, repeated>>

\* A row is watched from the start; twice, if its asset was watched still.
Insert(a) ==
  /\ a \notin rows
  /\ rows' = rows \cup {a}
  /\ watched' = watched \cup {a} /\ givenUp' = givenUp \ {a}
  /\ repeated' = repeated \cup ({a} \cap watched)
  /\ UNCHANGED <<registry, stored>>

Delete(a) ==
  /\ a \in rows
  /\ rows' = rows \ {a}
  /\ stored' = [stored EXCEPT ![a] = 0]
  /\ UNCHANGED <<registry, watched, givenUp, repeated>>

\* A version the registry has had takes the place of one that is not newer.
Update(a) ==
  /\ a \in rows /\ a \in watched \cup repeated
  /\ \E v \in 1..registry[a] :
       /\ a \in repeated \/ stored[a] <= v
       /\ stored' = [stored EXCEPT ![a] = v]
  /\ UNCHANGED <<registry, rows, watched, givenUp, repeated>>

\* The watch goes on: an asset leaves it only to be given up, and comes back only
\* as one that is watched twice.
Attend ==
  /\ UNCHANGED <<registry, rows, stored>>
  /\ repeated \subseteq repeated'
  /\ watched \ watched' \subseteq givenUp'
  /\ watched' \ watched \subseteq repeated'
  /\ givenUp \ givenUp' \subseteq watched'

Next ==
  \/ Attend
  \/ \E a \in Assets : Renew(a) \/ Insert(a) \/ Delete(a) \/ Update(a)

Spec == Init /\ [][Next]_mirrorVars
=============================================================================
