----------------------------- MODULE Registries -----------------------------
(***************************************************************************)
(* TopicRegistry and SchemaRegistry: the topics a recording carries, one   *)
(* per channel, and the nodes of their schemas.  Both are values of the    *)
(* port that records, are written to a file each once the graph is wired,  *)
(* and are adopted from those files by whoever replays the recording.      *)
(***************************************************************************)
EXTENDS Naturals, Sequences, FiniteSets

\* A topic is [channel, name, schema]; names are numbers in alphabetical order.
Topic(channel, name, schema) ==
  [channel |-> channel, name |-> name, schema |-> schema]

\* record(): a channel already present is refused, whatever its topic.
Carried(topics, channel) == \E t \in topics : t.channel = channel
Record(topics, t) == topics \cup {t}

\* write(): ordered by name; topics of one name come in any order.
TopicFilesUnordered(topics) ==
  {f \in [1 .. Cardinality(topics) -> topics] : \A i, j \in DOMAIN f : i # j => f[i] # f[j]}
TopicFiles(topics) ==
  {f \in [1 .. Cardinality(topics) -> topics] :
     /\ \A i, j \in DOMAIN f : i # j => f[i] # f[j]
     /\ \A i, j \in DOMAIN f : i < j => f[i].name <= f[j].name}

\* The loading constructor enters one record after another and keeps those
\* before the first that cannot be read, or whose channel is taken.
Unreadable == [channel |-> "none"]
Adopted(file) ==
  {file[i] : i \in {j \in DOMAIN file : \A k \in 1 .. j :
                      /\ file[k] # Unreadable
                      /\ \A l \in 1 .. k - 1 : file[l].channel # file[k].channel}}

\* SchemaRegistry: nodes by id.  A schema is recorded with its closure.
RecordSchema(nodes, closure) == nodes \cup closure
SchemaFiles(nodes) ==
  {f \in [1 .. Cardinality(nodes) -> nodes] : \A i, j \in DOMAIN f : i # j => f[i] # f[j]}
AdoptedNodes(file) ==
  {file[i] : i \in {j \in DOMAIN file : \A k \in 1 .. j : file[k] # Unreadable}}

\* What is left of a file when one of its records is damaged, or none is, or
\* the file is not JSON at all and no record of it is seen.
Damaged(file) == {file, <<>>} \cup {[file EXCEPT ![i] = Unreadable] : i \in DOMAIN file}
=============================================================================
