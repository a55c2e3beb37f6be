--------------------------- MODULE DataEngineLog ----------------------------
(***************************************************************************)
(* DataEngine implements TopicLog: the log of a topic is what a reader     *)
(* sees, the rows of its committed chunks one after the other.             *)
(***************************************************************************)
EXTENDS DataEngine, SequencesExt

visible == [e \in Engines |-> [t \in Topics |->
              FlattenSeq([i \in 1 .. Len(sealed[e][t]) |-> sealed[e][t][i].rows])]]

Log == INSTANCE TopicLog WITH log <- visible

(* Every step of writers, commit, retention and flushTo appends a run of   *)
(* rows to one topic's log in time order, drops oldest rows, moves a whole *)
(* topic to the other engine, or is invisible to readers.                  *)
ImplementsTopicLog == Log!Spec
=============================================================================
