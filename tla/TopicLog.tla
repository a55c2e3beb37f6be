------------------------------ MODULE TopicLog ------------------------------
(***************************************************************************)
(* What the datastore promises a reader of one topic, independently of     *)
(* writers, builders and chunks: each topic of each engine is a log of     *)
(* rows in time order that only ever grows at its end, loses rows at its   *)
(* beginning, or moves as a whole to the end of the topic with the same    *)
(* key in another engine.                                                  *)
(***************************************************************************)
EXTENDS Integers, Sequences

CONSTANTS Engines, Topics, TopicKey

VARIABLE log    \* log[e][t]: the committed rows of topic t, oldest first

Sorted(rows) == \A i, j \in 1 .. Len(rows) : i <= j => rows[i].ts <= rows[j].ts

Others(S) == \A e \in Engines, t \in Topics :
                <<e, t>> \notin S => log'[e][t] = log[e][t]

Init == log = [e \in Engines |-> [t \in Topics |-> <<>>]]

(* A chunk is committed: its rows become the end of the log at once.       *)
Extend(e, t) ==
    /\ Len(log'[e][t]) > Len(log[e][t])
    /\ SubSeq(log'[e][t], 1, Len(log[e][t])) = log[e][t]
    /\ Sorted(log'[e][t])
    /\ Others({<<e, t>>})

(* Retention: topics of one engine lose oldest rows, never the newest one. *)
Expire(e) ==
    /\ \A t \in Topics :
          \E n \in 0 .. Len(log[e][t]) :
             /\ log'[e][t] = SubSeq(log[e][t], n + 1, Len(log[e][t]))
             /\ log[e][t] # <<>> => log'[e][t] # <<>>
    /\ Others({e} \X Topics)

(* A whole topic moves to another engine.                                  *)
Move(e, f, s, d) ==
    /\ e # f
    /\ TopicKey[s] = TopicKey[d]
    /\ log[e][s] # <<>>
    /\ log'[e][s] = <<>>
    /\ log'[f][d] = log[f][d] \o log[e][s]
    /\ Sorted(log'[f][d])
    /\ Others({<<e, s>>, <<f, d>>})

Next ==
    \/ \E e \in Engines, t \in Topics : Extend(e, t)
    \/ \E e \in Engines : Expire(e)
    \/ \E e, f \in Engines, s, d \in Topics : Move(e, f, s, d)

Spec == Init /\ [][Next]_log
=============================================================================
