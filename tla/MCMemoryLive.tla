---------------------------- MODULE MCMemoryLive ----------------------------
(***************************************************************************)
(* The memory store for TLC when calls are to return: every statement of   *)
(* every call, under the fairness of MemoryStore, but only some requests,  *)
(* so that the instance stays small enough for liveness.                   *)
(***************************************************************************)
EXTENDS MemoryStore

(* A compaction is of message 1 and has no topic; updates link both        *)
(* messages, the smallest number of rows that can be locked crosswise;     *)
(* only message 1 is forgotten.                                            *)
Few ==
    /\ \A r \in {req[c] : c \in Call} :
          /\ r.op = "remember" => /\ r.compacted_from \in {{}, {1}}
                                  /\ r.compacted_from # {} => r.topic = NoTopic
          /\ r.op = "update" => {1} \notin {r.add, r.remove}
    /\ \A m \in DOMAIN t_messages : t_messages[m].is_deleted => m = 1

LiveNext == \E c \in Call : (Arrive(c) /\ Few') \/ Proceed(c) \/ Abort(c)

LiveSpec == /\ Init /\ [][LiveNext]_vars
            /\ \A c \in Call : SF_vars(Proceed(c))
            /\ WF_vars(DeadlockDetected)
=============================================================================
