--------------------------- MODULE MCMemoryStore ---------------------------
(***************************************************************************)
(* The memory server for TLC: symmetry, and for each transport the bounds  *)
(* that its questions need.                                                *)
(***************************************************************************)
EXTENDS MemoryServer, TLC

Symmetry == Permutations(Call) \cup Permutations(Date) \cup Permutations(Content)

Remembering == {req[c] : c \in {b \in Busy : req[b].op = "remember"}}
Updating == {req[c] : c \in {b \in Busy : req[b].op = "update"}}
DatesUsed == {s.date : s \in t_sessions} \cup {r.date : r \in Remembering}
ContentsUsed == {t_messages[m].content : m \in DOMAIN t_messages}
                \cup {r.content : r \in Remembering}

(* Three messages of one date and content and two topics, a call at a time. *)
SerialBounds == /\ Cardinality(DatesUsed) <= 1
                /\ Cardinality(ContentsUsed) <= 1

(* Two messages and a topic, calls interleaved. *)
OverlapBounds == /\ remembers <= 2
                 /\ seq.topic <= 1
                 /\ \A r \in Remembering \cup Updating : r.topic <= 1
                 /\ \A r \in Remembering : {1, 2} # r.compacted_from
                 /\ \A r \in Updating : {1, 2} \notin {r.add, r.remove}

ModeNext == /\ ServerNext
            /\ serial => SerialBounds'
            /\ ~ serial => OverlapBounds'
ModeSpec == ServerInit /\ [][ModeNext]_<<vars, serial>>
=============================================================================
