---------------------------- MODULE MemoryServer ----------------------------
(***************************************************************************)
(* The memory commands behind the two transports of server.py: main() runs *)
(* the server over stdio, where its one client waits for each answer       *)
(* before it calls again (serial), or over HTTP, where calls overlap.      *)
(***************************************************************************)
EXTENDS MemoryStore

VARIABLE serial   \* which transport this process was started with

Busy == {c \in Call : pc[c] # "idle"}

ServerInit == Init /\ serial \in BOOLEAN

ServerNext == /\ \E c \in Call : /\ serial => Busy \subseteq {c}
                                 /\ Arrive(c) \/ Proceed(c) \/ Abort(c)
              /\ UNCHANGED serial

ServerSpec == ServerInit /\ [][ServerNext]_<<vars, serial>>

(* While calls come one at a time a message is the source of at most one   *)
(* compaction ("double compaction prevention", message_repo.py:492,544).   *)
SerialNoDoubleCompaction == serial => NoDoubleCompaction

(* What validateCompactSource asks still holds at the commit when calls    *)
(* come one at a time: live sources, of one topic at most, in no other     *)
(* compaction.                                                             *)
SerialCompactionSound == [][serial => SoundCompactions]_vars
=============================================================================
