----------------------------- MODULE MCOrganize -----------------------------
(* Names and requests for the organize run: "a" and "A" are one tag, the   *)
(* full-width "fA" becomes it by normalizeTagName but not by lower(), and  *)
(* " " is blank.  Every way to select messages meets every change.         *)
EXTENDS Organize, TLC

MCName == {"A", "fA", "b", " "}
MCTag == {"a", "b"}
MCNormal == "A" :> "a" @@ "fA" :> "a" @@ "b" :> "b" @@ " " :> ""
MCLower == "A" :> "a" @@ "fA" :> "fa" @@ "b" :> "b" @@ " " :> ""

Selection == {[ids |-> {}, seek |-> {}, more |-> FALSE, include_deleted |-> FALSE],
              [ids |-> MessageId, seek |-> {}, more |-> FALSE, include_deleted |-> TRUE],
              [ids |-> {}, seek |-> {"A"}, more |-> FALSE, include_deleted |-> FALSE],
              [ids |-> {}, seek |-> {}, more |-> TRUE, include_deleted |-> FALSE]}
Change == {[add |-> {"A"}, remove |-> {" ", "b"}],
           [add |-> {"b"}, remove |-> {"A"}],
           [add |-> {"fA", "b"}, remove |-> {}],
           [add |-> {}, remove |-> {"fA", "b"}],
           [add |-> {"A"}, remove |-> {"fA"}]}
MCRequest == {[ids |-> s.ids, seek |-> s.seek, more |-> s.more,
               include_deleted |-> s.include_deleted,
               add |-> c.add, remove |-> c.remove] :
                  s \in Selection, c \in Change}
=============================================================================
