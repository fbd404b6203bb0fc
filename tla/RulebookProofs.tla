--------------------------- MODULE RulebookProofs ---------------------------
(***************************************************************************)
(* The append-only history of rules, for any number of calls, paths,       *)
(* personas and versions.                                                  *)
(***************************************************************************)
EXTENDS Rulebook, WellFoundedInduction, TLAPS

History == UNION {[vs -> Row] : vs \in SUBSET (1..MaxVersion)}

(* What a call that is about to insert knows of its path: the versions     *)
(* before its own are stored and of its persona.  Once it has inserted,    *)
(* the unique key is its own.                                              *)
Pending ==
    /\ \A c \in Call : pc[c] \in {"insert", "inserted"} =>
          \A v \in 1..(tx[c].version - 1) :
             /\ v \in Versions(tx[c].path)
             /\ rules[tx[c].path][v].persona_id = tx[c].persona_id
    /\ \A c \in Call : pc[c] = "inserted" =>
          tx[c].version \notin Versions(tx[c].path)
    /\ \A c, d \in Call : (c # d /\ pc[c] = "inserted" /\ pc[d] = "inserted")
                             => ~ SameKey(tx[c], tx[d])

RetirePending ==
    \A c \in Call : pc[c] = "retire" => tx[c].version \in Versions(tx[c].path)

IInv == /\ TypeOK
        /\ VersionsContiguous
        /\ OnePersonaPerPath
        /\ Pending
        /\ RetirePending

-----------------------------------------------------------------------------
(* A non-empty set of numbers up to n has a greatest element.              *)
LEMMA GreatestExists ==
    ASSUME NEW n \in Nat, NEW T \in SUBSET (1..n), T # {}
    PROVE  \E v \in T : \A w \in T : w <= v
<1> DEFINE U == {n - v : v \in T}
<1>1. U \in SUBSET Nat /\ U # {}
  <2>1. PICK v \in T : TRUE
    OBVIOUS
  <2>2. n - v \in U
    BY <2>1
  <2>3. \A v1 \in T : n - v1 \in Nat
    OBVIOUS
  <2> QED
    BY <2>2, <2>3
<1>2. PICK x \in U : \A y \in U : ~ (<<y, x>> \in OpToRel(<, Nat))
  BY <1>1, WFMin, NatLessThanWellFounded
<1>3. \A y \in U : ~ (y < x)
  BY <1>1, <1>2 DEF OpToRel
<1>4. PICK v \in T : x = n - v
  BY <1>2
<1>5. \A w \in T : ~ (n - w < n - v)
  BY <1>3, <1>4
<1> QED
  BY <1>5

(* Latest returns the newest stored version.                               *)
LEMMA LatestIsNewest ==
    ASSUME TypeOK, NEW p \in Path, Versions(p) # {}
    PROVE  /\ Latest(p) \in Versions(p)
           /\ Latest(p) \in 1..MaxVersion
           /\ \A w \in Versions(p) : w <= Latest(p)
<1>1. Versions(p) \in SUBSET (1..MaxVersion)
  BY DEF TypeOK, Versions
<1>2. \E v \in Versions(p) : \A w \in Versions(p) : w <= v
  BY <1>1, GreatestExists, RulebookAssumption
<1> QED
  BY <1>1, <1>2 DEF Latest

LEMMA LatestIsNewestNext ==
    ASSUME TypeOK', NEW p \in Path, Versions(p)' # {}
    PROVE  /\ Latest(p)' \in Versions(p)'
           /\ Latest(p)' \in 1..MaxVersion
           /\ \A w \in Versions(p)' : w <= Latest(p)'
<1>1. Versions(p)' \in SUBSET (1..MaxVersion)
  BY DEF TypeOK, Versions
<1>2. \E v \in Versions(p)' : \A w \in Versions(p)' : w <= v
  BY <1>1, GreatestExists, RulebookAssumption
<1> QED
  BY <1>1, <1>2 DEF Latest

(* The rows of a path and what storing a row does to them. *)
LEMMA HistoryRows ==
    ASSUME NEW h \in History
    PROVE  /\ DOMAIN h \subseteq 1..MaxVersion
           /\ \A v \in DOMAIN h : h[v] \in Row
BY DEF History

LEMMA StoredHistory ==
    ASSUME NEW h \in History, NEW v \in 1..MaxVersion, NEW row \in Row
    PROVE  [w \in DOMAIN h \cup {v} |-> IF w = v THEN row ELSE h[w]] \in History
<1> DEFINE vs == DOMAIN h \cup {v}
           g == [w \in vs |-> IF w = v THEN row ELSE h[w]]
<1>1. vs \in SUBSET (1..MaxVersion)
  BY HistoryRows
<1>2. g \in [vs -> Row]
  BY HistoryRows
<1> QED
  BY <1>1, <1>2 DEF History

-----------------------------------------------------------------------------
LEMMA InitInvariant == Init => IInv
<1> SUFFICES ASSUME Init PROVE IInv
  OBVIOUS
<1>1. \A p \in Path : rules[p] \in Seed
  BY DEF Init
<1>2. Seed \subseteq History
  <2>1. [v \in {} |-> 0] \in [{} -> Row]
    OBVIOUS
  <2>2. \A x \in Content, a \in Persona, e \in BOOLEAN :
           [v \in {1} |-> NewRow(x, a, e)] \in [{1} -> Row]
    BY DEF NewRow, Row
  <2>3. {} \in SUBSET (1..MaxVersion) /\ {1} \in SUBSET (1..MaxVersion)
    BY RulebookAssumption
  <2>4. [v \in {} |-> 0] \in History
    BY <2>1, <2>3 DEF History
  <2>5. \A x \in Content, a \in Persona, e \in BOOLEAN :
           [v \in {1} |-> NewRow(x, a, e)] \in History
    BY <2>2, <2>3 DEF History
  <2>6. ASSUME NEW h \in Seed PROVE h \in History
    <3>1. CASE h = [v \in {} |-> 0]
      BY <2>4, <3>1
    <3>2. CASE \E x \in Content, a \in Persona, e \in BOOLEAN :
                  h = [v \in {1} |-> NewRow(x, a, e)]
      BY <2>5, <3>2
    <3> QED
      BY <3>1, <3>2 DEF Seed
  <2> QED
    BY <2>6
<1>3. \A p \in Path : DOMAIN rules[p] \subseteq {1}
  BY <1>1 DEF Seed
<1>4. TypeOK
  BY <1>2 DEF Init, TypeOK, History, Phase
<1>5. VersionsContiguous /\ OnePersonaPerPath
  BY <1>3 DEF VersionsContiguous, OnePersonaPerPath, Versions
<1>6. Pending /\ RetirePending
  BY DEF Init, Pending, RetirePending
<1> QED
  BY <1>4, <1>5, <1>6 DEF IInv

LEMMA StepInvariant == IInv /\ [Next]_vars => IInv'
<1> SUFFICES ASSUME IInv, [Next]_vars PROVE IInv'
  OBVIOUS
<1> USE DEF IInv
<1>1. ASSUME NEW c \in Call, NEW p \in Path, NEW text \in Content,
             NEW persona \in Persona, SetRead(c, p, text, persona)
      PROVE  IInv'
  <2> DEFINE t == tx'[c]
  <2>1. /\ pc[c] = "idle"
        /\ pc' = [pc EXCEPT ![c] = "insert"]
        /\ tx' = [tx EXCEPT ![c] = t]
        /\ UNCHANGED rules
    BY <1>1 DEF SetRead, Begin, TypeOK
  <2>2. /\ t \in Target
        /\ t.path = p
        /\ \A v \in 1..(t.version - 1) :
              v \in Versions(p) /\ rules[p][v].persona_id = t.persona_id
    <3>1. CASE Versions(p) = {}
      <4>1. t = [path |-> p, version |-> 1, content |-> text,
                 persona_id |-> persona]
        BY <1>1, <3>1 DEF SetRead, Begin, TypeOK
      <4> QED
        BY <4>1, RulebookAssumption DEF Target
    <3>2. CASE Versions(p) # {}
      <4> DEFINE n == Latest(p)
      <4>1. /\ t = [path |-> p, version |-> n + 1, content |-> text,
                    persona_id |-> rules[p][n].persona_id]
            /\ n < MaxVersion
        BY <1>1, <3>2 DEF SetRead, Begin, TypeOK
      <4>2. n \in Versions(p) /\ n \in 1..MaxVersion
        BY <3>2, LatestIsNewest
      <4>3. rules[p][n] \in Row
        BY <4>2, HistoryRows DEF TypeOK, History, Versions
      <4>4. t \in Target /\ t.path = p
        BY <4>1, <4>2, <4>3, RulebookAssumption DEF Target, Row
      <4>5. \A v \in 1..n : v \in Versions(p)
                             /\ rules[p][v].persona_id = t.persona_id
        BY <4>1, <4>2 DEF VersionsContiguous, OnePersonaPerPath
      <4> QED
        BY <4>1, <4>2, <4>4, <4>5
    <3> QED
      BY <3>1, <3>2
  <2>3. TypeOK'
    BY <2>1, <2>2 DEF TypeOK, Phase
  <2>4. VersionsContiguous' /\ OnePersonaPerPath'
    BY <2>1 DEF VersionsContiguous, OnePersonaPerPath, Versions
  <2>5. Pending'
    BY <2>1, <2>2 DEF Pending, Versions, SameKey, TypeOK
  <2>6. RetirePending'
    BY <2>1 DEF RetirePending, Versions, TypeOK
  <2> QED
    BY <2>3, <2>4, <2>5, <2>6
<1>2. ASSUME NEW c \in Call, SetInsert(c) PROVE IInv'
  <2>1. pc[c] = "insert" /\ UNCHANGED rules
    BY <1>2 DEF SetInsert
  <2>2. CASE tx[c].version \in Versions(tx[c].path)
    <3>1. pc' = [pc EXCEPT ![c] = "idle"] /\ tx' = [tx EXCEPT ![c] = Idle]
      BY <1>2, <2>2 DEF SetInsert, End
    <3>2. TypeOK'
      BY <2>1, <3>1 DEF TypeOK, Phase
    <3>3. VersionsContiguous' /\ OnePersonaPerPath'
      BY <2>1 DEF VersionsContiguous, OnePersonaPerPath, Versions
    <3>4. Pending' /\ RetirePending'
      BY <2>1, <3>1 DEF Pending, RetirePending, Versions, SameKey, TypeOK
    <3> QED
      BY <3>2, <3>3, <3>4
  <2>3. CASE tx[c].version \notin Versions(tx[c].path)
    <3>1. pc' = [pc EXCEPT ![c] = "inserted"] /\ UNCHANGED tx
      BY <1>2, <2>3 DEF SetInsert
    <3>2. \A o \in Call \ {c} : pc[o] = "inserted" => ~ SameKey(tx[o], tx[c])
      BY <1>2 DEF SetInsert
    <3>3. TypeOK'
      BY <2>1, <3>1 DEF TypeOK, Phase
    <3>4. VersionsContiguous' /\ OnePersonaPerPath'
      BY <2>1 DEF VersionsContiguous, OnePersonaPerPath, Versions
    <3>5. Pending' /\ RetirePending'
      BY <2>1, <2>3, <3>1, <3>2
      DEF Pending, RetirePending, Versions, SameKey, TypeOK
    <3> QED
      BY <3>3, <3>4, <3>5
  <2> QED
    BY <2>2, <2>3
<1>3. ASSUME NEW c \in Call, SetCommit(c) PROVE IInv'
  <2> DEFINE p == tx[c].path
             v == tx[c].version
             row == NewRow(tx[c].content, tx[c].persona_id, TRUE)
             h == [w \in DOMAIN rules[p] \cup {v} |->
                      IF w = v THEN row ELSE rules[p][w]]
  <2>1. /\ pc[c] = "inserted"
        /\ pc' = [pc EXCEPT ![c] = "idle"]
        /\ tx' = [tx EXCEPT ![c] = Idle]
        /\ rules' = [rules EXCEPT ![p] = h]
    BY <1>3 DEF SetCommit, Store, End
  <2>2. tx[c] \in Target
    BY <2>1 DEF TypeOK
  <2>3. p \in Path /\ v \in 1..MaxVersion /\ row \in Row
    BY <2>2 DEF Target, NewRow, Row
  <2>4. rules[p] \in History
    BY <2>3 DEF TypeOK, History
  <2>5. h \in History
    BY <2>3, <2>4, StoredHistory
  <2>6. TypeOK'
    BY <2>1, <2>3, <2>5 DEF TypeOK, History, Phase
  <2>7. /\ v \notin Versions(p)
        /\ \A w \in 1..(v - 1) : w \in Versions(p)
                                 /\ rules[p][w].persona_id = row.persona_id
    BY <2>1 DEF Pending, NewRow
  <2>8. /\ DOMAIN rules'[p] = Versions(p) \cup {v}
        /\ \A w \in Versions(p) : rules'[p][w] = rules[p][w]
        /\ rules'[p][v] = row
        /\ \A q \in Path : q # p => rules'[q] = rules[q]
    BY <2>1, <2>3, <2>7 DEF TypeOK, Versions
  <2>9. Versions(p) \subseteq 1..MaxVersion
    BY <2>4, HistoryRows DEF Versions
  <2> HIDE DEF p, v, row, h
  <2>10. VersionsContiguous'
    <3> SUFFICES ASSUME NEW q \in Path, NEW x \in DOMAIN rules'[q], NEW y \in 1..x
                 PROVE  y \in DOMAIN rules'[q]
      BY DEF VersionsContiguous, Versions
    <3>1. CASE q # p
      BY <2>8, <3>1 DEF VersionsContiguous, Versions
    <3>2. CASE q = p /\ x = v
      BY <2>3, <2>7, <2>8, <3>2
    <3>3. CASE q = p /\ x # v
      BY <2>3, <2>8, <3>3 DEF VersionsContiguous
    <3> QED
      BY <3>1, <3>2, <3>3
  <2>11. \A w \in Versions(p) : rules[p][w].persona_id = row.persona_id
    <3> TAKE w \in Versions(p)
    <3>1. w < v
      BY <2>3, <2>7, <2>9 DEF VersionsContiguous
    <3>2. w \in 1..(v - 1)
      BY <2>3, <2>9, <3>1, RulebookAssumption
    <3> QED
      BY <2>7, <3>2
  <2>12. OnePersonaPerPath'
    <3> SUFFICES ASSUME NEW q \in Path, NEW x \in DOMAIN rules'[q],
                        NEW y \in DOMAIN rules'[q]
                 PROVE  rules'[q][x].persona_id = rules'[q][y].persona_id
      BY DEF OnePersonaPerPath, Versions
    <3>1. CASE q # p
      BY <2>8, <3>1 DEF OnePersonaPerPath, Versions
    <3>2. CASE q = p
      BY <2>8, <2>11, <3>2
    <3> QED
      BY <3>1, <3>2
  <2> USE DEF p, v
  <2>13. Pending'
    <3>1. \A d \in Call : pc'[d] \in {"insert", "inserted"} =>
             d # c /\ tx'[d] = tx[d] /\ pc'[d] = pc[d] /\ tx[d] \in Target
      BY <2>1 DEF TypeOK
    <3>2. \A d \in Call : pc'[d] \in {"insert", "inserted"} =>
             \A w \in 1..(tx'[d].version - 1) :
                /\ w \in DOMAIN rules'[tx'[d].path]
                /\ rules'[tx'[d].path][w].persona_id = tx'[d].persona_id
      BY <2>8, <3>1 DEF Pending, Versions, Target
    <3>3. \A d \in Call : pc'[d] = "inserted" =>
             tx'[d].version \notin DOMAIN rules'[tx'[d].path]
      BY <2>1, <2>8, <3>1 DEF Pending, Versions, Target, SameKey
    <3>4. \A d, e \in Call : (d # e /\ pc'[d] = "inserted" /\ pc'[e] = "inserted")
             => ~ SameKey(tx'[d], tx'[e])
      BY <3>1 DEF Pending
    <3> QED
      BY <3>2, <3>3, <3>4 DEF Pending, Versions, SameKey
  <2>14. RetirePending'
    BY <2>1, <2>8 DEF RetirePending, Versions, TypeOK, Target
  <2> QED
    BY <2>6, <2>10, <2>12, <2>13, <2>14
<1>4. ASSUME NEW c \in Call, NEW p \in Path, RetireRead(c, p) PROVE IInv'
  <2> DEFINE row == rules[p][Latest(p)]
  <2>1. /\ pc[c] = "idle"
        /\ pc' = [pc EXCEPT ![c] = "retire"]
        /\ tx' = [tx EXCEPT ![c] = [path |-> p, version |-> Latest(p),
                                    content |-> row.content,
                                    persona_id |-> row.persona_id]]
        /\ UNCHANGED rules
        /\ Versions(p) # {}
    BY <1>4 DEF RetireRead, Begin
  <2>2. Latest(p) \in Versions(p) /\ Latest(p) \in 1..MaxVersion
    BY <2>1, LatestIsNewest
  <2>3. row \in Row
    BY <2>2, HistoryRows DEF TypeOK, History, Versions
  <2>4. TypeOK'
    BY <2>1, <2>2, <2>3 DEF TypeOK, Phase, Target, Row
  <2>5. VersionsContiguous' /\ OnePersonaPerPath'
    BY <2>1 DEF VersionsContiguous, OnePersonaPerPath, Versions
  <2>6. Pending' /\ RetirePending'
    BY <2>1, <2>2 DEF Pending, RetirePending, Versions, SameKey, TypeOK
  <2> QED
    BY <2>4, <2>5, <2>6
<1>5. ASSUME NEW p \in Path, NEW v \in Versions(p), NEW row \in Row,
             row.persona_id = rules[p][v].persona_id,
             rules' = [rules EXCEPT ![p] = [rules[p] EXCEPT ![v] = row]]
      PROVE  /\ rules' \in [Path -> History]
             /\ VersionsContiguous'
             /\ OnePersonaPerPath'
             /\ \A q \in Path : /\ Versions(q)' = Versions(q)
                                 /\ \A w \in Versions(q) :
                                      rules'[q][w].persona_id = rules[q][w].persona_id
  <2>1. [rules[p] EXCEPT ![v] = row] \in History
    BY <1>5 DEF TypeOK, History, Versions
  <2>2. rules' \in [Path -> History]
    BY <1>5, <2>1 DEF TypeOK, History
  <2>3. \A q \in Path : /\ DOMAIN rules'[q] = DOMAIN rules[q]
                        /\ \A w \in DOMAIN rules[q] :
                              rules'[q][w].persona_id = rules[q][w].persona_id
    BY <1>5 DEF TypeOK, Versions
  <2> QED
    BY <2>2, <2>3 DEF VersionsContiguous, OnePersonaPerPath, Versions
<1>6. ASSUME NEW c \in Call, RetireCommit(c) PROVE IInv'
  <2> DEFINE p == tx[c].path
             v == tx[c].version
  <2>1. /\ pc[c] = "retire"
        /\ pc' = [pc EXCEPT ![c] = "idle"]
        /\ tx' = [tx EXCEPT ![c] = Idle]
        /\ rules' = [rules EXCEPT ![p] =
                       [rules[p] EXCEPT ![v] = [rules[p][v] EXCEPT !.is_retired = TRUE]]]
    BY <1>6 DEF RetireCommit, End, TypeOK
  <2>2. p \in Path /\ v \in Versions(p)
    BY <2>1 DEF TypeOK, Target, RetirePending
  <2>3. rules[p][v] \in Row
    BY <2>2, HistoryRows DEF TypeOK, History, Versions
  <2>4. /\ [rules[p][v] EXCEPT !.is_retired = TRUE] \in Row
        /\ [rules[p][v] EXCEPT !.is_retired = TRUE].persona_id
              = rules[p][v].persona_id
    BY <2>3 DEF Row
  <2>5. /\ rules' \in [Path -> History]
        /\ VersionsContiguous'
        /\ OnePersonaPerPath'
        /\ \A q \in Path : /\ Versions(q)' = Versions(q)
                            /\ \A w \in Versions(q) :
                                 rules'[q][w].persona_id = rules[q][w].persona_id
    BY <1>5, <2>1, <2>2, <2>4
  <2>6. TypeOK'
    BY <2>1, <2>5 DEF TypeOK, History, Phase
  <2>7. Pending'
    <3>1. \A d \in Call : pc'[d] \in {"insert", "inserted"} =>
             pc'[d] = pc[d] /\ tx'[d] = tx[d] /\ tx[d].path \in Path
      BY <2>1 DEF TypeOK, Target
    <3> QED
      BY <2>5, <3>1 DEF Pending, SameKey
  <2>8. RetirePending'
    BY <2>1, <2>5 DEF RetirePending, TypeOK, Target
  <2> QED
    BY <2>5, <2>6, <2>7, <2>8
<1>7. ASSUME NEW c \in Call, Abort(c) PROVE IInv'
  <2>1. /\ pc' = [pc EXCEPT ![c] = "idle"]
        /\ tx' = [tx EXCEPT ![c] = Idle]
        /\ UNCHANGED rules
    BY <1>7 DEF Abort, End
  <2>2. TypeOK'
    BY <2>1 DEF TypeOK, Phase
  <2>3. VersionsContiguous' /\ OnePersonaPerPath'
    BY <2>1 DEF VersionsContiguous, OnePersonaPerPath, Versions
  <2>4. Pending' /\ RetirePending'
    BY <2>1 DEF Pending, RetirePending, Versions, SameKey, TypeOK
  <2> QED
    BY <2>2, <2>3, <2>4
<1>8. ASSUME NEW p \in Path, OwnerLock(p) PROVE IInv'
  <2> DEFINE v == Latest(p)
  <2>1. /\ rules' = [rules EXCEPT ![p] =
                       [rules[p] EXCEPT ![v] = [rules[p][v] EXCEPT !.is_editable = FALSE]]]
        /\ UNCHANGED <<pc, tx>>
        /\ Versions(p) # {}
    BY <1>8 DEF OwnerLock, TypeOK
  <2>2. v \in Versions(p)
    BY <2>1, LatestIsNewest
  <2>3. rules[p][v] \in Row
    BY <2>2, HistoryRows DEF TypeOK, History, Versions
  <2>4. /\ [rules[p][v] EXCEPT !.is_editable = FALSE] \in Row
        /\ [rules[p][v] EXCEPT !.is_editable = FALSE].persona_id
              = rules[p][v].persona_id
    BY <2>3 DEF Row
  <2>5. /\ rules' \in [Path -> History]
        /\ VersionsContiguous'
        /\ OnePersonaPerPath'
        /\ \A q \in Path : /\ Versions(q)' = Versions(q)
                            /\ \A w \in Versions(q) :
                                 rules'[q][w].persona_id = rules[q][w].persona_id
    BY <1>5, <2>1, <2>2, <2>4
  <2>6. TypeOK'
    BY <2>1, <2>5 DEF TypeOK, History
  <2>7. Pending' /\ RetirePending'
    BY <2>1, <2>5 DEF Pending, RetirePending, SameKey, TypeOK, Target
  <2> QED
    BY <2>5, <2>6, <2>7
<1>9. CASE UNCHANGED vars
  BY <1>9 DEF vars, TypeOK, VersionsContiguous, OnePersonaPerPath, Pending,
              RetirePending, Versions, SameKey
<1> QED
  BY <1>1, <1>2, <1>3, <1>4, <1>6, <1>7, <1>8, <1>9 DEF Next, Statement

-----------------------------------------------------------------------------
LEMMA Invariant == Spec => []IInv
BY InitInvariant, StepInvariant, PTL DEF Spec

(* Type correctness of the rule table and of the calls' private rows.      *)
THEOREM TypeCorrect == Spec => []TypeOK
<1>1. IInv => TypeOK
  BY DEF IInv
<1> QED
  BY Invariant, <1>1, PTL

(* The versions of every path are 1, 2, ..., n without a hole, whatever    *)
(* sets collide, fail or race with a retire.                               *)
THEOREM Contiguous == Spec => []VersionsContiguous
<1>1. IInv => VersionsContiguous
  BY DEF IInv
<1> QED
  BY Invariant, <1>1, PTL

(* Every version of a path has the persona of its first version.           *)
THEOREM OnePersona == Spec => []OnePersonaPerPath
<1>1. IInv => OnePersonaPerPath
  BY DEF IInv
<1> QED
  BY Invariant, <1>1, PTL

(* No step changes or removes what is stored, but to retire or to lock.    *)
LEMMA StepAppends ==
    ASSUME IInv, [Next]_vars, NEW p \in Path, NEW v \in Versions(p)
    PROVE  /\ v \in DOMAIN rules'[p]
           /\ rules'[p][v].content = rules[p][v].content
           /\ rules'[p][v].persona_id = rules[p][v].persona_id
           /\ rules[p][v].is_retired => rules'[p][v].is_retired
           /\ ~ rules[p][v].is_editable => ~ rules'[p][v].is_editable
<1> USE DEF IInv
<1>0. rules[p] \in History /\ rules[p][v] \in Row
  BY HistoryRows DEF TypeOK, History, Versions
<1>1. CASE UNCHANGED rules
  BY <1>1 DEF Versions
<1>2. ASSUME NEW c \in Call, SetCommit(c)
      PROVE  v \in DOMAIN rules'[p] /\ rules'[p][v] = rules[p][v]
  <2>1. tx[c].version \notin Versions(tx[c].path) /\ tx[c].path \in Path
    BY <1>2 DEF SetCommit, Pending, TypeOK, Target
  <2> QED
    BY <1>2, <2>1 DEF SetCommit, Store, Versions, TypeOK
<1>3. ASSUME NEW c \in Call, RetireCommit(c)
      PROVE  /\ v \in DOMAIN rules'[p]
             /\ \/ rules'[p][v] = rules[p][v]
                \/ rules'[p][v] = [rules[p][v] EXCEPT !.is_retired = TRUE]
  BY <1>3 DEF RetireCommit, Versions, TypeOK
<1>4. ASSUME NEW q \in Path, OwnerLock(q)
      PROVE  /\ v \in DOMAIN rules'[p]
             /\ \/ rules'[p][v] = rules[p][v]
                \/ rules'[p][v] = [rules[p][v] EXCEPT !.is_editable = FALSE]
  BY <1>4 DEF OwnerLock, Versions, TypeOK
<1>5. \/ UNCHANGED rules
      \/ \E c \in Call : SetCommit(c)
      \/ \E c \in Call : RetireCommit(c)
      \/ \E q \in Path : OwnerLock(q)
  BY DEF Next, Statement, SetRead, SetInsert, RetireRead, Begin, Abort, vars
<1> QED
  BY <1>0, <1>1, <1>2, <1>3, <1>4, <1>5 DEF Row

(* Immutable append, for every step of every behaviour.                    *)
THEOREM AppendsOnly == Spec => AppendOnly
<1>1. IInv /\ [Next]_vars =>
        [\A p \in Path : \A v \in Versions(p) :
           /\ v \in DOMAIN rules'[p]
           /\ rules'[p][v].content = rules[p][v].content
           /\ rules'[p][v].persona_id = rules[p][v].persona_id
           /\ rules[p][v].is_retired => rules'[p][v].is_retired
           /\ ~ rules[p][v].is_editable => ~ rules'[p][v].is_editable]_vars
  BY StepAppends
<1> QED
  BY Invariant, <1>1, PTL DEF Spec, AppendOnly

(* A retire picks the newest version, and what it marks is the newest      *)
(* still when it commits, or a set has come in between.                    *)
LEMMA StepRetires ==
    ASSUME IInv, [Next]_vars, NEW c \in Call, NEW p \in Path
    PROVE  /\ (pc[c] = "idle" /\ pc'[c] = "retire" /\ tx'[c].path = p)
                 => \A w \in Versions(p) : w <= tx'[c].version
           /\ (pc[c] = "retire" /\ pc'[c] = "idle" /\ rules'[p] # rules[p])
                 => \/ ~ Active(p)'
                    \/ \E w \in Versions(p) : w > tx[c].version
<1> USE DEF IInv
<1>1. ASSUME pc[c] = "idle", pc'[c] = "retire", tx'[c].path = p
      PROVE  \A w \in Versions(p) : w <= tx'[c].version
  <2>1. PICK q \in Path : RetireRead(c, q)
    BY <1>1 DEF Next, Statement, SetRead, SetInsert, SetCommit, RetireRead,
                RetireCommit, OwnerLock, Begin, Abort, End, vars, TypeOK
  <2>2. /\ Versions(q) # {}
        /\ tx'[c].path = q
        /\ tx'[c].version = Latest(q)
    BY <2>1 DEF RetireRead, Begin, TypeOK
  <2> QED
    BY <1>1, <2>2, LatestIsNewest
<1>2. ASSUME pc[c] = "retire", pc'[c] = "idle", rules'[p] # rules[p],
             \A w \in Versions(p) : ~ (w > tx[c].version)
      PROVE  ~ Active(p)'
  <2> DEFINE v == tx[c].version
  <2>1. RetireCommit(c)
    BY <1>2 DEF Next, Statement, SetRead, SetInsert, SetCommit, RetireRead,
                RetireCommit, OwnerLock, Begin, Abort, End, vars, TypeOK
  <2>2. p = tx[c].path /\ v \in Versions(p) /\ v \in 1..MaxVersion
    BY <1>2, <2>1 DEF RetireCommit, RetirePending, TypeOK, Target
  <2>3. /\ Versions(p)' = Versions(p)
        /\ Versions(p) \subseteq 1..MaxVersion
        /\ rules'[p][v].is_retired
    <3>1. rules[p] \in History /\ rules[p][v] \in Row
      BY <2>2, HistoryRows DEF TypeOK, History, Versions
    <3>2. rules'[p] = [rules[p] EXCEPT ![v].is_retired = TRUE]
      BY <2>1, <2>2 DEF RetireCommit, TypeOK
    <3> QED
      BY <2>2, <3>1, <3>2, HistoryRows DEF Versions, Row
  <2>4. \A w \in Versions(p)' : w <= v
    BY <1>2, <2>2, <2>3, RulebookAssumption
  <2>5. Latest(p)' \in Versions(p)' /\ v <= Latest(p)'
    BY <2>2, <2>3, <2>4 DEF Latest
  <2>6. Latest(p)' = v
    BY <2>2, <2>3, <2>4, <2>5, RulebookAssumption
  <2> QED
    BY <2>3, <2>6 DEF Active
<1> QED
  BY <1>1, <1>2

(* No retire leaves a rule in force that is older than the newest version  *)
(* it could see, for any number of calls, paths and versions.              *)
THEOREM RetiresRule == Spec => RetireRemovesRule
<1>1. IInv /\ [Next]_vars =>
        [\A c \in Call, p \in Path :
           /\ (pc[c] = "idle" /\ pc'[c] = "retire" /\ tx'[c].path = p)
                 => \A w \in Versions(p) : w <= tx'[c].version
           /\ (pc[c] = "retire" /\ pc'[c] = "idle" /\ rules'[p] # rules[p])
                 => \/ ~ Active(p)'
                    \/ \E w \in Versions(p) : w > tx[c].version]_vars
  BY StepRetires
<1> QED
  BY Invariant, <1>1, PTL DEF Spec, RetireRemovesRule

-----------------------------------------------------------------------------
(* What the lock of a rule asks of the owner: not to lock a path for which *)
(* a set has read the newest version and has not committed yet.            *)
OwnerWaits ==
    [][\A p \in Path : OwnerLock(p) =>
         \A c \in Call : pc[c] \in {"insert", "inserted"} => tx[c].path # p]_vars

(* No set is under way for a constitutional rule. *)
LockApart ==
    \A c \in Call : pc[c] \in {"insert", "inserted"} => ~ Constitutional(tx[c].path)

(* Of a path whose rows have not changed nothing is different. *)
LEMMA SameRule ==
    ASSUME NEW p \in Path, rules'[p] = rules[p]
    PROVE  /\ Latest(p)' = Latest(p)
           /\ Constitutional(p)' <=> Constitutional(p)
BY DEF Latest, Constitutional, Versions

(* A set that commits puts an editable version in force. *)
LEMMA SetIsNewest ==
    ASSUME IInv, IInv', NEW c \in Call, SetCommit(c),
           NEW p \in Path, p = tx[c].path
    PROVE  /\ ~ Constitutional(p)'
           /\ \A q \in Path : q # p => rules'[q] = rules[q]
<1> DEFINE v == tx[c].version
           row == NewRow(tx[c].content, tx[c].persona_id, TRUE)
<1> USE DEF IInv
<1>1. /\ pc[c] = "inserted" /\ tx[c] \in Target
      /\ v \in 1..MaxVersion
      /\ rules' = [rules EXCEPT ![p] = [w \in DOMAIN rules[p] \cup {v} |->
                                          IF w = v THEN row ELSE rules[p][w]]]
  BY DEF SetCommit, Store, TypeOK, Target
<1>2. /\ DOMAIN rules'[p] = DOMAIN rules[p] \cup {v}
      /\ rules'[p][v] = row
      /\ \A q \in Path : q # p => rules'[q] = rules[q]
  BY <1>1 DEF TypeOK
<1>3. /\ v \notin Versions(p)
      /\ Versions(p) \subseteq 1..MaxVersion
  BY <1>1 DEF Pending, TypeOK, Versions
<1>4. \A w \in Versions(p) : w < v
  BY <1>1, <1>3, RulebookAssumption DEF VersionsContiguous
<1>5. /\ Latest(p)' \in DOMAIN rules'[p]
      /\ Latest(p)' \in 1..MaxVersion
      /\ v <= Latest(p)'
  <2>1. Versions(p)' # {} /\ v \in Versions(p)'
    BY <1>2 DEF Versions
  <2>2. /\ Latest(p)' \in Versions(p)'
        /\ Latest(p)' \in 1..MaxVersion
        /\ \A w \in Versions(p)' : w <= Latest(p)'
    BY <1>1, <2>1, LatestIsNewestNext
  <2> QED
    BY <2>1, <2>2 DEF Versions
<1>6. Latest(p)' = v
  <2>1. CASE Latest(p)' \in Versions(p)
    BY <1>1, <1>4, <1>5, <2>1, RulebookAssumption
  <2> QED
    BY <1>2, <1>5, <2>1 DEF Versions
<1>7. row.is_editable
  BY DEF NewRow
<1> HIDE DEF row, v
<1> QED
  BY <1>1, <1>2, <1>6, <1>7 DEF Constitutional

(* A retire leaves the flags of the owner as they are. *)
LEMMA RetireKeepsLock ==
    ASSUME IInv, NEW c \in Call, RetireCommit(c), NEW q \in Path
    PROVE  Constitutional(q)' <=> Constitutional(q)
<1> DEFINE p == tx[c].path
           v == tx[c].version
<1> USE DEF IInv
<1>1. /\ p \in Path /\ v \in Versions(p)
      /\ rules' = [rules EXCEPT ![p][v].is_retired = TRUE]
  BY DEF RetireCommit, RetirePending, TypeOK, Target
<1>2. \A w \in Versions(p) : rules[p][w] \in Row
  BY <1>1, HistoryRows DEF TypeOK, History, Versions
<1>3. /\ DOMAIN rules'[q] = DOMAIN rules[q]
      /\ \A w \in DOMAIN rules[q] :
            rules'[q][w].is_editable = rules[q][w].is_editable
  BY <1>1, <1>2 DEF TypeOK, Versions, Row
<1>4. Latest(q)' = Latest(q)
  BY <1>3 DEF Latest, Versions
<1>5. CASE Versions(q) # {}
  <2>1. Latest(q) \in Versions(q)
    BY <1>5, LatestIsNewest
  <2> QED
    BY <1>3, <1>4, <2>1 DEF Constitutional, Versions
<1> QED
  BY <1>3, <1>5 DEF Constitutional, Versions

(* Locking one path leaves the others alone and keeps what is locked. *)
LEMMA LockingLocks ==
    ASSUME IInv, NEW p \in Path, OwnerLock(p)
    PROVE  /\ Constitutional(p)'
           /\ \A q \in Path : q # p => rules'[q] = rules[q]
<1> USE DEF IInv
<1>1. /\ Versions(p) # {}
      /\ rules' = [rules EXCEPT ![p][Latest(p)].is_editable = FALSE]
  BY DEF OwnerLock
<1>2. Latest(p) \in Versions(p) /\ rules[p][Latest(p)] \in Row
  BY <1>1, LatestIsNewest, HistoryRows DEF TypeOK, History, Versions
<1>3. /\ DOMAIN rules'[p] = DOMAIN rules[p]
      /\ ~ rules'[p][Latest(p)].is_editable
      /\ \A q \in Path : q # p => rules'[q] = rules[q]
  BY <1>1, <1>2 DEF TypeOK, Versions, Row
<1>4. Latest(p)' = Latest(p)
  BY <1>3 DEF Latest, Versions
<1> QED
  BY <1>1, <1>3, <1>4 DEF Constitutional, Versions

(* What makes a rule constitutional is only the owner's lock, and a set    *)
(* that starts has read an editable version.                               *)
LEMMA LockStep ==
    ASSUME IInv, IInv', LockApart, [Next]_vars,
           [\A p \in Path : OwnerLock(p) =>
              \A c \in Call : pc[c] \in {"insert", "inserted"}
                                => tx[c].path # p]_vars
    PROVE  /\ LockApart'
           /\ \A p \in Path : Constitutional(p) => Constitutional(p)'
<1> USE DEF IInv
<1>1. ASSUME NEW c \in Call, NEW p \in Path, NEW text \in Content,
             NEW persona \in Persona, SetRead(c, p, text, persona)
      PROVE  LockApart' /\ UNCHANGED rules
  <2>1. /\ UNCHANGED rules /\ ~ Constitutional(p)
        /\ \A d \in Call : d # c => pc'[d] = pc[d] /\ tx'[d] = tx[d]
        /\ tx'[c].path = p
    BY <1>1 DEF SetRead, Begin, Constitutional, TypeOK
  <2> QED
    BY <2>1 DEF LockApart, Constitutional, Latest, Versions
<1>2. ASSUME NEW c \in Call, SetCommit(c)
      PROVE  /\ LockApart'
             /\ \A p \in Path : Constitutional(p) => Constitutional(p)'
  <2>1. /\ pc[c] = "inserted"
        /\ pc'[c] = "idle"
        /\ \A d \in Call : d # c => pc'[d] = pc[d] /\ tx'[d] = tx[d]
    BY <1>2 DEF SetCommit, End, TypeOK
  <2>2. /\ tx[c].path \in Path
        /\ \A d \in Call : pc'[d] \in {"insert", "inserted"} => tx'[d].path \in Path
    BY <2>1 DEF TypeOK, Target
  <2>3. \A p \in Path : Constitutional(p) => Constitutional(p)'
    BY <1>2, <2>1, <2>2, SetIsNewest, SameRule DEF LockApart
  <2>4. \A p \in Path : ~ Constitutional(p) => ~ Constitutional(p)'
    BY <1>2, <2>2, SetIsNewest, SameRule
  <2> QED
    BY <2>1, <2>2, <2>3, <2>4 DEF LockApart
<1>3. ASSUME NEW c \in Call, RetireCommit(c)
      PROVE  /\ LockApart'
             /\ \A p \in Path : Constitutional(p) => Constitutional(p)'
  <2>1. \A p \in Path : Constitutional(p)' <=> Constitutional(p)
    BY <1>3, RetireKeepsLock
  <2>2. \A d \in Call : pc'[d] \in {"insert", "inserted"} =>
           pc'[d] = pc[d] /\ tx'[d] = tx[d] /\ tx[d].path \in Path
    BY <1>3 DEF RetireCommit, End, TypeOK, Target
  <2> QED
    BY <2>1, <2>2 DEF LockApart
<1>4. ASSUME NEW p \in Path, OwnerLock(p)
      PROVE  /\ LockApart'
             /\ \A q \in Path : Constitutional(q) => Constitutional(q)'
  <2>1. /\ Constitutional(p)'
        /\ \A q \in Path : q # p => rules'[q] = rules[q]
    BY <1>4, LockingLocks
  <2>2. \A d \in Call : pc[d] \in {"insert", "inserted"} =>
           tx[d].path \in Path /\ tx[d].path # p
    <3>1. CASE UNCHANGED vars
      <4>1. Constitutional(p)
        BY <2>1, <3>1 DEF vars, Constitutional, Latest, Versions
      <4> QED
        BY <4>1 DEF LockApart, TypeOK, Target
    <3> QED
      BY <1>4, <3>1 DEF TypeOK, Target
  <2>3. UNCHANGED <<pc, tx>>
    BY <1>4 DEF OwnerLock
  <2> QED
    BY <2>1, <2>2, <2>3, SameRule DEF LockApart
<1>5. ASSUME UNCHANGED rules,
             \A d \in Call : pc'[d] \in {"insert", "inserted"} =>
                pc[d] \in {"insert", "inserted"} /\ tx'[d] = tx[d]
      PROVE  /\ LockApart'
             /\ \A p \in Path : Constitutional(p) => Constitutional(p)'
  BY <1>5 DEF LockApart, Constitutional, Latest, Versions
<1>6. ASSUME NEW c \in Call,
             SetInsert(c) \/ Abort(c) \/ \E p \in Path : RetireRead(c, p)
      PROVE  /\ UNCHANGED rules
             /\ \A d \in Call : pc'[d] \in {"insert", "inserted"} =>
                   pc[d] \in {"insert", "inserted"} /\ tx'[d] = tx[d]
  BY <1>6 DEF SetInsert, RetireRead, Begin, Abort, End, TypeOK
<1>7. CASE UNCHANGED vars
  BY <1>5, <1>7 DEF vars
<1>8. ASSUME UNCHANGED rules
      PROVE  \A p \in Path : Constitutional(p) => Constitutional(p)'
  BY <1>8 DEF Constitutional, Latest, Versions
<1>9. ASSUME NEW c \in Call,
             \/ \E p \in Path, text \in Content, persona \in Persona :
                   SetRead(c, p, text, persona)
             \/ \E p \in Path : RetireRead(c, p)
             \/ Statement(c)
             \/ Abort(c)
      PROVE  /\ LockApart'
             /\ \A p \in Path : Constitutional(p) => Constitutional(p)'
  <2>1. CASE \E p \in Path, text \in Content, persona \in Persona :
                SetRead(c, p, text, persona)
    BY <1>1, <1>8, <2>1
  <2>2. CASE SetCommit(c) \/ RetireCommit(c)
    BY <1>2, <1>3, <2>2
  <2>3. CASE SetInsert(c) \/ Abort(c) \/ \E p \in Path : RetireRead(c, p)
    <3>1. /\ UNCHANGED rules
          /\ \A d \in Call : pc'[d] \in {"insert", "inserted"} =>
                pc[d] \in {"insert", "inserted"} /\ tx'[d] = tx[d]
      BY <1>6, <2>3
    <3> QED
      BY <1>5, <3>1
  <2> QED
    BY <1>9, <2>1, <2>2, <2>3 DEF Statement
<1> QED
  BY <1>4, <1>7, <1>9 DEF Next

(* What docs/04_schema.md:448 says of constitutional rules is so if the    *)
(* owner does not lock a rule while a set of it is under way: the flag is  *)
(* read by a statement before the INSERT, and nothing else comes between.  *)
THEOREM LocksHoldIfOwnerWaits == Spec => (OwnerWaits => ConstitutionStays)
<1>1. Init => LockApart
  BY DEF Init, LockApart
<1>2. ASSUME IInv, IInv', LockApart, [Next]_vars,
             [\A p \in Path : OwnerLock(p) =>
                \A c \in Call : pc[c] \in {"insert", "inserted"}
                                  => tx[c].path # p]_vars
      PROVE  LockApart' /\ [\A p \in Path : Constitutional(p) => Constitutional(p)']_vars
  BY <1>2, LockStep
<1> QED
  BY Invariant, <1>1, <1>2, PTL DEF Spec, OwnerWaits, ConstitutionStays
=============================================================================
