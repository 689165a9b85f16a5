------------------------------- MODULE TagsProofs ------------------------------
(* Theorems about Tags, for every set of sessions, calls, tags and cards.    *)
EXTENDS Tags, FiniteSetTheorems, TLAPS

(* The inductive invariant: TypeOK, and that tags are records and sessions a  *)
(* function.                                                                 *)
IsTag(tag) == tag = [name |-> tag.name, text |-> tag.text, types |-> tag.types]

TablesOK ==
  /\ DOMAIN tags \subseteq DOMAIN First \cup Sessions
  /\ \A one, other \in DOMAIN tags : tags[one].name = tags[other].name => one = other
  /\ cards \subseteq (DOMAIN tags) \X Oracles
  /\ \A id \in DOMAIN tags : IsTag(tags[id])

SessionOK(x) ==
  /\ x.stage \in {"idle", "write", "rows"} \cup Answers
  /\ x.todo \in Seq(Oracles)
  /\ x.held \subseteq {x.id} \X Oracles
  /\ x.stage # "rows" => x.held = {}

SessionsOK ==
  /\ session = [s \in Sessions |-> session[s]]
  /\ \A s \in Sessions : SessionOK(session[s])

TypeInv == TablesOK /\ SessionsOK

LEMMA TypeInvIsTypeOK == TypeInv => TypeOK
<1> SUFFICES ASSUME TypeInv PROVE TypeOK
  OBVIOUS
<1>1. \A s \in Sessions : Range(session[s].todo) \subseteq Oracles
  <2> SUFFICES ASSUME NEW s \in Sessions, NEW i \in DOMAIN session[s].todo
               PROVE  session[s].todo[i] \in Oracles
    BY DEF Range
  <2>1. session[s].todo \in Seq(Oracles)
    BY DEF TypeInv, SessionsOK, SessionOK
  <2> QED
    BY <2>1
<1> QED
  BY <1>1 DEF TypeInv, TypeOK, TablesOK, SessionsOK, SessionOK

LEMMA InitType == Init => TypeInv
<1> SUFFICES ASSUME Init PROVE TypeInv
  OBVIOUS
<1>1. TablesOK
  BY TagsAssumption DEF TagsAssumption, Init, TablesOK, IsTag
<1>2. SessionOK(NoStep)
  BY DEF NoStep, SessionOK, Answers
<1>3. SessionsOK
  BY <1>2 DEF Init, SessionsOK
<1> QED
  BY <1>1, <1>3 DEF TypeInv

--------------------------------------------------------------------------------
(* How a step changes its session.                                           *)

Ended(s, answer) ==
  [stage |-> answer, id |-> session[s].id, row |-> session[s].row, todo |-> <<>>, held |-> {}]

LEMMA EndSession ==
  ASSUME SessionsOK, NEW s \in Sessions, NEW answer, End(s, answer)
  PROVE  session' = [t \in Sessions |-> IF t = s THEN Ended(s, answer) ELSE session[t]]
  BY DEF SessionsOK, SessionOK, End, Ended

LEMMA EndType ==
  ASSUME SessionsOK, NEW s \in Sessions, NEW answer \in Answers, End(s, answer)
  PROVE  SessionsOK'
<1>1. SessionOK(Ended(s, answer))
  BY DEF SessionOK, Ended, Answers
<1> QED
  BY <1>1, EndSession DEF SessionsOK

LEMMA GoType ==
  ASSUME SessionsOK, NEW s \in Sessions, NEW stage \in {"write", "rows"}, NEW id, NEW row,
         NEW todo \in Seq(Oracles), Goes(s, stage, id, row, todo)
  PROVE  SessionsOK'
<1> DEFINE new == [stage |-> stage, id |-> id, row |-> row, todo |-> todo, held |-> {}]
<1>1. SessionOK(new)
  BY DEF SessionOK
<1>2. session' = [t \in Sessions |-> IF t = s THEN new ELSE session[t]]
  BY DEF SessionsOK, Goes
<1> QED
  BY <1>1, <1>2 DEF SessionsOK

LEMMA OrderType ==
  ASSUME NEW s \in Sessions, Calls[s].kind \in {"tag", "verdicts"}, Calls[s].oracles \subseteq Oracles,
         NEW order \in Orders(Calls[s].oracles)
  PROVE  order \in Seq(Oracles)
<1>1. Cardinality(Calls[s].oracles) \in Nat
  BY TagsAssumption, FS_CardinalityType DEF TagsAssumption
<1> QED
  BY <1>1 DEF Orders

LEMMA SameTables ==
  ASSUME TablesOK, UNCHANGED <<tags, cards>>
  PROVE  TablesOK'
  BY DEF TablesOK

--------------------------------------------------------------------------------
(* Each action preserves the invariant.                                      *)

LEMMA BeginType ==
  ASSUME TypeInv, NEW s \in Sessions, Refuse(s) \/ Begin(s) \/ BeginRows(s) \/ Judge(s)
  PROVE  TypeInv'
<1>1. TablesOK'
  BY SameTables DEF TypeInv, Refuse, Begin, BeginRows, Judge
<1>2. CASE Refuse(s)
  BY <1>1, <1>2, EndType DEF TypeInv, Refuse, Answers
<1>3. CASE Begin(s)
  <2>1. PICK id, row : Goes(s, "write", id, row, <<>>)
    BY <1>3 DEF Begin
  <2>2. <<>> \in Seq(Oracles)
    OBVIOUS
  <2> QED
    BY <1>1, <2>1, <2>2, GoType DEF TypeInv
<1>4. CASE BeginRows(s)
  BY <1>1, <1>4, GoType, OrderType DEF TypeInv, BeginRows, Refused
<1>5. CASE Judge(s)
  BY <1>1, <1>5, GoType, EndType, OrderType DEF TypeInv, Judge, Answers
<1> QED
  BY <1>1, <1>2, <1>3, <1>4, <1>5 DEF TypeInv

LEMMA InsertedType ==
  ASSUME TablesOK, NEW s \in Sessions, ~ InsertFails(s), tags' = Inserted(s), UNCHANGED cards
  PROVE  TablesOK'
<1>1. \A id \in DOMAIN tags : tags[id].name # Canonical(Calls[s].name)
  BY DEF InsertFails, Named
<1>2. DOMAIN tags' = DOMAIN tags \cup {s}
  BY DEF Inserted
<1>3. /\ tags'[s].name = Canonical(Calls[s].name) /\ IsTag(tags'[s])
      /\ \A id \in DOMAIN tags : id # s => tags'[id] = tags[id]
  BY DEF Inserted, IsTag
<1> QED
  BY <1>1, <1>2, <1>3 DEF TablesOK

LEMMA RenamedType ==
  ASSUME TablesOK, NEW s \in Sessions, ~ RenameFails(s), tags' = Renamed(s), UNCHANGED cards
  PROVE  TablesOK'
<1>1. DOMAIN tags' = DOMAIN tags
  BY DEF Renamed
<1>2. \A id \in DOMAIN tags : tags'[id].name = NewName(s, id) /\ IsTag(tags'[id])
  BY DEF Renamed, TablesOK, IsTag
<1> QED
  BY <1>1, <1>2 DEF TablesOK, RenameFails

LEMMA UpdatedType ==
  ASSUME TablesOK, NEW s \in Sessions, tags' = Updated(s), UNCHANGED cards
  PROVE  TablesOK'
<1>1. DOMAIN tags' = DOMAIN tags
  BY DEF Updated
<1>2. \A id \in DOMAIN tags : tags'[id].name = tags[id].name /\ IsTag(tags'[id])
  BY DEF Updated, TablesOK, IsTag
<1> QED
  BY <1>1, <1>2 DEF TablesOK

LEMMA WriteType ==
  ASSUME TypeInv, NEW s \in Sessions, Fail(s) \/ Write(s) \/ Delete(s)
  PROVE  TypeInv'
<1>1. SessionsOK'
  BY EndType DEF TypeInv, Fail, Write, Delete, Answers
<1>2. CASE Fail(s)
  BY <1>1, <1>2, SameTables DEF TypeInv, Fail
<1>3. CASE Write(s)
  <2>1. CASE Writes(s, "create") /\ tags' = Inserted(s) /\ UNCHANGED cards
    BY <1>1, <1>3, <2>1, InsertedType DEF TypeInv, Write, Fails
  <2>2. CASE Writes(s, "rename") /\ tags' = Renamed(s) /\ UNCHANGED cards
    BY <1>1, <1>3, <2>2, RenamedType DEF TypeInv, Write, Fails
  <2>3. CASE Writes(s, "update") /\ tags' = Updated(s) /\ UNCHANGED cards
    BY <1>1, <2>3, UpdatedType DEF TypeInv
  <2>4. CASE cards' = Untagged(s) /\ UNCHANGED tags
    BY <1>1, <2>4 DEF TypeInv, TablesOK, Untagged
  <2> QED
    BY <1>3, <2>1, <2>2, <2>3, <2>4 DEF Write
<1>4. CASE Delete(s)
  BY <1>1, <1>4 DEF TypeInv, TablesOK, Delete
<1> QED
  BY <1>2, <1>3, <1>4

LEMMA AddRowType ==
  ASSUME TypeInv, NEW s \in Sessions, AddRow(s)
  PROVE  TypeInv'
<1> DEFINE new == [stage |-> "rows", id |-> session[s].id, row |-> session[s].row,
                   todo |-> Tail(session[s].todo), held |-> session[s].held \cup ({NextRow(s)} \ cards)]
<1>1. session[s].todo \in Seq(Oracles) /\ session[s].todo # <<>> /\ session[s].stage = "rows"
  BY DEF TypeInv, SessionsOK, SessionOK, AddRow, Adding
<1>2. Tail(session[s].todo) \in Seq(Oracles) /\ session[s].todo[1] \in Oracles
  BY <1>1
<1>3. SessionOK(new)
  BY <1>1, <1>2 DEF TypeInv, SessionsOK, SessionOK, NextRow
<1>4. session' = [t \in Sessions |-> IF t = s THEN new ELSE session[t]]
  BY <1>1 DEF TypeInv, SessionsOK, SessionOK, AddRow
<1>5. SessionsOK'
  BY <1>3, <1>4 DEF TypeInv, SessionsOK
<1> QED
  BY <1>5, SameTables DEF TypeInv, AddRow

LEMMA CommitType ==
  ASSUME TypeInv, NEW s \in Sessions, Commit(s) \/ Victim(s)
  PROVE  TypeInv'
<1>1. SessionsOK'
  BY EndType DEF TypeInv, Commit, Victim, Answers
<1>2. TablesOK'
  BY DEF TypeInv, TablesOK, SessionsOK, SessionOK, Commit, Victim, Orphaned
<1> QED
  BY <1>1, <1>2 DEF TypeInv

LEMMA NextType == TypeInv /\ [Next]_vars => TypeInv'
<1> SUFFICES ASSUME TypeInv, [Next]_vars PROVE TypeInv'
  OBVIOUS
<1>1. CASE UNCHANGED vars
  BY <1>1 DEF vars, TypeInv, TablesOK, SessionsOK
<1>2. ASSUME NEW s \in Sessions, Step(s) PROVE TypeInv'
  BY <1>2, BeginType, WriteType, AddRowType, CommitType DEF Step
<1> QED
  BY <1>1, <1>2 DEF Next, Done

(* Whatever the calls are and however they interleave, no two tags get one   *)
(* name and no card keeps a tag that is gone: the rows of a call that was    *)
(* overtaken by a deletion are rolled back (create_tag, rename_tag, upsert,  *)
(* delete_tag).                                                              *)
THEOREM TypeCorrect == Spec => []TypeOK
BY InitType, TypeInvIsTypeOK, NextType, PTL DEF Spec

--------------------------------------------------------------------------------
(* Filters.                                                                  *)

OneUpdater ==
  \A s, t \in Sessions : Calls[s].kind = "update" /\ Calls[t].kind = "update" => s = t

(* The id of a tag that is still to be created is nowhere.                   *)
Fresh ==
  \A s \in Sessions :
    Calls[s].kind = "create" /\ session[s].stage \in {"idle", "write"} =>
      s \notin DOMAIN tags /\ \A t \in Sessions \ {s} : session[t].id # s

(* What the caller who describes a tag has read is still so.                 *)
Current ==
  \A s \in Sessions :
    /\ Calls[s].kind = "update" /\ session[s].stage = "write"
    /\ session[s].id \in DOMAIN tags
    => session[s].row.types = tags[session[s].id].types

FilterInv == FilterAsAsked /\ Current

LEMMA InitFilter == Init => FilterInv
<1> SUFFICES ASSUME Init PROVE FilterInv
  OBVIOUS
<1>1. FilterAsAsked
  BY DEF Init, FilterAsAsked, Filters
<1>2. Current
  BY DEF Init, Current, NoStep
<1> QED
  BY <1>1, <1>2 DEF FilterInv

LEMMA InitFresh == Init => Fresh
<1> SUFFICES ASSUME Init PROVE Fresh
  OBVIOUS
<1> QED
  BY TagsAssumption DEF Init, Fresh, NoStep, TagsAssumption

(* A step of one session changes no other.                                   *)
LEMMA OthersStay ==
  ASSUME TypeInv, NEW s \in Sessions, Step(s)
  PROVE  \A t \in Sessions \ {s} : session'[t] = session[t]
BY DEF TypeInv, SessionsOK, Step, Refuse, Begin, BeginRows, Judge, Fail, Write, Delete, AddRow, Commit,
       Victim, Goes, End

(* A step after which s neither reads nor writes a tag, and that brings no   *)
(* tag; and one that leaves the filters of the tags that remain.             *)
Settles(s) ==
  /\ session'[s].stage \notin {"idle", "write"}
  /\ session'[s].id \in DOMAIN tags \cup {session[s].id}
  /\ DOMAIN tags' \subseteq DOMAIN tags

Quiet(s) == Settles(s) /\ \A id \in DOMAIN tags' : tags'[id].types = tags[id].types

LEMMA QuietFilter ==
  ASSUME TypeInv, FilterInv, NEW s \in Sessions, Step(s), Quiet(s)
  PROVE  FilterInv'
<1>1. FilterAsAsked'
  BY DEF FilterInv, FilterAsAsked, Quiet, Settles, Filters
<1>2. Current'
  BY OthersStay DEF FilterInv, Current, Quiet, Settles
<1> QED
  BY <1>1, <1>2 DEF FilterInv

LEMMA SettlesFresh ==
  ASSUME TypeInv, Fresh, NEW s \in Sessions, Step(s), Settles(s)
  PROVE  Fresh'
  BY OthersStay DEF Fresh, Settles

LEMMA BeginFresh ==
  ASSUME TypeInv, Fresh, NEW s \in Sessions, Begin(s)
  PROVE  Fresh'
<1>1. UNCHANGED tags /\ session[s].stage = "idle"
  BY DEF Begin
<1>2. \A t \in Sessions \ {s} : session'[t] = session[t]
  BY OthersStay DEF Step
<1>3. IF Calls[s].kind = "create" THEN session'[s].id = s ELSE session'[s].id \in DOMAIN tags
  BY DEF TypeInv, SessionsOK, Begin, Goes, Named
<1> SUFFICES ASSUME NEW c \in Sessions, Calls[c].kind = "create", session'[c].stage \in {"idle", "write"}
             PROVE  c \notin DOMAIN tags /\ \A t \in Sessions \ {c} : session'[t].id # c
  BY <1>1 DEF Fresh
<1>4. session[c].stage \in {"idle", "write"}
  BY <1>1, <1>2
<1>5. c \notin DOMAIN tags /\ \A t \in Sessions \ {c} : session[t].id # c
  BY <1>4 DEF Fresh
<1> QED
  BY <1>5, <1>2, <1>3

LEMMA BeginFilter ==
  ASSUME TypeInv, FilterInv, NEW s \in Sessions, Begin(s)
  PROVE  FilterInv'
<1>1. UNCHANGED tags /\ session[s].stage = "idle"
  BY DEF Begin
<1>2. \A t \in Sessions \ {s} : session'[t] = session[t]
  BY OthersStay DEF Step
<1>3. Calls[s].kind # "create" =>
         session'[s].id \in DOMAIN tags /\ session'[s].row.types = tags[session'[s].id].types
  BY DEF TypeInv, SessionsOK, Begin, Goes, Named, Row
<1>4. FilterAsAsked'
  BY <1>1 DEF FilterInv, FilterAsAsked
<1>5. Current'
  BY <1>1, <1>2, <1>3 DEF FilterInv, Current
<1> QED
  BY <1>4, <1>5 DEF FilterInv

(* The id of the new tag was nowhere.                                        *)
LEMMA CreateAdds ==
  ASSUME TypeInv, Fresh, NEW s \in Sessions, Write(s), Calls[s].kind = "create"
  PROVE  /\ \A t \in Sessions \ {s} : session'[t] = session[t] /\ session[t].id # s
         /\ session'[s].stage = "ok" /\ session'[s].id = session[s].id
         /\ s \notin DOMAIN tags /\ DOMAIN tags' = DOMAIN tags \cup {s}
         /\ \A id \in DOMAIN tags : tags'[id] = tags[id]
         /\ tags'[s].types = Range(GivenTypes(Calls[s].types))
<1>1. tags' = Inserted(s) /\ session[s].stage = "write"
  BY DEF Write, Writes
<1>2. /\ \A t \in Sessions \ {s} : session'[t] = session[t]
      /\ session'[s].stage = "ok" /\ session'[s].id = session[s].id
  BY OthersStay DEF Step, Write, End, TypeInv, SessionsOK
<1>3. s \notin DOMAIN tags /\ \A t \in Sessions \ {s} : session[t].id # s
  BY <1>1 DEF Fresh
<1>4. /\ DOMAIN tags' = DOMAIN tags \cup {s}
      /\ \A id \in DOMAIN tags : tags'[id] = tags[id]
      /\ tags'[s].types = Range(GivenTypes(Calls[s].types))
  BY <1>1, <1>3 DEF Inserted
<1> QED
  BY <1>2, <1>3, <1>4

LEMMA CreateFilter ==
  ASSUME TypeInv, Fresh, FilterInv, NEW s \in Sessions, Write(s), Calls[s].kind = "create"
  PROVE  FilterInv'
<1>1. Range(GivenTypes(Calls[s].types)) \in Filters
  BY DEF Filters, GivesFilter
<1>2. /\ \A t \in Sessions \ {s} : session'[t] = session[t] /\ session[t].id # s
      /\ session'[s].stage = "ok"
      /\ s \notin DOMAIN tags /\ DOMAIN tags' = DOMAIN tags \cup {s}
      /\ \A id \in DOMAIN tags : tags'[id] = tags[id]
      /\ tags'[s].types = Range(GivenTypes(Calls[s].types))
  BY CreateAdds
<1>3. FilterAsAsked'
  BY <1>1, <1>2 DEF FilterInv, FilterAsAsked, Filters
<1>4. Current'
  BY <1>2 DEF FilterInv, Current
<1> QED
  BY <1>3, <1>4 DEF FilterInv

(* What one call writes against the filter that it read, if it is the filter *)
(* still, is what the call gives.                                            *)
LEMMA UpdateFilter ==
  ASSUME TypeInv, FilterInv, OneUpdater, NEW s \in Sessions, Write(s), Calls[s].kind = "update"
  PROVE  FilterInv'
<1>1. tags' = Updated(s) /\ session[s].stage = "write"
  BY DEF Write, Writes
<1>2. /\ \A t \in Sessions \ {s} : session'[t] = session[t]
      /\ session'[s].stage = "ok" /\ session'[s].id = session[s].id
  BY OthersStay DEF Step, Write, End, TypeInv, SessionsOK
<1>3. DOMAIN tags' = DOMAIN tags /\ \A id \in DOMAIN tags : id # session[s].id => tags'[id] = tags[id]
  BY <1>1 DEF Updated
<1>4. ASSUME session[s].id \in DOMAIN tags
      PROVE  tags'[session[s].id].types \in Filters
  <2> DEFINE old == tags[session[s].id].types
  <2>1. session[s].row.types = old
    BY <1>1, <1>4 DEF FilterInv, Current
  <2>2. tags'[session[s].id].types = (old \ Removed(s)) \cup Added(s)
    BY <1>1, <1>4 DEF Updated
  <2>3. CASE Calls[s].types = "omitted"
    <3>1. Added(s) = {} /\ Removed(s) = {}
      BY <2>3 DEF Added, Removed, Words, Range
    <3> QED
      BY <1>4, <2>2, <3>1 DEF FilterInv, FilterAsAsked
  <2>4. CASE Calls[s].types # "omitted"
    <3>1. Words(s) = GivenTypes(Calls[s].types)
      BY <2>4 DEF Words
    <3>2. Added(s) = Range(Words(s)) \ old /\ Removed(s) = old \ Range(Words(s))
      BY <2>1, <2>4, <3>1 DEF Added, Removed
    <3>3. tags'[session[s].id].types = Range(Words(s))
      BY <2>2, <3>2
    <3> QED
      BY <2>4, <3>1, <3>3 DEF Filters, GivesFilter
  <2> QED
    BY <2>3, <2>4
<1>5. FilterAsAsked'
  BY <1>3, <1>4 DEF FilterInv, FilterAsAsked, Filters
<1>6. Current'
  BY <1>2 DEF Current, OneUpdater
<1> QED
  BY <1>5, <1>6 DEF FilterInv

LEMMA OtherQuiet ==
  ASSUME TypeInv, NEW s \in Sessions, Step(s), ~ Begin(s),
         Write(s) => Calls[s].kind \notin {"create", "update"}
  PROVE  Quiet(s)
<1> DEFINE Ends == session'[s].stage \in Answers /\ session'[s].id = session[s].id
           Rows == session'[s].stage = "rows" /\ session'[s].id \in DOMAIN tags \cup {session[s].id}
<1>1. ASSUME Ends \/ Rows, UNCHANGED tags PROVE Quiet(s)
  BY <1>1 DEF Quiet, Settles, Answers
<1>2. ASSUME NEW answer \in Answers, End(s, answer) PROVE Ends
  BY <1>2 DEF End, TypeInv, SessionsOK
<1>3. CASE Refuse(s) \/ Fail(s) \/ Commit(s) \/ Victim(s)
  BY <1>1, <1>2, <1>3 DEF Refuse, Fail, Commit, Victim, Answers
<1>4. CASE BeginRows(s) \/ Judge(s) \/ AddRow(s)
  BY <1>1, <1>2, <1>4 DEF BeginRows, Judge, AddRow, Goes, Named, Answers, TypeInv, SessionsOK
<1>5. CASE Write(s)
  <2>1. Ends
    BY <1>2, <1>5 DEF Write, Answers
  <2>2. CASE UNCHANGED tags
    BY <1>1, <2>1, <2>2
  <2>3. CASE tags' = Renamed(s)
    <3>1. ASSUME NEW id \in DOMAIN tags, NEW name
          PROVE  [tags[id] EXCEPT !.name = name].types = tags[id].types
      <4>1. IsTag(tags[id])
        BY DEF TypeInv, TablesOK
      <4> QED
        BY <4>1 DEF IsTag
    <3>2. DOMAIN tags' = DOMAIN tags /\ \A id \in DOMAIN tags : tags'[id].types = tags[id].types
      BY <2>3, <3>1 DEF Renamed
    <3> QED
      BY <2>1, <3>2 DEF Quiet, Settles, Answers
  <2> QED
    BY <1>5, <2>2, <2>3 DEF Write, Writes
<1>6. CASE Delete(s)
  <2>1. Ends
    BY <1>2, <1>6 DEF Delete, Answers
  <2>2. \E gone : tags' = [id \in DOMAIN tags \ gone |-> tags[id]]
    BY <1>6 DEF Delete
  <2> QED
    BY <2>1, <2>2 DEF Quiet, Settles, Answers
<1> QED
  BY <1>3, <1>4, <1>5, <1>6 DEF Step

LEMMA FreshStep ==
  ASSUME TypeInv, Fresh, NEW s \in Sessions, Step(s)
  PROVE  Fresh'
<1>1. CASE Begin(s)
  BY <1>1, BeginFresh
<1>2. CASE Write(s) /\ Calls[s].kind = "create"
  <2>1. /\ \A t \in Sessions \ {s} : session'[t] = session[t] /\ session[t].id # s
        /\ session'[s].stage = "ok" /\ session'[s].id = session[s].id
        /\ DOMAIN tags' = DOMAIN tags \cup {s}
    BY <1>2, CreateAdds
  <2> QED
    BY <2>1 DEF Fresh
<1>3. CASE Write(s) /\ Calls[s].kind = "update"
  <2>1. DOMAIN tags' = DOMAIN tags
    BY <1>3 DEF Write, Writes, Updated
  <2>2. session'[s].stage = "ok" /\ session'[s].id = session[s].id
    BY <1>3 DEF Write, End, TypeInv, SessionsOK
  <2> QED
    BY <2>1, <2>2, SettlesFresh DEF Settles
<1>4. CASE ~ Begin(s) /\ (Write(s) => Calls[s].kind \notin {"create", "update"})
  BY <1>4, OtherQuiet, SettlesFresh DEF Quiet
<1> QED
  BY <1>1, <1>2, <1>3, <1>4

LEMMA NextFresh == TypeInv /\ Fresh /\ [Next]_vars => Fresh'
<1> SUFFICES ASSUME TypeInv, Fresh, [Next]_vars PROVE Fresh'
  OBVIOUS
<1>1. CASE UNCHANGED vars
  BY <1>1 DEF vars, Fresh
<1> QED
  BY <1>1, FreshStep DEF Next, Done

LEMMA NextFilter ==
  ASSUME OneUpdater
  PROVE  TypeInv /\ Fresh /\ FilterInv /\ [Next]_vars => FilterInv'
<1> SUFFICES ASSUME TypeInv, Fresh, FilterInv, [Next]_vars PROVE FilterInv'
  OBVIOUS
<1>1. CASE UNCHANGED vars
  BY <1>1 DEF vars, FilterInv, FilterAsAsked, Filters, Current
<1>2. ASSUME NEW s \in Sessions, Step(s) PROVE FilterInv'
  <2>1. CASE Begin(s)
    BY <2>1, BeginFilter
  <2>2. CASE Write(s) /\ Calls[s].kind = "create"
    BY <2>2, CreateFilter
  <2>3. CASE Write(s) /\ Calls[s].kind = "update"
    BY <2>3, UpdateFilter
  <2> QED
    BY <1>2, <2>1, <2>2, <2>3, OtherQuiet, QuietFilter
<1> QED
  BY <1>1, <1>2 DEF Next, Done

--------------------------------------------------------------------------------
(* The refinement of TagBook.                                                *)

OneRenamer ==
  \A s, t \in Sessions : Calls[s].kind = "rename" /\ Calls[t].kind = "rename" => s = t

(* Names to rename from and to are given without blanks around them.         *)
NoBlanks ==
  \A s \in Sessions :
    Calls[s].kind = "rename" => Calls[s].name.spelling # "spaced" /\ Calls[s].to.spelling # "spaced"

(* Rows of tags; their names are of families.                                *)
OfFamily(name) == name = <<name[1], name[2]>> /\ name[2] \in Suffixes

RowsOfTags ==
  /\ tags = [id \in DOMAIN tags |-> tags[id]]
  /\ \A id \in DOMAIN tags : OfFamily(tags[id].name) /\ tags[id].text \in Texts

(* What the caller who renames a tag has found is still so.                  *)
Renaming ==
  \A s \in Sessions :
    Calls[s].kind = "rename" /\ session[s].stage = "write" =>
      /\ Canonical(Calls[s].name) # Canonical(Calls[s].to)
      /\ session[s].id \in DOMAIN tags => tags[session[s].id].name = Canonical(Calls[s].name)

(* The cards of a list that are passed have the tag, or will have it, or had *)
(* it until another call took it away.                                       *)
Passed(x, oracle) ==
  \/ oracle \in Range(x.todo) \/ <<x.id, oracle>> \in cards \cup x.held
  \/ oracle \in UNION Takings

Listing(s, x) ==
  x.stage = "rows" =>
    /\ Calls[s].kind \in {"tag", "verdicts"}
    /\ Range(x.todo) \subseteq Calls[s].oracles /\ x.held \subseteq {x.id} \X Calls[s].oracles
    /\ x.id \in DOMAIN tags => \A oracle \in Calls[s].oracles : Passed(x, oracle)

BookInv == RowsOfTags /\ Renaming /\ \A s \in Sessions : Listing(s, session[s])

LEMMA InitBook == Init => BookInv /\ Book!Init
<1> SUFFICES ASSUME Init PROVE BookInv /\ Book!Init
  OBVIOUS
<1>1. RowsOfTags
  <2>1. First = [id \in DOMAIN First |-> First[id]]
    BY TagsAssumption DEF TagsAssumption
  <2>2. \A id \in DOMAIN First : OfFamily(First[id].name) /\ First[id].text \in Texts
    BY TagsAssumption DEF TagsAssumption, OfFamily, Texts
  <2> QED
    BY <2>1, <2>2 DEF Init, RowsOfTags
<1>2. \A s \in Sessions : session[s].stage = "idle"
  BY DEF Init, NoStep
<1> QED
  BY <1>1, <1>2 DEF BookInv, Renaming, Listing, Init, Book!Init

(* A card may lose a tag to a request, and a tag may go; no tag comes that a *)
(* call has found.                                                           *)
LEMMA OtherListing ==
  ASSUME NEW s, NEW x, Listing(s, x), x.id \in DOMAIN tags' => x.id \in DOMAIN tags,
         \A pair \in cards : pair \in cards' \/ pair[2] \in UNION Takings \/ pair[1] \notin DOMAIN tags'
  PROVE  Listing(s, x)'
<1> SUFFICES ASSUME x.stage = "rows", x.id \in DOMAIN tags', NEW oracle \in Calls[s].oracles,
                    Calls[s].kind \in {"tag", "verdicts"}
             PROVE  Passed(x, oracle)'
  BY DEF Listing
<1>1. Passed(x, oracle)
  BY DEF Listing
<1>2. DEFINE pair == <<x.id, oracle>>
<1>3. pair \in cards => pair \in cards' \/ oracle \in UNION Takings
  BY DEF pair
<1> QED
  BY <1>1, <1>3 DEF Passed

(* What a step that leaves the others' calls has to show.                    *)
LEMMA BookStep ==
  ASSUME BookInv, NEW s \in Sessions, NEW new, session'[s] = new,
         \A t \in Sessions \ {s} : session'[t] = session[t],
         \A t \in Sessions \ {s} : session[t].id \in DOMAIN tags' => session[t].id \in DOMAIN tags,
         \A pair \in cards : pair \in cards' \/ pair[2] \in UNION Takings \/ pair[1] \notin DOMAIN tags',
         RowsOfTags', Renaming', Listing(s, new)'
  PROVE  BookInv'
<1>1. ASSUME NEW t \in Sessions \ {s} PROVE Listing(t, session[t])'
  <2>1. Listing(t, session[t])
    BY DEF BookInv
  <2>2. ASSUME NEW x, x = session[t], x = session'[t] PROVE Listing(t, session[t])'
    <3>1. Listing(t, x)'
      BY <2>1, <2>2, OtherListing
    <3> QED
      BY <2>2, <3>1 DEF Listing, Passed
  <2> QED
    BY <2>2
<1>2. Listing(s, session[s])'
  BY DEF Listing, Passed
<1>3. \A t \in Sessions : Listing(t, session[t])'
  BY <1>1, <1>2
<1> QED
  BY <1>3 DEF BookInv

(* A call that ends, whatever it commits.                                    *)
LEMMA EndBook ==
  ASSUME TypeInv, BookInv, NEW s \in Sessions, NEW answer \in Answers, End(s, answer), RowsOfTags',
         \A t \in Sessions \ {s} : session[t].id \in DOMAIN tags' => session[t].id \in DOMAIN tags,
         \A pair \in cards : pair \in cards' \/ pair[2] \in UNION Takings \/ pair[1] \notin DOMAIN tags',
         \A t \in Sessions \ {s} : Calls[t].kind = "rename" /\ session[t].id \in DOMAIN tags' =>
            tags'[session[t].id].name = tags[session[t].id].name
  PROVE  BookInv'
<1>1. session'[s] = Ended(s, answer) /\ \A t \in Sessions \ {s} : session'[t] = session[t]
  BY EndSession DEF TypeInv
<1>2. Ended(s, answer).stage \notin {"rows", "write"}
  BY DEF Ended, Answers
<1>3. Renaming'
  BY <1>1, <1>2 DEF BookInv, Renaming
<1>4. ASSUME NEW new, new = Ended(s, answer) PROVE BookInv'
  <2>1. Listing(s, new)'
    BY <1>2, <1>4 DEF Listing
  <2>2. session'[s] = new
    BY <1>1, <1>4
  <2> QED
    BY <1>1, <1>3, <2>1, <2>2, BookStep
<1> QED
  BY <1>4

LEMMA SameRows ==
  ASSUME BookInv, UNCHANGED tags
  PROVE  RowsOfTags'
  BY DEF BookInv, RowsOfTags

LEMMA EndSilent ==
  ASSUME TypeInv, BookInv, NEW s \in Sessions, NEW answer \in Answers, End(s, answer), UNCHANGED <<tags, cards>>
  PROVE  BookInv'
  BY SameRows, EndBook

LEMMA NamedTag ==
  ASSUME TypeInv, NEW name, NEW id \in Named(name)
  PROVE  id \in DOMAIN tags /\ tags[id].name = Canonical(name) /\ Named(name) = {id}
  BY DEF TypeInv, TablesOK, Named

(* A call that goes on to write rows of a list, or one row of a tag.         *)
LEMMA GoBook ==
  ASSUME TypeInv, BookInv, NEW s \in Sessions, NEW stage \in {"write", "rows"}, NEW id \in DOMAIN tags \cup {s},
         NEW row, NEW todo, Goes(s, stage, id, row, todo), UNCHANGED <<tags, cards>>,
         stage = "rows" => Calls[s].kind \in {"tag", "verdicts"} /\ Range(todo) = Calls[s].oracles,
         Calls[s].kind = "rename" =>
           /\ stage = "write" => Canonical(Calls[s].name) # Canonical(Calls[s].to)
           /\ id \in DOMAIN tags => tags[id].name = Canonical(Calls[s].name)
  PROVE  BookInv'
<1> DEFINE new == [stage |-> stage, id |-> id, row |-> row, todo |-> todo, held |-> {}]
<1>1. session'[s] = new /\ \A t \in Sessions \ {s} : session'[t] = session[t]
  BY DEF TypeInv, SessionsOK, Goes
<1>2. new.stage = stage /\ new.id = id /\ new.todo = todo /\ new.held = {}
  OBVIOUS
<1> HIDE DEF new
<1>3. Renaming'
  BY <1>1, <1>2 DEF BookInv, Renaming
<1>4. ASSUME NEW x, x = new PROVE BookInv'
  <2>1. Listing(s, x)'
    BY <1>2, <1>4 DEF Listing, Passed
  <2>2. session'[s] = x
    BY <1>1, <1>4
  <2>3. UNCHANGED tags /\ UNCHANGED cards
    OBVIOUS
  <2> QED
    BY <1>1, <1>3, <2>1, <2>2, <2>3, BookStep, SameRows
<1> QED
  BY <1>4

LEMMA BeginBook ==
  ASSUME TypeInv, BookInv, NEW s \in Sessions, Refuse(s) \/ Begin(s) \/ BeginRows(s) \/ Judge(s)
  PROVE  BookInv' /\ UNCHANGED <<tags, cards>>
<1>1. UNCHANGED <<tags, cards>>
  BY DEF Refuse, Begin, BeginRows, Judge
<1>2. CASE Refuse(s)
  BY <1>1, <1>2, EndSilent DEF Refuse, Answers
<1>3. CASE Begin(s)
  <2>1. CASE Calls[s].kind = "create"
    <3>1. Goes(s, "write", s, NoRow, <<>>)
      BY <1>3, <2>1 DEF Begin
    <3> QED
      BY <1>1, <2>1, <3>1, GoBook
  <2>2. CASE Calls[s].kind # "create"
    <3>1. PICK id \in Named(Calls[s].name) : Goes(s, "write", id, Row(id), <<>>)
      BY <1>3, <2>2 DEF Begin
    <3>2. id \in DOMAIN tags /\ tags[id].name = Canonical(Calls[s].name)
      BY <3>1, NamedTag
    <3>3. Calls[s].kind = "rename" => Canonical(Calls[s].name) # Canonical(Calls[s].to)
      <4>1. Calls[s].kind = "rename" => Named(Calls[s].to) = {}
        BY <1>3 DEF Begin, Refused
      <4> QED
        BY <3>2, <4>1 DEF Named
    <3> QED
      BY <1>1, <3>1, <3>2, <3>3, GoBook
  <2> QED
    BY <2>1, <2>2
<1>4. CASE BeginRows(s)
  <2>1. PICK id \in Named(Calls[s].name), order \in Orders(Calls[s].oracles) : Goes(s, "rows", id, Row(id), order)
    BY <1>4 DEF BeginRows
  <2>2. id \in DOMAIN tags /\ Range(order) = Calls[s].oracles
    BY <2>1, NamedTag DEF Orders
  <2>3. Calls[s].kind = "tag"
    BY <1>4 DEF BeginRows
  <2> QED
    BY <1>1, <2>1, <2>2, <2>3, GoBook
<1>5. CASE Judge(s)
  <2>1. CASE \E answer \in Answers : End(s, answer)
    BY <1>1, <2>1, EndSilent
  <2>2. ASSUME NEW id \in DOMAIN tags, NEW order \in Orders(Calls[s].oracles),
               Goes(s, "rows", id, session[s].row, order)
        PROVE  BookInv'
    <3>1. Range(order) = Calls[s].oracles /\ Calls[s].kind = "verdicts"
      BY <1>5 DEF Orders, Judge
    <3> QED
      BY <1>1, <2>2, <3>1, GoBook
  <2> QED
    BY <1>5, <2>1, <2>2 DEF Judge, Answers
<1> QED
  BY <1>1, <1>2, <1>3, <1>4, <1>5

LEMMA RestOfList ==
  ASSUME NEW todo \in Seq(Oracles), todo # <<>>, NEW oracle \in Range(todo)
  PROVE  oracle = todo[1] \/ oracle \in Range(Tail(todo))
<1>1. PICK i \in 1..Len(todo) : oracle = todo[i]
  BY DEF Range
<1>2. CASE i = 1
  BY <1>1, <1>2
<1>3. CASE i # 1
  <2>1. Tail(todo) \in Seq(Oracles) /\ Len(Tail(todo)) = Len(todo) - 1 /\ Tail(todo)[i - 1] = todo[i]
    BY <1>3
  <2>2. i - 1 \in DOMAIN Tail(todo)
    BY <1>3, <2>1
  <2> QED
    BY <1>1, <2>1, <2>2 DEF Range
<1> QED
  BY <1>2, <1>3

LEMMA OfList ==
  ASSUME NEW todo \in Seq(Oracles), todo # <<>>
  PROVE  todo[1] \in Range(todo) /\ Range(Tail(todo)) \subseteq Range(todo)
<1>1. 1 \in DOMAIN todo
  OBVIOUS
<1>2. ASSUME NEW i \in DOMAIN Tail(todo) PROVE i + 1 \in DOMAIN todo /\ Tail(todo)[i] = todo[i + 1]
  OBVIOUS
<1> QED
  BY <1>1, <1>2 DEF Range

LEMMA AddRowBook ==
  ASSUME TypeInv, BookInv, NEW s \in Sessions, AddRow(s)
  PROVE  BookInv' /\ UNCHANGED <<tags, cards>>
<1> DEFINE old == session[s]
           new == [stage |-> "rows", id |-> session[s].id, row |-> session[s].row,
                   todo |-> Tail(session[s].todo), held |-> session[s].held \cup ({NextRow(s)} \ cards)]
<1>1. session'[s] = new /\ \A t \in Sessions \ {s} : session'[t] = session[t]
  BY DEF TypeInv, SessionsOK, AddRow
<1>2. UNCHANGED tags /\ UNCHANGED cards
  BY DEF AddRow
<1>3. old.todo \in Seq(Oracles) /\ old.todo # <<>> /\ old.stage = "rows" /\ Listing(s, old)
  BY DEF TypeInv, SessionsOK, SessionOK, AddRow, Adding, BookInv
<1>4. /\ new.stage = "rows" /\ new.id = old.id /\ new.todo = Tail(old.todo)
      /\ new.held = old.held \cup ({<<old.id, old.todo[1]>>} \ cards)
  BY DEF NextRow
<1> HIDE DEF old, new
<1>5. Renaming'
  BY <1>1, <1>2, <1>4 DEF BookInv, Renaming
<1>6. ASSUME NEW x, x = new PROVE BookInv'
  <2>1. ASSUME NEW oracle, Passed(old, oracle) PROVE Passed(x, oracle)'
    <3>1. CASE oracle \in Range(old.todo)
      BY <1>2, <1>3, <1>4, <1>6, <3>1, RestOfList DEF Passed
    <3>2. CASE oracle \notin Range(old.todo)
      BY <1>2, <1>4, <1>6, <2>1, <3>2 DEF Passed
    <3> QED
      BY <3>1, <3>2
  <2>2. /\ Range(x.todo) \subseteq Calls[s].oracles /\ x.held \subseteq {x.id} \X Calls[s].oracles
        /\ Calls[s].kind \in {"tag", "verdicts"}
    <3>1. old.todo[1] \in Range(old.todo) /\ Range(x.todo) \subseteq Range(old.todo)
      BY <1>3, <1>4, <1>6, OfList
    <3> QED
      BY <1>3, <1>4, <1>6, <3>1 DEF Listing
  <2>4. Listing(s, x)'
    BY <1>2, <1>3, <1>4, <1>6, <2>1, <2>2 DEF Listing
  <2>3. session'[s] = x
    BY <1>1, <1>6
  <2> QED
    BY <1>1, <1>2, <1>5, <2>3, <2>4, BookStep, SameRows
<1> QED
  BY <1>2, <1>6

LEMMA CommitBook ==
  ASSUME TypeInv, BookInv, NEW s \in Sessions, Commit(s)
  PROVE  BookInv' /\ [Book!Next]_<<tags, cards>>
<1> DEFINE x == session[s]
<1>1. UNCHANGED tags
  BY DEF Commit
<1>2. x.todo = <<>> /\ x.stage = "rows" /\ Listing(s, x)
  BY DEF Commit, BookInv
<1>3. cards \subseteq cards'
  BY DEF Commit
<1>4. \E answer \in Answers : End(s, answer)
  BY DEF Commit, Answers
<1>5. BookInv'
  BY <1>1, <1>3, <1>4, SameRows, EndBook
<1>6. CASE cards' = cards
  BY <1>1, <1>5, <1>6
<1>7. CASE cards' # cards
  <2>1. cards' = cards \cup x.held /\ x.id \in DOMAIN tags
    BY <1>7 DEF Commit, Orphaned
  <2> DEFINE list == Calls[s].oracles
             part == {oracle \in list : <<x.id, oracle>> \in cards \cup x.held}
  <2>2. /\ list \in Lists /\ \A oracle \in list : Passed(x, oracle)
        /\ x.held \subseteq {x.id} \X list
    BY <1>2, <2>1 DEF Listing, Lists, CallsOf
  <2>3. list \ part \subseteq UNION Takings
    <3>1. Range(x.todo) = {}
      BY <1>2 DEF Range
    <3> QED
      BY <2>2, <3>1 DEF Passed
  <2>4. cards' = cards \cup ({x.id} \X part)
    BY <2>1, <2>2
  <2> QED
    <3>1. part \in SUBSET list
      OBVIOUS
    <3> HIDE DEF part
    <3>2. Book!Tag(x.id, list)
      BY <1>1, <2>3, <2>4, <3>1 DEF Book!Tag
    <3> QED
      BY <1>5, <2>1, <2>2, <3>2 DEF Book!Next
<1> QED
  BY <1>5, <1>6, <1>7

LEMMA SideOf ==
  ASSUME NEW n, IsName(n), NEW x
  PROVE  Side(n, x) = [base |-> n.base, suffix |-> IF n.spelling = "spaced" THEN "apart" ELSE x,
                       spelling |-> n.spelling]
<1>1. PICK b, y, z : n = [base |-> b, suffix |-> y, spelling |-> z]
  BY DEF IsName
<1> QED
  BY <1>1 DEF Side

LEMMA NamesOfCalls ==
  ASSUME NEW s \in Sessions
  PROVE  /\ IsName(Calls[s].name) /\ OfFamily(Canonical(Calls[s].name))
         /\ Calls[s].name.base \in Bases
  BY TagsAssumption DEF TagsAssumption, IsName, OfFamily, Canonical, Bases

LEMMA CreateBook ==
  ASSUME TypeInv, Fresh, BookInv, NEW s \in Sessions, Write(s), Calls[s].kind = "create"
  PROVE  BookInv' /\ Book!Next
<1>1. tags' = Inserted(s) /\ UNCHANGED cards /\ End(s, "ok") /\ ~ InsertFails(s) /\ session[s].stage = "write"
  BY DEF Write, Writes, Fails
<1>2. s \notin DOMAIN tags /\ \A t \in Sessions \ {s} : session[t].id # s
  BY <1>1 DEF Fresh
<1> DEFINE row == [name |-> Canonical(Calls[s].name), text |-> Calls[s].text,
                   types |-> Range(GivenTypes(Calls[s].types))]
<1>3. /\ tags' = [id \in DOMAIN tags' |-> tags'[id]]
      /\ DOMAIN tags' = DOMAIN tags \cup {s}
      /\ \A id \in DOMAIN tags : tags'[id] = tags[id]
      /\ tags'[s] = row
  BY <1>1, <1>2 DEF Inserted
<1>4. row.text \in Texts /\ row.types \in Filters
  BY DEF Texts, CallsOf, Filters, GivesFilter
<1>5. row.name \notin {tags[id].name : id \in DOMAIN tags}
  BY <1>1 DEF InsertFails, Named
<1>6. OfFamily(row.name) /\ row.name \in Bases \X {"", "unsure", "excluded"}
  BY NamesOfCalls DEF OfFamily, Suffixes, Canonical
<1>7. RowsOfTags'
  BY <1>3, <1>4, <1>6 DEF BookInv, RowsOfTags, Texts, CallsOf
<1>8. BookInv'
  BY <1>1, <1>2, <1>3, <1>7, EndBook DEF Answers
<1>9. Book!Create(s)
  <2>1. row \in [name : (Bases \X {"", "unsure", "excluded"}) \ {tags[id].name : id \in DOMAIN tags},
                 text : Texts, types : Filters]
    BY <1>4, <1>5, <1>6
  <2> HIDE DEF row
  <2> QED
    BY <1>1, <1>2, <1>3, <2>1 DEF Book!Create
<1>10. s \in Ids
  BY DEF Ids
<1> QED
  BY <1>8, <1>9, <1>10 DEF Book!Next

LEMMA UntagBook ==
  ASSUME TypeInv, BookInv, NEW s \in Sessions, Write(s), Calls[s].kind = "untag"
  PROVE  BookInv' /\ [Book!Next]_<<tags, cards>>
<1> DEFINE id == session[s].id
           list == Calls[s].oracles
<1>1. cards' = cards \ ({id} \X list) /\ UNCHANGED tags /\ End(s, "ok")
  BY DEF Write, Writes, Untagged
<1>2. list \in Takings
  BY DEF Takings, CallsOf
<1>3. \A pair \in cards : pair \in cards' \/ pair[2] \in UNION Takings
  BY <1>1, <1>2
<1>4. BookInv'
  BY <1>1, <1>3, EndBook, SameRows DEF Answers
<1>5. CASE id \in DOMAIN tags
  <2>1. Book!Untag(id, list)
    BY <1>1 DEF Book!Untag
  <2> HIDE DEF id, list
  <2> QED
    BY <1>2, <1>4, <1>5, <2>1 DEF Book!Next
<1>6. CASE id \notin DOMAIN tags
  <2>1. cards \subseteq (DOMAIN tags) \X Oracles
    BY DEF TypeInv, TablesOK
  <2>2. cards' = cards
    BY <1>1, <1>6, <2>1
  <2> QED
    BY <1>1, <1>4, <2>2
<1> QED
  BY <1>5, <1>6

LEMMA UpdateBook ==
  ASSUME TypeInv, BookInv, NEW s \in Sessions, Write(s), Calls[s].kind = "update"
  PROVE  BookInv' /\ (FilterAsAsked' => [Book!Next]_<<tags, cards>>)
<1> DEFINE id == session[s].id
<1>1. tags' = Updated(s) /\ UNCHANGED cards /\ End(s, "ok")
  BY DEF Write, Writes
<1>2. /\ tags' = [t \in DOMAIN tags |-> tags'[t]] /\ DOMAIN tags' = DOMAIN tags
      /\ \A t \in DOMAIN tags \ {id} : tags'[t] = tags[t]
  BY <1>1 DEF Updated
<1>3. CASE id \notin DOMAIN tags
  <2>1. tags' = tags
    BY <1>2, <1>3 DEF BookInv, RowsOfTags
  <2> QED
    BY <1>1, <2>1, EndSilent DEF Answers
<1>4. CASE id \in DOMAIN tags
  <2>2. PICK text, types : tags'[id] = [name |-> tags[id].name, text |-> text, types |-> types]
                           /\ text \in {Calls[s].text, tags[id].text}
    BY <1>1, <1>4 DEF Updated
  <2>3. text \in Texts
    BY <1>4, <2>2 DEF Texts, CallsOf, BookInv, RowsOfTags
  <2>4. tags' = [tags EXCEPT ![id] = [name |-> tags[id].name, text |-> text, types |-> types]]
    BY <1>2, <1>4, <2>2 DEF BookInv, RowsOfTags
  <2>5. RowsOfTags'
    BY <1>2, <1>4, <2>2, <2>3 DEF BookInv, RowsOfTags, Texts, CallsOf
  <2>6. \A t \in DOMAIN tags : tags'[t].name = tags[t].name
    BY <1>2, <2>2
  <2>7. BookInv'
    BY <1>1, <1>2, <2>5, <2>6, EndBook DEF Answers
  <2>8. ASSUME FilterAsAsked' PROVE Book!Describe(id)
    <3>1. types \in Filters
      BY <1>2, <1>4, <2>2, <2>8 DEF FilterAsAsked, Filters
    <3> QED
      BY <1>1, <2>3, <2>4, <3>1 DEF Book!Describe
  <2> HIDE DEF id
  <2> QED
    BY <1>4, <2>7, <2>8 DEF Book!Next
<1> QED
  BY <1>3, <1>4

IsPair(name, a, b) == name = <<a, b>>

LEMMA PairOf == \A name, a, b : IsPair(name, a, b) => name[1] = a /\ name[2] = b
  BY DEF IsPair

LEMMA WithName ==
  ASSUME NEW row, IsTag(row), NEW name
  PROVE  /\ [row EXCEPT !.name = name] = [name |-> name, text |-> row.text, types |-> row.types]
         /\ [row EXCEPT !.name = row.name] = row
<1>1. PICK n, t, y : row = [name |-> n, text |-> t, types |-> y]
  BY DEF IsTag
<1> QED
  BY <1>1

LEMMA SideName ==
  ASSUME NEW n, IsName(n), NEW x
  PROVE  Canonical(Side(n, x)) = <<n.base, IF n.spelling = "spaced" THEN "apart" ELSE x>>
<1>1. Side(n, x).base = n.base /\ Side(n, x).suffix = IF n.spelling = "spaced" THEN "apart" ELSE x
  BY SideOf
<1> QED
  BY <1>1 DEF Canonical

(* A tag and its side tags get the new name, and nobody else.                *)
LEMMA NewNames ==
  ASSUME TypeInv, BookInv, NoBlanks, NEW s \in Sessions, Writes(s, "rename"), session[s].id \in DOMAIN tags,
         NEW t \in DOMAIN tags
  PROVE  NewName(s, t) = IF tags[t].name[1] = Calls[s].name.base
                         THEN <<Calls[s].to.base, tags[t].name[2]>> ELSE tags[t].name
<1> DEFINE name == Calls[s].name
           to == Calls[s].to
<1>1. /\ IsName(name) /\ IsName(to) /\ name.suffix = "" /\ to.suffix = ""
      /\ name.spelling # "spaced" /\ to.spelling # "spaced"
  BY TagsAssumption DEF TagsAssumption, NoBlanks, Writes
<1>2. tags[session[s].id].name = <<name.base, "">>
  BY <1>1 DEF BookInv, Renaming, Canonical, Writes
<1>3. \A x : Canonical(Side(name, x)) = <<name.base, x>> /\ Canonical(Side(to, x)) = <<to.base, x>>
  BY <1>1, SideName
<1>4. tags[t].name = <<tags[t].name[1], tags[t].name[2]>> /\ tags[t].name[2] \in Suffixes
  BY DEF BookInv, RowsOfTags, OfFamily
<1>5. CASE t = session[s].id
  <2>1. NewName(s, t) = <<to.base, "">>
    BY <1>1, <1>5 DEF NewName, Canonical
  <2>2. tags[t].name[1] = name.base /\ tags[t].name[2] = ""
    <3>1. IsPair(tags[t].name, name.base, "")
      BY <1>2, <1>5 DEF IsPair
    <3> QED
      BY <3>1, PairOf
  <2> QED
    BY <2>1, <2>2
<1>6. CASE t # session[s].id
  <2>1. tags[t].name # tags[session[s].id].name
    BY <1>6 DEF TypeInv, TablesOK
  <2>2. CASE tags[t].name[1] = name.base
    <3>1. tags[t].name[2] \in Endings
      BY <1>2, <1>4, <2>1, <2>2 DEF Endings
    <3>2. Ending(s, t) = {tags[t].name[2]}
      <4>1. \A x : tags[t].name = Canonical(Side(name, x)) <=> x = tags[t].name[2]
        BY <1>3, <1>4, <2>2
      <4> QED
        BY <3>1, <4>1 DEF Ending
    <3>3. NewName(s, t) = Canonical(Side(to, tags[t].name[2]))
      BY <1>6, <3>2 DEF NewName
    <3> QED
      BY <1>3, <2>2, <3>3
  <2>3. CASE tags[t].name[1] # name.base
    <3>1. Ending(s, t) = {}
      BY <1>3, <1>4, <2>3 DEF Ending
    <3> QED
      BY <1>6, <2>3, <3>1 DEF NewName
  <2> QED
    BY <2>2, <2>3
<1> QED
  BY <1>5, <1>6

LEMMA RenameBook ==
  ASSUME TypeInv, BookInv, OneRenamer, NoBlanks, NEW s \in Sessions, Write(s), Calls[s].kind = "rename"
  PROVE  BookInv' /\ Book!Next
<1> DEFINE base == Calls[s].name.base
           new == Calls[s].to.base
           id == session[s].id
<1>1. /\ tags' = Renamed(s) /\ UNCHANGED cards /\ End(s, "ok") /\ ~ RenameFails(s)
      /\ Writes(s, "rename")
  BY DEF Write, Writes, Fails
<1>2. id \in DOMAIN tags
  BY <1>1 DEF RenameFails
<1>3. \A t \in DOMAIN tags : NewName(s, t) = IF tags[t].name[1] = base
                                             THEN <<new, tags[t].name[2]>> ELSE tags[t].name
  BY <1>1, <1>2, NewNames
<1>4. \A t \in DOMAIN tags : IsTag(tags[t]) /\ OfFamily(tags[t].name) /\ tags[t].text \in Texts
  BY DEF TypeInv, TablesOK, BookInv, RowsOfTags
<1>5. /\ tags' = [t \in DOMAIN tags |-> tags'[t]] /\ DOMAIN tags' = DOMAIN tags
      /\ \A t \in DOMAIN tags : tags'[t] = [tags[t] EXCEPT !.name = NewName(s, t)]
  BY <1>1 DEF Renamed
<1>6. \A t \in DOMAIN tags : tags'[t].name = NewName(s, t) /\ tags'[t].text = tags[t].text
  <2> SUFFICES ASSUME NEW t \in DOMAIN tags PROVE tags'[t].name = NewName(s, t) /\ tags'[t].text = tags[t].text
    OBVIOUS
  <2>1. tags'[t] = [name |-> NewName(s, t), text |-> tags[t].text, types |-> tags[t].types]
    BY <1>4, <1>5, WithName
  <2> QED
    BY <2>1
<1>7. RowsOfTags'
  <2>1. ASSUME NEW t \in DOMAIN tags PROVE OfFamily(NewName(s, t))
    BY <1>3, <1>4 DEF OfFamily
  <2> QED
    BY <1>4, <1>5, <1>6, <2>1 DEF RowsOfTags, Texts, CallsOf
<1>8. BookInv'
  <2>1. \A t \in Sessions \ {s} : Calls[t].kind # "rename"
    BY DEF OneRenamer
  <2> QED
    BY <1>1, <1>5, <1>7, <2>1, EndBook DEF Answers
<1>9. \A t, other \in DOMAIN tags : tags'[t].name = tags'[other].name => t = other
  BY <1>1, <1>6 DEF RenameFails
<1>10. \A t \in DOMAIN tags : tags[t].name # <<new, "">>
  <2> SUFFICES ASSUME NEW t \in DOMAIN tags, tags[t].name = <<new, "">> PROVE FALSE
    OBVIOUS
  <2>1. tags[id].name = <<base, "">> /\ <<base, "">> # <<new, "">>
    <3>1. Calls[s].name.suffix = "" /\ Calls[s].to.suffix = ""
      BY TagsAssumption DEF TagsAssumption
    <3> QED
      BY <1>1, <1>2, <3>1 DEF BookInv, Renaming, Canonical, Writes
  <2>2. t # id /\ NewName(s, t) = <<new, "">> /\ NewName(s, id) = <<new, "">>
    <3>1. tags[id].name[1] = base /\ tags[id].name[2] = ""
      <4>1. IsPair(tags[id].name, base, "")
        BY <2>1 DEF IsPair
      <4> QED
        BY <4>1, PairOf
    <3>2. tags[t].name[1] = new
      <4>1. IsPair(tags[t].name, new, "")
        BY DEF IsPair
      <4> QED
        BY <4>1, PairOf
    <3>3. t # id /\ base # new
      BY <2>1
    <3> QED
      BY <1>2, <1>3, <3>1, <3>2, <3>3
  <2> QED
    BY <1>1, <1>2, <2>2 DEF RenameFails
<1>11. tags' = [t \in DOMAIN tags |->
                  IF tags[t].name[1] = base THEN [tags[t] EXCEPT !.name = <<new, @[2]>>] ELSE tags[t]]
  <2>1. ASSUME NEW t \in DOMAIN tags
        PROVE  tags'[t] = IF tags[t].name[1] = base THEN [tags[t] EXCEPT !.name = <<new, tags[t].name[2]>>]
                                                    ELSE tags[t]
    <3>1. CASE tags[t].name[1] = base
      BY <1>3, <1>5, <3>1
    <3>2. CASE tags[t].name[1] # base
      <4>1. tags'[t] = [tags[t] EXCEPT !.name = tags[t].name]
        BY <1>3, <1>5, <3>2
      <4> QED
        BY <1>4, <3>2, <4>1, WithName
    <3> QED
      BY <3>1, <3>2
  <2> QED
    BY <1>5, <2>1
<1>12. base \in Bases /\ new \in Bases
  BY DEF Bases, CallsOf
<1>13. Book!Rename(base, new)
  BY <1>1, <1>9, <1>10, <1>11 DEF Book!Rename
<1> HIDE DEF base, new
<1> QED
  BY <1>8, <1>12, <1>13 DEF Book!Next

(* A tag goes alone, or with all the tags of its family.                     *)
LEMMA DeleteBook ==
  ASSUME TypeInv, BookInv, NEW s \in Sessions, Delete(s)
  PROVE  BookInv' /\ Book!Next
<1> DEFINE name == Calls[s].name
<1>1. PICK id \in Named(name) : Named(name) = {id} /\ id \in DOMAIN tags /\ tags[id].name = Canonical(name)
  <2>1. Named(name) # {}
    BY DEF Delete, Refused
  <2> QED
    BY <2>1, NamedTag
<1> DEFINE family == {t \in DOMAIN tags : tags[t].name[1] = tags[id].name[1]}
<1>2. PICK gone : /\ gone = Named(name) \cup IF Calls[s].sides THEN SideTags(name) ELSE {}
                  /\ tags' = [t \in DOMAIN tags \ gone |-> tags[t]]
                  /\ cards' = {pair \in cards : pair[1] \notin gone}
                  /\ End(s, "ok")
  BY DEF Delete
<1>3. \A t \in DOMAIN tags : OfFamily(tags[t].name)
  BY DEF BookInv, RowsOfTags
<1>4. \A x : Canonical(Side(name, x)) = <<name.base, IF name.spelling = "spaced" THEN "apart" ELSE x>>
  BY SideName, NamesOfCalls
<1>5. gone \in {{id}, family}
  <2>1. CASE ~ Calls[s].sides
    BY <1>1, <1>2, <2>1
  <2>2. CASE Calls[s].sides /\ name.spelling = "spaced"
    <3>1. \A t \in DOMAIN tags, x \in Endings : tags[t].name # Canonical(Side(name, x))
      <4>1. "apart" \notin Suffixes
        BY DEF Suffixes
      <4> QED
        BY <1>3, <1>4, <2>2, <4>1 DEF OfFamily
    <3>2. SideTags(name) = {}
      BY <3>1 DEF SideTags
    <3> QED
      BY <1>1, <1>2, <3>2
  <2>3. CASE Calls[s].sides /\ name.spelling # "spaced"
    <3>1. tags[id].name = <<name.base, "">>
      BY <1>1, <2>3, TagsAssumption DEF TagsAssumption, Canonical, Delete
    <3>2. ASSUME NEW t \in DOMAIN tags
          PROVE  t \in SideTags(name) <=> tags[t].name[1] = name.base /\ tags[t].name[2] # ""
      <4>1. \A x : Canonical(Side(name, x)) = <<name.base, x>>
        BY <1>4, <2>3
      <4>2. t \in SideTags(name) <=> \E x \in Endings : tags[t].name = <<name.base, x>>
        BY <4>1 DEF SideTags
      <4>3. tags[t].name = <<tags[t].name[1], tags[t].name[2]>> /\ tags[t].name[2] \in Suffixes
        BY <1>3 DEF OfFamily
      <4>4. \A x : tags[t].name = <<name.base, x>> <=> tags[t].name[1] = name.base /\ tags[t].name[2] = x
        BY <4>3
      <4> QED
        BY <4>2, <4>3, <4>4 DEF Endings
    <3>3. \A t \in DOMAIN tags : t = id <=> tags[t].name = <<name.base, "">>
      BY <1>1, <3>1 DEF TypeInv, TablesOK
    <3>4. SideTags(name) \subseteq DOMAIN tags
      BY DEF SideTags
    <3>5. gone = {id} \cup SideTags(name)
      BY <1>1, <1>2, <2>3
    <3>6. tags[id].name[1] = name.base
      <4>1. IsPair(tags[id].name, name.base, "")
        BY <3>1 DEF IsPair
      <4> QED
        BY <4>1, PairOf
    <3>7. ASSUME NEW t \in DOMAIN tags PROVE t \in gone <=> t \in family
      <4>1. tags[t].name = <<tags[t].name[1], tags[t].name[2]>>
        BY <1>3 DEF OfFamily
      <4>2. \A x : tags[t].name = <<name.base, x>> <=> tags[t].name[1] = name.base /\ tags[t].name[2] = x
        BY <4>1
      <4> QED
        BY <3>2, <3>3, <3>5, <3>6, <4>2
    <3>8. gone \subseteq DOMAIN tags
      BY <1>1, <3>4, <3>5
    <3>9. gone = family
      BY <3>7, <3>8
    <3> QED
      BY <3>9
  <2> QED
    BY <2>1, <2>2, <2>3
<1>6. /\ DOMAIN tags' = DOMAIN tags \ gone /\ \A t \in DOMAIN tags' : tags'[t] = tags[t]
      /\ tags' = [t \in DOMAIN tags' |-> tags'[t]]
  BY <1>2
<1>7. RowsOfTags'
  BY <1>6 DEF BookInv, RowsOfTags, Texts, CallsOf
<1>8. BookInv'
  BY <1>2, <1>6, <1>7, EndBook DEF Answers
<1>9. Book!Delete(id)
  BY <1>2, <1>5 DEF Book!Delete
<1> QED
  BY <1>1, <1>8, <1>9 DEF Book!Next

BookNext == [Book!Next]_<<tags, cards>>

LEMMA StepBook ==
  ASSUME TypeInv, Fresh, BookInv, OneRenamer, NoBlanks, NEW s \in Sessions, Step(s)
  PROVE  BookInv' /\ (FilterAsAsked' => BookNext)
<1>1. CASE Refuse(s) \/ Begin(s) \/ BeginRows(s) \/ Judge(s)
  BY <1>1, BeginBook DEF BookNext
<1>2. CASE Fail(s) \/ Victim(s)
  BY <1>2, EndSilent DEF Fail, Victim, Answers, BookNext
<1>3. CASE Write(s)
  <2>1. Calls[s].kind \in {"create", "rename", "update", "untag"}
    BY <1>3 DEF Write, Writes
  <2>2. CASE Calls[s].kind = "create"
    BY <1>3, <2>2, CreateBook DEF BookNext
  <2>3. CASE Calls[s].kind = "rename"
    BY <1>3, <2>3, RenameBook DEF BookNext
  <2>4. CASE Calls[s].kind = "update"
    BY <1>3, <2>4, UpdateBook DEF BookNext
  <2>5. CASE Calls[s].kind = "untag"
    BY <1>3, <2>5, UntagBook DEF BookNext
  <2> QED
    BY <2>1, <2>2, <2>3, <2>4, <2>5
<1>4. CASE Delete(s)
  BY <1>4, DeleteBook DEF BookNext
<1>5. CASE AddRow(s)
  BY <1>5, AddRowBook DEF BookNext
<1>6. CASE Commit(s)
  BY <1>6, CommitBook DEF BookNext
<1> QED
  BY <1>1, <1>2, <1>3, <1>4, <1>5, <1>6 DEF Step

LEMMA NextBook ==
  ASSUME OneRenamer, NoBlanks
  PROVE  TypeInv /\ Fresh /\ BookInv /\ [Next]_vars => BookInv' /\ (FilterAsAsked' => BookNext)
<1> SUFFICES ASSUME TypeInv, Fresh, BookInv, [Next]_vars PROVE BookInv' /\ (FilterAsAsked' => BookNext)
  OBVIOUS
<1>1. CASE UNCHANGED vars
  BY <1>1 DEF vars, BookInv, RowsOfTags, Renaming, Listing, Passed, BookNext
<1> QED
  BY <1>1, StepBook DEF Next, Done

(* While one caller describes tags and one renames them, by names without    *)
(* blanks around them, and whatever other calls interleave with theirs, what *)
(* is committed is a sequence of whole requests: filters are not mixed, a    *)
(* tag moves with its side tags and a list is tagged as a whole              *)
(* (tag_repo.py, card_tag_repo.py, cmd/tag).                                 *)
THEOREM OneEachImplementsBook ==
  ASSUME OneUpdater, OneRenamer, NoBlanks
  PROVE  Spec => ImplementsBook
<1>1. Init => TypeInv /\ Fresh /\ FilterInv /\ BookInv /\ Book!Init
  BY InitType, InitFresh, InitFilter, InitBook
<1>2. TypeInv /\ Fresh /\ FilterInv /\ BookInv /\ [Next]_vars
        => (TypeInv /\ Fresh /\ FilterInv /\ BookInv)' /\ BookNext
  BY NextType, NextFresh, NextFilter, NextBook DEF FilterInv
<1> QED
  BY <1>1, <1>2, PTL DEF Spec, ImplementsBook, Book!Spec, BookNext
================================================================================
