---------------------------------- MODULE Tags ---------------------------------
(***************************************************************************)
(* The tags: the tools, the HTTP routes and the commands create, describe, *)
(* rename and delete them and put them on cards, and the processing of a   *)
(* sweep puts its verdicts on cards under the name the tag had when it     *)
(* began.  A session makes one call, one READ COMMITTED transaction: it    *)
(* first reads what is committed, then writes and commits.  The statements *)
(* that write are one step, for the first of them locks the tag's row till *)
(* the end, but for bulk inserts, which lock card after card.              *)
(*                                                                         *)
(* Left out: supertypes, which go the way of the types; the answers of the *)
(* reading tools; the catalog is fixed.                                    *)
(***************************************************************************)
EXTENDS Integers, Sequences, FiniteSets, Functions

CONSTANTS
  Sessions,    \* strings, none empty; a tag that a session creates has its name as id
  Calls,       \* of each session its call
  First,       \* the tags at first, by id
  FirstCards,  \* the pairs of a tag and an oracle id at first
  Oracles      \* the oracle ids in the catalog

(* A name as it is given: a word, the suffix of a side tag or "", and how  *)
(* it is spelled.                                                          *)
Suffixes == {"", "unsure", "excluded"}
IsName(n) == n = [base |-> n.base, suffix |-> n.suffix, spelling |-> n.spelling] /\ n.suffix \in Suffixes

ASSUME TagsAssumption ==
  /\ DOMAIN First \cap Sessions = {} /\ "" \notin Sessions
  /\ FirstCards \subseteq (DOMAIN First) \X Oracles
  /\ \A one, other \in DOMAIN First : First[one].name = First[other].name => one = other
  /\ First = [id \in DOMAIN First |->
                [name |-> First[id].name, text |-> First[id].text, types |-> First[id].types]]
  /\ \A id \in DOMAIN First :
       First[id].name = <<First[id].name[1], First[id].name[2]>> /\ First[id].name[2] \in Suffixes
  /\ \A s \in Sessions :
       /\ IsName(Calls[s].name)
       /\ Calls[s].kind \in {"tag", "verdicts"} => IsFiniteSet(Calls[s].oracles)
       /\ Calls[s].kind = "create" => Calls[s].command \in BOOLEAN
       /\ Calls[s].kind = "rename" =>
            Calls[s].name.suffix = "" /\ Calls[s].to.suffix = "" /\ IsName(Calls[s].to)
       /\ Calls[s].kind = "delete" /\ Calls[s].sides => Calls[s].name.suffix = ""

VARIABLES
  tags,     \* `tags` with `tag_types`: of each id the name, description and filter
  cards,    \* `card_tags`
  session   \* how far each session is

vars == <<tags, cards, session>>

(* Stored names are trimmed and in lower case; a name with blanks around   *)
(* it, continued with a suffix, is the name of no tag.                     *)
Canonical(name) == <<name.base, name.suffix>>
Endings == Suffixes \ {""}
Side(name, suffix) == [name EXCEPT !.suffix = IF name.spelling = "spaced" THEN "apart" ELSE suffix]

Named(name) == {id \in DOMAIN tags : tags[id].name = Canonical(name)}

(* A type as it is given is a pair of its word, "" if blank, and how it is *)
(* spelled.                                                                *)
GivenTypes(types) == SelectSeq([i \in DOMAIN types |-> types[i][1]], LAMBDA word : word # "")
Repeats(words, W) == \E i, j \in DOMAIN words : i # j /\ words[i] = words[j] /\ words[i] \in W

NoRow == [id |-> "", name |-> <<"", "">>, text |-> "", types |-> {}]
Row(id) == [id |-> id, name |-> tags[id].name, text |-> tags[id].text, types |-> tags[id].types]
NoStep == [stage |-> "idle", id |-> "", row |-> NoRow, todo |-> <<>>, held |-> {}]

Init ==
  /\ tags = First
  /\ cards = FirstCards
  /\ session = [s \in Sessions |-> NoStep]

(* What a session holds is gone with the transaction.                      *)
End(s, answer) ==
  session' = [session EXCEPT ![s] = [stage |-> answer, id |-> session[s].id, row |-> session[s].row,
                                     todo |-> <<>>, held |-> {}]]

-------------------------------------------------------------------------------
(* What a call reads.                                                      *)

(* Refused with an error of its own; nothing has been written.  A name or  *)
(* a description of blanks is refused by the tools and the routes, not by  *)
(* the command that creates a tag.                                         *)
Refused(call) ==
  \/ call.kind = "update" /\ call.text = ""
  \/ call.kind = "create" /\ ~ call.command /\ (call.text = "" \/ call.name.base = "")
  \/ call.kind = "create" /\ Named(call.name) # {}
  \/ call.kind # "create" /\ Named(call.name) = {}
  \/ call.kind = "rename" /\ Named(call.to) # {}
  \/ call.kind \in {"tag", "untag"} /\ ~ call.oracles \subseteq Oracles

Refuse(s) ==
  /\ session[s].stage = "idle" /\ Refused(Calls[s])
  /\ End(s, "refused")
  /\ UNCHANGED <<tags, cards>>

Goes(s, stage, id, row, todo) ==
  session' = [session EXCEPT ![s] = [stage |-> stage, id |-> id, row |-> row, todo |-> todo, held |-> {}]]

Begin(s) ==
  /\ session[s].stage = "idle" /\ ~ Refused(Calls[s])
  /\ Calls[s].kind \in {"create", "rename", "update", "untag", "verdicts"}
  /\ IF Calls[s].kind = "create" THEN Goes(s, "write", s, NoRow, <<>>)
     ELSE \E id \in Named(Calls[s].name) : Goes(s, "write", id, Row(id), <<>>)
  /\ UNCHANGED <<tags, cards>>

(* The known oracle ids come as a set, in whatever order it has.           *)
Orders(S) == {order \in [1..Cardinality(S) -> S] : Range(order) = S}

BeginRows(s) ==
  /\ session[s].stage = "idle" /\ ~ Refused(Calls[s]) /\ Calls[s].kind = "tag"
  /\ \E id \in Named(Calls[s].name), order \in Orders(Calls[s].oracles) :
       Goes(s, "rows", id, Row(id), order)
  /\ UNCHANGED <<tags, cards>>

(* The processing looks the tag up again, by the name it read before the   *)
(* results came, and does not look at the answer.                          *)
Judge(s) ==
  /\ session[s].stage = "write" /\ Calls[s].kind = "verdicts"
  /\ LET now == {id \in DOMAIN tags : tags[id].name = session[s].row.name}
     IN \/ now = {} /\ End(s, "ok")
        \/ now # {} /\ ~ Calls[s].oracles \subseteq Oracles /\ End(s, "error")
        \/ /\ Calls[s].oracles \subseteq Oracles
           /\ \E id \in now, order \in Orders(Calls[s].oracles) : Goes(s, "rows", id, session[s].row, order)
  /\ UNCHANGED <<tags, cards>>

-------------------------------------------------------------------------------
(* What a call writes: the step that commits, or fails and rolls back.     *)

Writes(s, kind) == session[s].stage = "write" /\ Calls[s].kind = kind

(* The next two fail if the name is taken, the tag is gone, or a word is   *)
(* repeated, which breaks the primary key of the types.                    *)
InsertFails(s) ==
  LET words == GivenTypes(Calls[s].types)
  IN Named(Calls[s].name) # {} \/ Repeats(words, Range(words))

Inserted(s) ==
  [id \in DOMAIN tags \cup {s} |->
     IF id = s THEN [name |-> Canonical(Calls[s].name), text |-> Calls[s].text,
                     types |-> Range(GivenTypes(Calls[s].types))]
               ELSE tags[id]]

(* The side tags that there are get the suffix of the new name, unless one *)
(* of these names is taken: then nothing is renamed.                       *)
Ending(s, id) == {x \in Endings : tags[id].name = Canonical(Side(Calls[s].name, x))}

NewName(s, id) ==
  IF id = session[s].id THEN Canonical(Calls[s].to)
  ELSE IF Ending(s, id) = {} THEN tags[id].name
  ELSE Canonical(Side(Calls[s].to, CHOOSE x \in Ending(s, id) : TRUE))

RenameFails(s) ==
  \/ session[s].id \notin DOMAIN tags
  \/ \E one, other \in DOMAIN tags : one # other /\ NewName(s, one) = NewName(s, other)

Renamed(s) == [id \in DOMAIN tags |-> [tags[id] EXCEPT !.name = NewName(s, id)]]

(* Against the rows that were read, new types are inserted and old ones    *)
(* deleted; a description that stays as it was read is not written.  Then  *)
(* the tag is read again, by the name that was given.                      *)
Words(s) == IF Calls[s].types = "omitted" THEN <<>> ELSE GivenTypes(Calls[s].types)
Added(s) == Range(Words(s)) \ session[s].row.types
Removed(s) == IF Calls[s].types = "omitted" THEN {} ELSE session[s].row.types \ Range(Words(s))
Rewords(s) == Calls[s].text # session[s].row.text

UpdateFails(s) ==
  \/ Named(Calls[s].name) = {} \/ Repeats(Words(s), Added(s))
  \/ session[s].id \notin DOMAIN tags /\ (Added(s) # {} \/ Rewords(s))
  \/ session[s].id \in DOMAIN tags /\ Added(s) \cap tags[session[s].id].types # {}

Updated(s) ==
  [id \in DOMAIN tags |->
     IF id # session[s].id THEN tags[id]
     ELSE [name |-> tags[id].name, text |-> IF Rewords(s) THEN Calls[s].text ELSE tags[id].text,
           types |-> (tags[id].types \ Removed(s)) \cup Added(s)]]

Untagged(s) == cards \ ({session[s].id} \X Calls[s].oracles)

Fails(s) ==
  \/ Writes(s, "create") /\ InsertFails(s)
  \/ Writes(s, "rename") /\ RenameFails(s)
  \/ Writes(s, "update") /\ UpdateFails(s)

Fail(s) == Fails(s) /\ End(s, "error") /\ UNCHANGED <<tags, cards>>

Write(s) ==
  /\ ~ Fails(s)
  /\ \/ Writes(s, "create") /\ tags' = Inserted(s) /\ UNCHANGED cards
     \/ Writes(s, "rename") /\ tags' = Renamed(s) /\ UNCHANGED cards
     \/ Writes(s, "update") /\ tags' = Updated(s) /\ UNCHANGED cards
     \/ /\ Writes(s, "untag")
        /\ cards' = Untagged(s)
        /\ UNCHANGED tags
  /\ End(s, "ok")

(* One statement for the tag; the command has one more for each side tag.  *)
(* The rows of `card_tags` and `tag_types` go with the tag.                *)
SideTags(name) == {id \in DOMAIN tags : \E x \in Endings : tags[id].name = Canonical(Side(name, x))}

Delete(s) ==
  LET call == Calls[s]
      gone == Named(call.name) \cup IF call.sides THEN SideTags(call.name) ELSE {}
  IN /\ session[s].stage = "idle" /\ ~ Refused(call) /\ call.kind = "delete"
     /\ tags' = [id \in DOMAIN tags \ gone |-> tags[id]]
     /\ cards' = {pair \in cards : pair[1] \notin gone}
     /\ End(s, "ok")

-------------------------------------------------------------------------------
(* The rows of a bulk insert: one that is there is skipped, and one that   *)
(* another session has inserted and not committed is waited for.           *)

Locked(s) == UNION {session[other].held : other \in Sessions \ {s}}
NextRow(s) == <<session[s].id, session[s].todo[1]>>
Adding(s) == session[s].stage = "rows" /\ session[s].todo # <<>>

AddRowCommits(s) ==
  /\ Adding(s) /\ NextRow(s) \notin Locked(s) /\ session[s].id \in DOMAIN tags
  /\ session' = [session EXCEPT ![s] = [@ EXCEPT !.todo = Tail(@)]]
  /\ cards' = cards \cup {NextRow(s)}
  /\ UNCHANGED tags

AddRow(s) ==
  /\ Adding(s) /\ NextRow(s) \notin Locked(s)
  /\ session' = [session EXCEPT ![s] = [stage |-> "rows", id |-> session[s].id, row |-> session[s].row,
                                        todo |-> Tail(session[s].todo),
                                        held |-> session[s].held \cup ({NextRow(s)} \ cards)]]
  /\ UNCHANGED <<tags, cards>>

(* The end of the statement looks for the tag, and the call commits.       *)
OrphanedNever(s) == FALSE
Orphaned(s) == session[s].held # {} /\ session[s].id \notin DOMAIN tags

Commit(s) ==
  /\ session[s].stage = "rows" /\ session[s].todo = <<>>
  /\ IF Orphaned(s) THEN End(s, "error") /\ UNCHANGED cards
                    ELSE End(s, "ok") /\ cards' = cards \cup session[s].held
  /\ UNCHANGED tags

(* PostgreSQL ends one of the calls that wait for each other.              *)
WaitsFor(s, other) == Adding(s) /\ other # s /\ NextRow(s) \in session[other].held

Deadlocked(s) ==
  /\ \E other \in Sessions : WaitsFor(s, other)
  /\ \E circle \in SUBSET {t \in Sessions : Adding(t)} :
    /\ s \in circle
    /\ \A t \in circle : (\E u \in circle : WaitsFor(t, u)) /\ (\E u \in circle : WaitsFor(u, t))

VictimRetries(s) ==
  /\ Deadlocked(s)
  /\ session' = [session EXCEPT ![s] = NoStep]
  /\ UNCHANGED <<tags, cards>>

Victim(s) == Deadlocked(s) /\ End(s, "error") /\ UNCHANGED <<tags, cards>>

Step(s) ==
  \/ Refuse(s) \/ Begin(s) \/ BeginRows(s) \/ Judge(s)
  \/ Fail(s) \/ Write(s) \/ Delete(s)
  \/ AddRow(s) \/ Commit(s) \/ Victim(s)

Done == (\A s \in Sessions : session[s].stage \in {"refused", "error", "ok"}) /\ UNCHANGED vars

Next == (\E s \in Sessions : Step(s)) \/ Done

Spec == Init /\ [][Next]_vars

(* Somebody goes on as long as anybody can: the server with the calls and  *)
(* the database with the victims.                                          *)
FairSpec == Spec /\ WF_vars(\E s \in Sessions : Step(s))

-------------------------------------------------------------------------------
(* Properties.                                                             *)

Answers == {"refused", "error", "ok"}

(* No two tags have one name, and card tags and held rows are of real      *)
(* cards; card tags are of tags that there are.                            *)
TypeOK ==
  /\ DOMAIN tags \subseteq DOMAIN First \cup Sessions
  /\ \A one, other \in DOMAIN tags : tags[one].name = tags[other].name => one = other
  /\ cards \subseteq (DOMAIN tags) \X Oracles
  /\ \A s \in Sessions :
       /\ session[s].stage \in {"idle", "write", "rows"} \cup Answers
       /\ Range(session[s].todo) \subseteq Oracles
       /\ session[s].held \subseteq {session[s].id} \X Oracles
       /\ session[s].stage # "rows" => session[s].held = {}

(* A tag's filter is one that it was created with or that one call gave    *)
(* (tags_tools.py:131-132: what is set replaces the filter).  It holds     *)
(* while one caller describes a tag; two that read the same filter leave   *)
(* the union of theirs.                                                    *)
GivesFilter(call) == call.kind = "create" \/ (call.kind = "update" /\ call.types # "omitted")

Filters ==
  {First[id].types : id \in DOMAIN First}
  \cup {Range(GivenTypes(Calls[s].types)) : s \in {t \in Sessions : GivesFilter(Calls[t])}}

FilterAsAsked == \A id \in DOMAIN tags : tags[id].types \in Filters

(* A tag and its side tags keep names that belong together through all     *)
(* renaming (rename.py:1), whatever is created and deleted meanwhile.  It  *)
(* holds for one caller who renames and spells the name without blanks:    *)
(* of two, the second moves the tag away from its side tags.               *)
Families == {pair \in (DOMAIN First) \X (DOMAIN First) :
               /\ First[pair[1]].name[2] = "" /\ First[pair[2]].name[2] # ""
               /\ First[pair[1]].name[1] = First[pair[2]].name[1]}

SidesFollow ==
  \A pair \in Families :
    pair[1] \in DOMAIN tags /\ pair[2] \in DOMAIN tags =>
      tags[pair[2]].name[1] = tags[pair[1]].name[1]

(* The verdicts of a sweep are put on the tag that was swept, if there is  *)
(* one still.  It holds while nobody renames the tag between the two times *)
(* that the processing looks it up.                                        *)
VerdictsReachTheirTag ==
  [][\A s \in Sessions :
       LET swept == session[s].row.id
       IN Calls[s].kind = "verdicts" /\ session[s].stage # "ok" /\ session'[s].stage = "ok"
            /\ swept \in DOMAIN tags
          => {swept} \X Calls[s].oracles \subseteq cards']_vars

(* Every call comes to an end.                                             *)
CallsEnd == <>(\A s \in Sessions : session[s].stage \in Answers)

(* What is committed is a sequence of whole requests.                      *)
CallsOf(kinds) == {s \in Sessions : Calls[s].kind \in kinds}
Ids == DOMAIN First \cup Sessions
Bases == {First[id].name[1] : id \in DOMAIN First} \cup {Calls[s].name.base : s \in Sessions}
           \cup {Calls[s].to.base : s \in CallsOf({"rename"})}
Texts == {First[id].text : id \in DOMAIN First} \cup {Calls[s].text : s \in CallsOf({"create", "update"})}
Lists == {Calls[s].oracles : s \in CallsOf({"tag", "verdicts"})}
Takings == {Calls[s].oracles : s \in CallsOf({"untag"})}

Book == INSTANCE TagBook
ImplementsBook == Book!Spec
================================================================================
