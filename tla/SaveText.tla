------------------------------ MODULE SaveText ------------------------------
(***************************************************************************)
(* The text of the save file (HostStore.cpp): what SaveToDiskLocked writes,  *)
(* what a write that failed half way leaves of it, and what LoadFromDisk      *)
(* makes of either.  HostStore.tla says when files are written and read.       *)
(*                                                                          *)
(* A text is a sequence of tokens.  A record's token is all up to its opening  *)
(* brace, and a field's is its name and value; the position stands for its      *)
(* four numbers by two, and bodyGender, a number like kills, is left out.  A     *)
(* cut falls between two tokens or inside one.                                   *)
(*                                                                          *)
(* A token's value is what Parse* makes of its text.  What printf, stof and       *)
(* JsonEscape do to coordinates and GUIDs is given by constants: a coordinate      *)
(* is printed with six digits, so it comes back rounded; and a GUID comes back     *)
(* with spaces for its tabs and line ends, so two may come back as one.            *)
(***************************************************************************)
EXTENDS Integers, Sequences, FiniteSets, SequencesExt

CONSTANTS
    Guid,          \* player GUIDs
    OnFile,        \* external: what a GUID is read as when it was written
    Coord,         \* coordinates
    AsRead,        \* external: what stof makes of the %.6g of a coordinate
    CutAsRead,     \* external: and of the non-empty proper prefixes of that text
    NoRecord,      \* a PlayerRecord of nothing but defaults
    OldRec,        \* the records an earlier session may have left
    Place, Look,   \* positions, and lists of garments
    Slots,         \* kAppearanceSlots
    MaxSaves,      \* bound: the saves
    MaxChanges     \* bound: the changes

\* The fields in the order in which they are written.
Fields == <<"hasPosition", "px", "py", "hasAppearance", "clothing", "kills", "deaths">>
Flags == {"hasPosition", "hasAppearance"}
Coordinates == {"px", "py"}
Counts == {"kills", "deaths"}

ASSUME GuidAssumption == IsFiniteSet(Guid)
ASSUME OnFileAssumption == OnFile \in [Guid -> Guid]
ASSUME CoordAssumption ==
    AsRead \in [Coord -> Coord] /\ CutAsRead \in [Coord -> SUBSET Coord]
ASSUME RecAssumption ==
    /\ \A r \in OldRec \cup {NoRecord} :
         r = [f \in ToSet(Fields) |-> r[f]] /\ Len(r.clothing) = Slots
    /\ \A l \in Look : Len(l) = Slots
    /\ \A f \in Flags : NoRecord[f] = FALSE
ASSUME BoundsAssumption == Slots \in Nat \ {0} /\ MaxSaves \in Nat /\ MaxChanges \in Nat

VARIABLES
    records,       \* s_records
    text,          \* the save file
    whole,         \* history: the write of the text did not fail
    written,       \* history: the records the text was written from
    saves,         \* history: the saves
    changes        \* history: the changes

textVars == <<records, text, whole, written, saves, changes>>

-----------------------------------------------------------------------------
(* SaveToDiskLocked.                                                        *)

Begin == [kind |-> "begin"]
End == [kind |-> "end"]
RecordOf(g) == [kind |-> "record", guid |-> OnFile[g]]

\* What a value is read as, and a whole record.
Reading(f, v) == IF f \in Coordinates THEN AsRead[v] ELSE v
ReadBack(r) == [f \in DOMAIN r |-> Reading(f, r[f])]

\* What is read of a value that ends too early: a count without its last digits, no
\* truth in "tru", and nothing of a list without its closing bracket.
CutCounts(v) == {v \div 10^k : k \in 1..9} \ {0}
CutReadings(f, v) ==
    CASE f \in Flags -> {FALSE}
      [] f \in Coordinates -> CutAsRead[v]
      [] f \in Counts -> CutCounts(v)
      [] OTHER -> {NoRecord[f]}

Field(f, v) ==
    [kind |-> "field", name |-> f, value |-> Reading(f, v), cuts |-> CutReadings(f, v)]

WrittenRecord(g, r) ==
    <<RecordOf(g)>> \o [i \in DOMAIN Fields |-> Field(Fields[i], r[Fields[i]])] \o <<End>>

\* The records in the order in which the map happens to hold them.
Written(rs, order) ==
    <<Begin>> \o FlattenSeq([i \in DOMAIN order |-> WrittenRecord(order[i], rs[order[i]])])
              \o <<End>>

-----------------------------------------------------------------------------
(* A text that ends too early.                                              *)

\* What may be left of a token that is cut: of a field, all but the end of its value;
\* of anything else, nothing that shows.
CutTokens(t) ==
    IF t.kind = "field"
    THEN {<<[t EXCEPT !.value = v, !.cuts = {}]>> : v \in t.cuts}
    ELSE {}

\* The texts that are left of the first n tokens: without the last, or with a part of it.
CutWithin(n) ==
    {SubSeq(text, 1, n - 1) \o rest : rest \in {<<>>} \cup CutTokens(text[n])}

-----------------------------------------------------------------------------
(* LoadFromDisk.                                                            *)

\* The tokens of the record that begins at k: up to its closing brace or, without
\* one, the end of the text.
BodyEnd_Last(k) == Len(text)
BodyEnd(k) ==
    LET ends == {j \in k..Len(text) : text[j].kind = "end"}
    IN  IF ends = {} THEN Len(text) ELSE CHOOSE j \in ends : \A m \in ends : j <= m
Body(k) == {text[j] : j \in (k + 1)..BodyEnd(k)}

\* FindValue and Parse*: the value if the name is there, else the default.
ParseField(k, f) ==
    LET found == {t \in Body(k) : t.kind = "field" /\ t.name = f}
    IN  IF found = {} THEN NoRecord[f] ELSE (CHOOSE t \in found : TRUE).value

ParseRecord_Strict(k) ==
    [f \in DOMAIN NoRecord |->
        IF f = "deaths" THEN NoRecord[f] ELSE ParseField(k, f)]
ParseRecord(k) == [f \in DOMAIN NoRecord |-> ParseField(k, f)]

RecordStarts == {k \in DOMAIN text : text[k].kind = "record"}

\* Of the records under one name the first is kept.
StartOf(g) ==
    CHOOSE k \in RecordStarts :
        /\ text[k].guid = g
        /\ \A j \in RecordStarts : text[j].guid = g => k <= j

LoadFromDisk ==
    [g \in {text[k].guid : k \in RecordStarts} |-> ParseRecord(StartOf(g))]

-----------------------------------------------------------------------------
\* A session starts from the file an earlier one left whole, if any.
TextInit ==
    /\ \E known \in SUBSET Guid : written \in [known -> OldRec]
    /\ \E order \in SetToSeqs(DOMAIN written) :
         text = IF written = <<>> THEN <<>> ELSE Written(written, order)
    /\ records = LoadFromDisk
    /\ whole = TRUE /\ saves = 0 /\ changes = 0

\* TouchLocked: the record, made where there is none.
Touched(g) == IF g \in DOMAIN records THEN records[g] ELSE NoRecord
Store(g, r) ==
    /\ changes < MaxChanges /\ changes' = changes + 1
    /\ records' = [h \in DOMAIN records \cup {g} |-> IF h = g THEN r ELSE records[h]]
    /\ UNCHANGED <<text, whole, written, saves>>

EnsureRecord(g) == Store(g, Touched(g))
UpsertPosition(g) ==
    \E p \in Place :
        Store(g, [Touched(g) EXCEPT !.hasPosition = TRUE, !.px = p.px, !.py = p.py])
UpsertAppearance(g) ==
    \E l \in Look : Store(g, [Touched(g) EXCEPT !.hasAppearance = TRUE, !.clothing = l])
RecordKill(g) == Store(g, [Touched(g) EXCEPT !.kills = @ + 1])
RecordDeath(g) == Store(g, [Touched(g) EXCEPT !.deaths = @ + 1])

SaveRecords ==
    /\ saves < MaxSaves /\ saves' = saves + 1
    /\ \E order \in SetToSeqs(DOMAIN records) : text' = Written(records, order)
    /\ whole' = TRUE /\ written' = records
    /\ UNCHANGED <<records, changes>>

\* The write of the save just made failed; nothing checks that.
WriteFails ==
    /\ saves > 0 /\ whole /\ whole' = FALSE
    /\ \E n \in DOMAIN text : text' \in CutWithin(n)
    /\ UNCHANGED <<records, written, saves, changes>>

\* The next session starts.
Load ==
    /\ records' = LoadFromDisk
    /\ UNCHANGED <<text, whole, written, saves, changes>>

TextNext ==
    \/ \E g \in Guid : \/ EnsureRecord(g) \/ UpsertPosition(g) \/ UpsertAppearance(g)
                        \/ RecordKill(g) \/ RecordDeath(g)
    \/ SaveRecords \/ WriteFails \/ Load

TextSpec == TextInit /\ [][TextNext]_textVars

-----------------------------------------------------------------------------
(* Properties.                                                              *)

\* A text begins with its brace, names nobody who was not written, and is not longer
\* than what was written.
TextTypeOK ==
    /\ DOMAIN records \subseteq Guid /\ DOMAIN written \subseteq Guid
    /\ text # <<>> => Head(text) = Begin
    /\ \A k \in RecordStarts : \E g \in DOMAIN written : text[k].guid = OnFile[g]
    /\ Len(text) <= 2 + (Len(Fields) + 2) * Cardinality(DOMAIN written)

\* Whoever was written to a whole file is there when the next session starts, with the
\* record as it reads back; so is nobody else.  Of players whose names read back the
\* same, which takes control characters in a GUID, one stands for all.
WholeFileRestores ==
    whole =>
        LET loaded == LoadFromDisk
        IN  /\ DOMAIN loaded = {OnFile[g] : g \in DOMAIN written}
            /\ \A n \in DOMAIN loaded : \E g \in DOMAIN written :
                 OnFile[g] = n /\ loaded[n] = ReadBack(written[g])

\* A file cut anywhere names nobody who was not written.  Every record that is complete
\* reads back as it was written; of the last one each field does, or is the default, or
\* is a number without its last digits.
CutLosesOnlyTheTail ==
    LET loaded == LoadFromDisk
    IN  /\ \A k \in RecordStarts : text[BodyEnd(k)] = End =>
             \E g \in DOMAIN written :
                 OnFile[g] = text[k].guid /\ loaded[text[k].guid] = ReadBack(written[g])
        /\ \A n \in DOMAIN loaded : \E g \in DOMAIN written :
             /\ OnFile[g] = n
             /\ \A f \in DOMAIN NoRecord :
                  \/ loaded[n][f] \in {Reading(f, written[g][f]), NoRecord[f]}
                  \/ /\ f \in Coordinates \cup Counts
                     /\ loaded[n][f] \in CutReadings(f, written[g][f])

\* Each field is read as it was saved or as its default.  (HostStore.cpp:6-8 on "a
\* truncated or hand-edited file": "a bad field -> the record's default".)
BadFieldIsDefault ==
    LET loaded == LoadFromDisk
    IN  \A n \in DOMAIN loaded, f \in DOMAIN NoRecord : \E g \in DOMAIN written :
             /\ OnFile[g] = n
             /\ loaded[n][f] \in {Reading(f, written[g][f]), NoRecord[f]}
=============================================================================
