----------------------------- MODULE IssueFields -----------------------------
(***************************************************************************)
(* The custom fields of create_issue and update_issue (tools/issues.py,    *)
(* validation/fields.py, schema/custom_fields.py): how the caller's list   *)
(* and the parameters difficulty, held and held_until become one list, how *)
(* its values are corrected, how the held gate judges what the PUT will    *)
(* leave behind, and what Redmine makes of the list.                       *)
(* Values are model values.  An entry that carries a name carries that of  *)
(* the field its id stands for.                                            *)
(***************************************************************************)
EXTENDS Naturals, Sequences, FiniteSets

CONSTANTS
    FieldValues, Empty, \* values; no text but white space is one of them
    Unclassified,       \* DIFFICULTY_DEFAULT_VALUE
    Folded,             \* values that only differ in case are folded to the same
    Possible,           \* possible_values in Redmine, {} unless a list field
    FieldCalls,         \* the calls: op, entries, difficulty, held, until, pinned
    Had                 \* what the issue may have in its custom fields

Diff == "Difficulty"
Held == "Held"
Until == "Held Until"
IssueField == {Diff, Held, Until}
NotGiven == "not given"
Absent == "absent"      \* the issue's tracker does not have the field

\* The id of an entry is a number, the same as a string, or missing
FieldEntry == [field : IssueField, key : {"int", "text", "none"}, named : BOOLEAN,
               value : FieldValues]

ASSUME FieldsAssumption ==
    /\ Empty \in FieldValues /\ Unclassified \in FieldValues
    /\ {NotGiven, Absent} \cap FieldValues = {}
    /\ Folded \in [FieldValues -> FieldValues]
    /\ \A v \in FieldValues : Folded[v] = Folded[Empty] => v = Empty
    /\ Possible \in [IssueField -> SUBSET FieldValues]
    /\ \A f \in IssueField : IsFiniteSet(Possible[f])
    /\ \A c \in FieldCalls :
        /\ c.entries \in Seq(FieldEntry) /\ c.pinned \subseteq IssueField
        /\ {c.difficulty, c.until} \subseteq FieldValues \cup {NotGiven}
        /\ c.held \in FieldValues \cup {NotGiven, "clear", "flag"}
    /\ Had \subseteq [IssueField -> FieldValues \cup {Absent}]

VARIABLES
    fieldStep,  \* "check", "difficulty", "held", "until", "correct", "gate", "send", "done"
    asked,      \* the call
    had,        \* Redmine: the issue's custom fields before the call
    defined,    \* the custom field definitions are in the cache
    found,      \* history: the fields whose id could be resolved
    entries,    \* custom_fields
    merged,     \* history: custom_fields before the correction
    gated,      \* history: the held gate ran
    verdict,    \* how the call ends
    has         \* Redmine: the issue's custom fields

fieldVars == <<fieldStep, asked, had, defined, found, entries, merged, gated, verdict,
               has>>

FieldsInit ==
    /\ fieldStep = "check" /\ asked \in FieldCalls
    /\ had \in Had /\ has = had
    /\ defined \in BOOLEAN /\ found = {}
    /\ entries = asked.entries /\ merged = <<>> /\ gated = FALSE
    /\ verdict = "none"

-----------------------------------------------------------------------------
(* Helpers *)

FieldGoes(from, to) == fieldStep = from /\ fieldStep' = to /\ UNCHANGED verdict

Refuse(kind) ==
    fieldStep' = "done" /\ verdict' = kind /\ UNCHANGED <<entries, merged, has>>

MatchesById(e, f) == e.field = f /\ e.key = "int"   \* mutant: names are not looked at
\* _has_custom_field_entry and _merge_custom_field: `entry.get("id") == field_id`
Matches(e, f) == e.field = f /\ (e.key = "int" \/ e.named)

HasEntry(f) == \E i \in DOMAIN entries : Matches(entries[i], f)

\* The list without the entries for field f, in its order
Kept(f) == {i \in DOMAIN entries : ~Matches(entries[i], f)}
At(f, j) == CHOOSE i \in Kept(f) : Cardinality({k \in Kept(f) : k <= i}) = j
Without(f) == [j \in 1 .. Cardinality(Kept(f)) |-> entries[At(f, j)]]

MergeField(f, v) ==
    entries' = Append(Without(f), [field |-> f, key |-> "int", named |-> FALSE, value |-> v])

\* _resolve_custom_field: a pinned id, the cache, or a request that fills the cache.
\* The name is not found when the request fails or is not permitted.
Resolve(f, ok) ==
    IF f \in asked.pinned \/ defined
    THEN ok /\ found' = found \cup {f} /\ UNCHANGED defined
    ELSE /\ defined' = ok
         /\ found' = IF ok THEN found \cup {f} ELSE found

\* One convenience parameter, from one step to the next
Apply(f, from, to, given, yields, v) ==
    /\ FieldGoes(from, to)
    /\ IF ~given THEN UNCHANGED <<entries, defined, found>>
       ELSE \E ok \in BOOLEAN :
            /\ Resolve(f, ok)
            /\ IF ~ok \/ (yields /\ HasEntry(f)) THEN UNCHANGED entries ELSE MergeField(f, v)
    /\ UNCHANGED <<asked, had, merged, gated, has>>

-----------------------------------------------------------------------------
(* The steps of a call *)

\* _validate_held_reason, update_issue's GET, and validate_custom_fields
Check ==
    /\ \/ /\ FieldGoes("check", "difficulty") /\ asked.held # "flag"
          /\ \A i \in DOMAIN entries : entries[i].key # "none"
          /\ UNCHANGED <<entries, merged, has>>
       \/ /\ fieldStep = "check"
          /\ asked.held = "flag" \/ \E i \in DOMAIN entries : entries[i].key = "none"
          /\ Refuse("validation_failed")
       \/ fieldStep = "check" /\ asked.op = "update" /\ Refuse("api_error")
    /\ UNCHANGED <<asked, had, defined, found, gated>>

\* _apply_difficulty: the parameter overrides the list; the default only fills
ApplyDifficulty ==
    LET given == asked.difficulty # NotGiven IN
    Apply(Diff, "difficulty", "held", given \/ asked.op = "create", ~given,
          IF given THEN asked.difficulty ELSE Unclassified)

\* _apply_held: an entry of the list wins over the parameter
ApplyHeld ==
    Apply(Held, "held", "until", asked.held # NotGiven, TRUE,
          IF asked.held = "clear" THEN Empty ELSE asked.held)
ApplyUntil == Apply(Until, "until", "correct", asked.until # NotGiven, TRUE, asked.until)

Cached(f) == IF defined THEN Possible[f] ELSE {}

\* correct_custom_field_values: what a value may stand for
Candidates(e) ==
    IF Cached(e.field) = {} \/ e.value = Empty \/ e.value \in Cached(e.field) THEN {e.value}
    ELSE {v \in Cached(e.field) : Folded[v] = Folded[e.value]}

CorrectAnyhow ==   \* mutant: the first of several matches is taken
    /\ \/ /\ FieldGoes("correct", "gate")
          /\ \A i \in DOMAIN entries : Candidates(entries[i]) # {}
          /\ entries' = [i \in DOMAIN entries |->
                 [entries[i] EXCEPT !.value = CHOOSE v \in Candidates(entries[i]) : TRUE]]
          /\ UNCHANGED has
       \/ /\ fieldStep = "correct" /\ \E i \in DOMAIN entries : Candidates(entries[i]) = {}
          /\ fieldStep' = "done" /\ verdict' = "validation_failed" /\ UNCHANGED <<entries, has>>
    /\ merged' = entries
    /\ UNCHANGED <<asked, had, defined, found, gated>>

\* _correct_custom_fields: one candidate is taken, none or several are an error
Correct ==
    /\ \/ /\ FieldGoes("correct", "gate")
          /\ \A i \in DOMAIN entries : Cardinality(Candidates(entries[i])) = 1
          /\ entries' = [i \in DOMAIN entries |->
                 [entries[i] EXCEPT !.value = CHOOSE v \in Candidates(entries[i]) : TRUE]]
          /\ UNCHANGED has
       \/ /\ fieldStep = "correct"
          /\ \E i \in DOMAIN entries : Cardinality(Candidates(entries[i])) # 1
          /\ fieldStep' = "done" /\ verdict' = "validation_failed" /\ UNCHANGED <<entries, has>>
    /\ merged' = entries
    /\ UNCHANGED <<asked, had, defined, found, gated>>

\* The value the last of these entries gives, or what there was
Last(is, v) == IF is = {} THEN v ELSE entries[CHOOSE i \in is : \A j \in is : j <= i].value

MatchesLiterally(f) == {i \in DOMAIN entries : Matches(entries[i], f)}   \* mutant: "5" is not 5
\* _issue_with_pending_custom_fields compares ids as integers, and names
Pending(f) == {i \in DOMAIN entries : entries[i].field = f}

\* check_held_gate on the overlaid issue.  A field the issue does not have is
\* appended, under the name the first entry has; without a pinned id the gate needs it.
HeldAfter ==
    IF had[Held] # Absent THEN Last(Pending(Held), had[Held])
    ELSE IF Held \in asked.pinned
            \/ \E i \in Pending(Held) : entries[i].named /\ \A j \in Pending(Held) : i <= j
    THEN Last(Pending(Held), Empty)
    ELSE Empty

\* Only an update that closes the issue is gated, and only if the cached statuses show
\* that it does (IssueUpdate says when they do)
Gate ==
    /\ gated' \in IF asked.op = "close" THEN BOOLEAN ELSE {FALSE}
    /\ \/ /\ FieldGoes("gate", "send") /\ (gated' => HeldAfter = Empty)
          /\ UNCHANGED <<entries, merged, has>>
       \/ /\ fieldStep = "gate" /\ gated' /\ HeldAfter # Empty
          /\ Refuse("issue_held")
    /\ UNCHANGED <<asked, had, defined, found>>

\* Redmine assigns by id, in the order of the list, the fields the issue has
Assigned(f) == Last({i \in DOMAIN entries : entries[i].field = f}, had[f])

Send ==
    /\ fieldStep = "send" /\ fieldStep' = "done"
    /\ \/ /\ has' = [f \in IssueField |-> IF had[f] = Absent THEN Absent ELSE Assigned(f)]
          /\ verdict' \in {"written", "api_error"}
       \/ UNCHANGED has /\ verdict' = "api_error"
    /\ UNCHANGED <<asked, had, defined, found, entries, merged, gated>>

FieldsNext ==
    Check \/ ApplyDifficulty \/ ApplyHeld \/ ApplyUntil \/ Correct \/ Gate \/ Send

FieldsSpec == FieldsInit /\ [][FieldsNext]_fieldVars

-----------------------------------------------------------------------------
(* Properties *)

\* What the caller says about a field: a parameter, and entries of the list
Parameter(f) ==
    IF f = Diff THEN asked.difficulty
    ELSE IF f = Until THEN asked.until
    ELSE IF asked.held = "clear" THEN Empty ELSE asked.held
Explicit(f) == {i \in DOMAIN asked.entries : asked.entries[i].field = f}
LastExplicit(f) ==
    asked.entries[CHOOSE i \in Explicit(f) : \A j \in Explicit(f) : j <= i].value
\* Every entry for the field is one that the tools recognise as such
Recognised(f) ==
    \A i \in Explicit(f) : asked.entries[i].key = "int" \/ asked.entries[i].named

\* A value is written as it was given, or in the case in which Redmine lists it
Meant(v, given) == v = given \/ (Folded[v] = Folded[given] /\ v # Empty)

\* "the explicit entry wins and the convenience parameter is skipped for that field"
\* (issues.py:402), `difficulty` "overrides any matching entry" (565), and "no
\* Difficulty entry is present" (566) is when the default fills: each field of the
\* issue ends with the value the one that has precedence gave, and a field nobody
\* spoke about keeps what it had.
PrecedenceIsKept ==
    verdict = "written" =>
        \A f \in IssueField : had[f] # Absent /\ Recognised(f) =>
            LET told == Parameter(f) # NotGiven /\ f \in found IN
            IF f = Diff /\ told THEN Meant(has[f], Parameter(f))
            ELSE IF Explicit(f) # {} THEN Meant(has[f], LastExplicit(f))
            ELSE IF told THEN Meant(has[f], Parameter(f))
            ELSE IF f = Diff /\ asked.op = "create" /\ f \in found
                 THEN Meant(has[f], Unclassified)
            ELSE has[f] = had[f]

\* "The held gate has to judge the issue as it will be AFTER the PUT" (issues.py:449):
\* whichever way the caller names the field, no closing PUT that the gate let pass leaves
\* a reason in Held, and none is refused that would not have, if the issue has the field.
\* That the gate runs at all, and that nobody sets Held meanwhile, is not claimed here.
GateJudgesThePut ==
    asked.op = "close" =>
        /\ verdict = "written" /\ gated => has[Held] \in {Absent, Empty}
        /\ verdict = "issue_held" /\ had[Held] # Absent => Assigned(Held) # Empty

\* "an empty cache must never turn a write into a rejection" (fields.py:187): a value is
\* only refused when the definition is known and lists no value, or several, of which
\* it is a variant; and what is sent for it is the value or the only such variant.
CorrectionsAreSafe ==
    LET Variants(e) == {v \in Possible[e.field] : Folded[v] = Folded[e.value]} IN
    /\ verdict = "validation_failed" /\ merged # <<>> =>
        \E i \in DOMAIN merged :
            /\ defined /\ merged[i].value \notin Possible[merged[i].field] \cup {Empty}
            /\ Possible[merged[i].field] # {} /\ Cardinality(Variants(merged[i])) # 1
    /\ fieldStep \in {"gate", "send"} =>
        \A i \in DOMAIN entries :
            \/ entries[i] = merged[i]
            \/ entries[i].value # merged[i].value /\ Variants(merged[i]) = {entries[i].value}

\* The precedence of an explicit entry as issues.py:401-403 and 566 state it: without
\* a difficulty parameter, a field for which the list has an entry gets its value.
ExplicitEntryWins ==
    verdict = "written" =>
        \A f \in IssueField :
            had[f] # Absent /\ Explicit(f) # {} /\ (f = Diff => asked.difficulty = NotGiven) =>
                Meant(has[f], LastExplicit(f))
=============================================================================
