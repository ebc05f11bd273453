--------------------------------- MODULE Brief ---------------------------------
(***************************************************************************)
(* From the answer of the reflector to the brief the griller is asked      *)
(* about: src/domain/reflect.ts, the brief gate of                         *)
(* src/workflows/clarify.ts, and the form ui/app.js makes of it.           *)
(*                                                                         *)
(* A text is a sequence of lines, a line a sequence of words: what trim,   *)
(* split and join do to line breaks and blanks, and nothing else, matters. *)
(* Entries of a list are texts for the agent and lines for the operator.   *)
(***************************************************************************)
EXTENDS Naturals, Sequences, SequencesExt

CONSTANTS
    Word,       \* what a line is made of
    Absent,     \* an undefined field, or one that is not a string or an array
    ListFields, \* users, inScope, outOfScope, assumptions, unknowns
    Answer,     \* what the reflector may answer
    Typed,      \* texts the operator may put into a field
    MaxEdits    \* bound: edits of the form

(* The lines of a string; a line is blank if it has no words.             *)
Text == Seq(Seq(Word))

ASSUME BriefAssumption ==
    /\ MaxEdits \in Nat /\ Typed \subseteq Text /\ Absent \notin Text
    /\ ListFields \subseteq {"users", "inScope", "outOfScope", "assumptions", "unknowns"}
    /\ \A raw \in Answer :
          /\ \A text \in {raw.proposedTitle, raw.title, raw.summary, raw.restatement, raw.brief,
                          raw.goal} : text # Absent => text \in Text
          /\ DOMAIN raw.lists = ListFields
          /\ \A f \in ListFields : raw.lists[f] # Absent => raw.lists[f] \in Seq(Text)

VARIABLES
    stage,      \* of the clarify step; "failed": an exception left the handler
    reflect,    \* state.reflect
    form,       \* what the inputs of the form hold, and the notes below them
    brief,      \* the lines of state.brief, without its headings
    proposed,   \* history: what the gate proposed
    touched,    \* history: fields the operator changed in this form
    edits,      \* history: how many changes the form has seen
    inForm      \* history: whether the brief was confirmed in the form

vars == <<stage, reflect, form, brief, proposed, touched, edits, inForm>>

Blank == <<>>       \* a line without words
Empty == <<>>       \* a text without lines
Said(word) == <<<<word>>>>

(* filter(Boolean): the lines of a text, or the texts of a list, that are  *)
(* not blank.                                                              *)
NonBlank(entries) ==
    FlattenSeq([i \in DOMAIN entries |-> IF entries[i] = <<>> THEN <<>> ELSE <<entries[i]>>])

Trim(text) ==
    LET written == {i \in DOMAIN text : text[i] # Blank}
    IN  IF written = {} THEN Empty ELSE SubSeq(text, Min(written), Max(written))

(* An input of type text has one line: it drops the breaks.                *)
Line(text) == FlattenSeq(text)

-------------------------------------------------------------------------------
(* domain/reflect.ts *)

(* The first of the values that is not blank. *)
FirstText(values) ==
    LET given == {i \in DOMAIN values : values[i] # Absent /\ Trim(values[i]) # Empty}
    IN  IF given = {} THEN Absent ELSE Trim(values[Min(given)])

(* Faulty: blank entries stay. *)
AsStringArrayUnfiltered(value) ==
    IF value = Absent THEN <<>> ELSE [i \in DOMAIN value |-> Trim(value[i])]

AsStringArray(value) ==
    IF value = Absent THEN <<>> ELSE NonBlank([i \in DOMAIN value |-> Trim(value[i])])

(* ReflectOutputSchema: these three are strings that are not empty.        *)
Parses(r) == \A text \in {r.summary, r.restatement, r.goal} : text \notin {Absent, Empty}

CoerceReflectOutput(raw) ==
    [title |-> FirstText(<<raw.proposedTitle, raw.title>>),
     summary |-> FirstText(<<raw.summary>>),
     restatement |-> FirstText(<<raw.restatement, raw.brief>>),
     goal |-> FirstText(<<raw.goal>>),
     lists |-> [f \in ListFields |-> AsStringArray(raw.lists[f])]]

OrElse(text, other) == IF text = Empty THEN other ELSE text

KeepText(answers, field, fallback) ==
    IF field \in DOMAIN answers THEN Trim(answers[field]) ELSE fallback

(* Faulty: an empty list counts as not answered. *)
ListFieldOrBase(answers, f, fallback) ==
    IF f \in DOMAIN answers /\ NonBlank(answers[f]) # <<>>
    THEN LET lines == NonBlank(answers[f]) IN [i \in DOMAIN lines |-> <<lines[i]>>]
    ELSE fallback

(* Every line that is not blank is an entry. *)
ListField(answers, f, fallback) ==
    IF f \in DOMAIN answers
    THEN LET lines == NonBlank(answers[f]) IN [i \in DOMAIN lines |-> <<lines[i]>>]
    ELSE fallback

(* Faulty: a goal that is cleared stays empty. *)
GoalOf(base, answers, restatement) == KeepText(answers, "goal", base.goal)

EditedGoal(base, answers, restatement) ==
    OrElse(KeepText(answers, "goal", base.goal), restatement)

(* Nobody can clear the restatement; "yes" confirms it. *)
Restatement(base, answers) ==
    LET raw == KeepText(answers, "restatement", Empty)
    IN  IF raw \in {Empty, Said("yes"), Said("y")} THEN base.restatement ELSE raw

ApplyReflectEdits(base, answers) ==
    LET restatement == Restatement(base, answers)
        title == KeepText(answers, "proposedTitle", base.title)
    IN  [title |-> IF title = Empty THEN Absent ELSE title,
         summary |-> OrElse(KeepText(answers, "summary", base.summary), restatement),
         restatement |-> restatement,
         goal |-> EditedGoal(base, answers, restatement),
         lists |-> [f \in ListFields |-> ListField(answers, f, base.lists[f])]]

(* The lines of formatReflectRestatement, which has neither title, summary *)
(* nor notes.                                                              *)
Formatted(r) ==
    ToSet(r.restatement) \union ToSet(r.goal)
        \union UNION {ToSet(FlattenSeq(r.lists[f])) : f \in ListFields}

-------------------------------------------------------------------------------
(* ui/app.js: the form of the brief gate *)

(* Faulty: one input for each entry.                                       *)
ItemsAsEntries(items) ==
    IF items = <<>> THEN <<Blank>> ELSE [i \in DOMAIN items |-> Line(items[i])]

(* reflectFieldValue joins the entries with breaks, reflectListEntries     *)
(* splits at every break: an entry of two lines is shown as two.           *)
EntriesOf(items) == IF items = <<>> THEN <<Blank>> ELSE FlattenSeq(items)

(* reflectFieldNode, for each of REFLECT_FIELDS.                           *)
Shown(r) ==
    [title |-> IF r.title = Absent THEN Blank ELSE Line(r.title),
     restatement |-> r.restatement,
     goal |-> r.goal,
     lists |-> [f \in ListFields |-> EntriesOf(r.lists[f])],
     notes |-> Empty]

(* readReflectGateAnswers *)
ReadForm(shown) ==
    LET noted == IF Trim(shown.notes) = Empty THEN {} ELSE {"notes"}
    IN  [field \in {"proposedTitle", "restatement", "goal"} \union ListFields \union noted |->
            CASE field = "proposedTitle" -> <<shown.title>>
              [] field = "restatement" -> shown.restatement
              [] field = "goal" -> shown.goal
              [] field = "notes" -> Trim(shown.notes)
              [] field \in ListFields -> shown.lists[field]]

Editing == stage = "brief-gate" /\ edits < MaxEdits

Edited(shown, field) ==
    /\ form' = shown
    /\ touched' = touched \union {field}
    /\ edits' = edits + 1
    /\ UNCHANGED <<stage, reflect, brief, proposed, inForm>>

EditTitle(text) == Editing /\ Edited([form EXCEPT !.title = Line(text)], "proposedTitle")
EditRestatement(text) == Editing /\ Edited([form EXCEPT !.restatement = text], "restatement")
EditGoal(text) == Editing /\ Edited([form EXCEPT !.goal = text], "goal")
WriteNotes(text) == Editing /\ Edited([form EXCEPT !.notes = text], "notes")

EditEntry(f, i, text) ==
    /\ Editing
    /\ i \in DOMAIN form.lists[f]
    /\ Edited([form EXCEPT !.lists[f][i] = Line(text)], f)

(* A new entry is blank, and no change of what the field says.             *)
AddEntry(f) ==
    /\ Editing
    /\ form' = [form EXCEPT !.lists[f] = Append(@, Blank)]
    /\ edits' = edits + 1
    /\ UNCHANGED <<stage, reflect, brief, proposed, touched, inForm>>

(* The button of the only entry is disabled.                               *)
RemoveEntry(f, i) ==
    /\ Editing
    /\ i \in DOMAIN form.lists[f] /\ Len(form.lists[f]) > 1
    /\ Edited([form EXCEPT !.lists[f] = RemoveAt(@, i)], f)

(* renderGate rebuilds the form from the draft of the run, which this form *)
(* fills on its first rendering and never writes what is typed to.         *)
Rerender ==
    /\ stage = "brief-gate"
    /\ form' = Shown(reflect)
    /\ touched' = {}
    /\ UNCHANGED <<stage, reflect, brief, proposed, edits, inForm>>

-------------------------------------------------------------------------------
(* workflows/clarify.ts *)

Init ==
    /\ stage = "reflect" /\ reflect = Absent /\ form = Absent /\ brief = Absent
    /\ proposed = Absent /\ touched = {} /\ edits = 0 /\ inForm = FALSE

(* onAgent: an answer that is no brief blocks the step.                    *)
Reflected(raw) ==
    /\ stage = "reflect"
    /\ LET r == CoerceReflectOutput(raw)
       IN  IF Parses(r)
           THEN stage' = "brief-gate" /\ reflect' = r /\ proposed' = r /\ form' = Shown(r)
           ELSE stage' = "blocked" /\ UNCHANGED <<reflect, proposed, form>>
    /\ UNCHANGED <<brief, touched, edits, inForm>>

StructuredKeys == {"proposedTitle", "restatement", "goal", "summary"} \union ListFields

(* The edits are made to the proposal; the text of the brief counts when   *)
(* no field is answered. What applyReflectEdits throws leaves onUser.      *)
OnUser(answers) ==
    LET flat == IF "brief" \in DOMAIN answers THEN Trim(answers.brief) ELSE Empty
        applied == ApplyReflectEdits(reflect, answers)
    IN  IF DOMAIN answers \intersect StructuredKeys # {}
        THEN IF Parses(applied)
             THEN stage' = "grill" /\ reflect' = applied /\ brief' = Formatted(applied)
             ELSE stage' = "failed" /\ UNCHANGED <<reflect, brief>>
        ELSE IF flat # Empty
             THEN stage' = "grill" /\ brief' = ToSet(flat) /\ UNCHANGED reflect
             ELSE stage' = "blocked" /\ UNCHANGED <<reflect, brief>>

Confirm ==
    /\ stage = "brief-gate"
    /\ OnUser(ReadForm(form))
    /\ inForm' = TRUE
    /\ UNCHANGED <<form, proposed, touched, edits>>

(* submit-answers of another client: any of the fields.                    *)
AnswerDirectly(answers) ==
    /\ stage = "brief-gate"
    /\ OnUser(answers)
    /\ UNCHANGED <<form, proposed, touched, edits, inForm>>

Keys == StructuredKeys \union {"brief", "notes"}

(* Who answers directly does not see the form: the one without edits does. *)
Next ==
    \/ \E raw \in Answer : Reflected(raw)
    \/ \E text \in Typed :
           EditTitle(text) \/ EditRestatement(text) \/ EditGoal(text) \/ WriteNotes(text)
    \/ Editing /\ \E f \in ListFields :
           \/ AddEntry(f)
           \/ \E i \in DOMAIN form.lists[f] :
                 RemoveEntry(f, i) \/ \E text \in Typed : EditEntry(f, i, text)
    \/ Rerender
    \/ Confirm
    \/ edits = 0 /\ \E key, other \in Keys, text, more \in Typed :
           AnswerDirectly([k \in {key, other} |-> IF k = key THEN text ELSE more])
    \/ edits = 0 /\ AnswerDirectly(<<>>)

Spec == Init /\ [][Next]_vars
-------------------------------------------------------------------------------
(* The stage is one of those of the step, and from the gate on its state   *)
(* holds a brief by the schema: no entry of a list is blank or has blank   *)
(* lines around it.                                                        *)
BriefTypeOK ==
    /\ stage \in {"reflect", "brief-gate", "grill", "blocked", "failed"}
    /\ edits \in 0 .. MaxEdits /\ inForm \in BOOLEAN
    /\ touched \subseteq Keys
    /\ reflect # Absent =>
          /\ Parses(reflect)
          /\ \A f \in ListFields : \A i \in DOMAIN reflect.lists[f] :
                reflect.lists[f][i] # Empty /\ Trim(reflect.lists[f][i]) = reflect.lists[f][i]

(* No answer makes the schema throw in applyReflectEdits, whatever fields  *)
(* it clears or leaves out: the gate is closed before the step sees the    *)
(* answer, so an exception would leave a run with nothing to answer.       *)
NeverFails == stage # "failed"

(* A field the operator did not change is confirmed as it was proposed: it *)
(* survives the way through the form and back, up to the breaks that make  *)
(* one entry two and that a title loses.                                   *)
UntouchedKept ==
    stage = "grill" /\ inForm =>
        /\ \A f \in ListFields \ touched :
              NonBlank(FlattenSeq(reflect.lists[f])) = NonBlank(FlattenSeq(proposed.lists[f]))
        /\ "restatement" \notin touched => reflect.restatement = proposed.restatement
        /\ "goal" \notin touched => reflect.goal = proposed.goal
        /\ "proposedTitle" \notin touched =>
              \/ proposed.title = Absent /\ reflect.title = Absent
              \/ Line(reflect.title) = Line(proposed.title)
        /\ reflect.summary = proposed.summary

ShownLines ==
    ToSet(form.restatement) \union ToSet(form.goal) \union UNION {ToSet(form.lists[f]) : f \in ListFields}

(* The griller is asked about the brief the operator saw when confirming:  *)
(* every line of its restatement, goal and lists is in it, and of what was *)
(* removed from them nothing but the restatement comes back.  The title    *)
(* and the notes are left out: they reach no agent.                        *)
ConfirmedAsShown ==
    stage = "grill" /\ inForm =>
        /\ ShownLines \ brief \subseteq {Blank, <<"yes">>, <<"y">>}
        /\ brief \ ShownLines \subseteq {Blank} \union ToSet(proposed.restatement)
===============================================================================
