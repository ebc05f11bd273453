------------------------------ MODULE AnswerProofs ------------------------------
(***************************************************************************)
(* Two properties of the gate forms, for any runs and gates, whatever the  *)
(* operator selects and types while replies are on their way, and in any   *)
(* order of replies: a text that belongs to one run is not recorded as an  *)
(* answer of another, and what was typed for a gate stays in its form.     *)
(***************************************************************************)
EXTENDS DashboardProperties, SequenceTheorems, TLAPS

-------------------------------------------------------------------------------
(* Requests under way and commands are lists, of which only the elements   *)
(* matter, not their number or order.                                      *)

IsList(s) == \E S : s \in Seq(S)

(* A function whose domain is that of a list is a list. *)
LEMMA ListOf ==
    ASSUME NEW s, IsList(s), NEW t, t = [j \in DOMAIN s |-> t[j]]
    PROVE  IsList(t) /\ DOMAIN t = DOMAIN s
<1>1. PICK S : s \in Seq(S)
    BY DEF IsList
<1>2. Len(s) \in Nat /\ DOMAIN s = 1..Len(s)
    BY <1>1
<1> DEFINE T == {t[j] : j \in 1..Len(s)}
<1>3. t \in [1..Len(s) -> T]
    BY <1>2
<1>4. t \in Seq(T)
    BY <1>2, <1>3, SeqDef
<1> QED
    BY <1>2, <1>3, <1>4 DEF IsList

LEMMA ListAppend ==
    ASSUME NEW s, IsList(s), NEW e
    PROVE  /\ IsList(Append(s, e))
           /\ \A j \in DOMAIN Append(s, e) :
                 Append(s, e)[j] = e \/ (j \in DOMAIN s /\ Append(s, e)[j] = s[j])
<1>1. PICK S : s \in Seq(S)
    BY DEF IsList
<1> DEFINE T == S \cup {e}
<1>2. s \in Seq(T) /\ e \in T
    <2>1. s \in [1..Len(s) -> S] /\ Len(s) \in Nat
        BY <1>1
    <2>2. s \in [1..Len(s) -> T]
        BY <2>1
    <2> QED
        BY <2>1, <2>2, SeqDef
<1>3. Append(s, e) \in Seq(T)
    BY <1>2
<1>4. \A j \in 1..Len(Append(s, e)) :
         Append(s, e)[j] = e \/ (j \in 1..Len(s) /\ Append(s, e)[j] = s[j])
    BY <1>2
<1>5. DOMAIN Append(s, e) = 1..Len(Append(s, e)) /\ DOMAIN s = 1..Len(s)
    BY <1>2, <1>3
<1>6. IsList(Append(s, e))
    BY <1>3 DEF IsList
<1> QED
    BY <1>4, <1>5, <1>6

LEMMA ListRemove ==
    ASSUME NEW s, IsList(s), NEW i \in DOMAIN s
    PROVE  /\ IsList(RemoveAt(s, i))
           /\ \A j \in DOMAIN RemoveAt(s, i) : \E k \in DOMAIN s : RemoveAt(s, i)[j] = s[k]
<1>1. PICK S : s \in Seq(S)
    BY DEF IsList
<1>2. Len(s) \in Nat /\ DOMAIN s = 1..Len(s) /\ i \in 1..Len(s)
    BY <1>1
<1> DEFINE T == {s[k] : k \in DOMAIN s}
<1>3. s \in Seq(T)
    <2>1. s \in [1..Len(s) -> T]
        BY <1>1, <1>2
    <2> QED
        BY <1>2, <2>1, SeqDef
<1>4. SubSeq(s, 1, i - 1) \in Seq(T) /\ SubSeq(s, i + 1, Len(s)) \in Seq(T)
    BY <1>2, <1>3, SubSeqProperties
<1>5. RemoveAt(s, i) \in Seq(T)
    BY <1>4, ConcatProperties DEF RemoveAt
<1>6. \A j \in DOMAIN RemoveAt(s, i) : RemoveAt(s, i)[j] \in T
    BY <1>5
<1> QED
    BY <1>5, <1>6 DEF IsList

LEMMA ListEmpty == IsList(<<>>) /\ DOMAIN <<>> = {}
<1>1. <<>> \in Seq({})
    OBVIOUS
<1> QED
    BY <1>1 DEF IsList

-------------------------------------------------------------------------------
(* Texts that belong to run r, or to none. *)

Own(f, r) == \A q \in DOMAIN f : f[q] \in Sources /\ f[q].run \in {r, NoRun}

IsView(s) == s.run \in Runs \cup {NoRun} /\ s.gate \in Nat

LEMMA OwnFilled ==
    ASSUME NEW f, NEW g, NEW r, Own(f, r), Own(g, r)
    PROVE  Own(Filled(f, g), r)
    BY DEF Own, Filled

LEMMA BlankIsSource == Blank \in Sources /\ Blank.run = NoRun
    BY DEF Blank, Sources

LEMMA OwnSources ==
    ASSUME NEW s, IsView(s)
    PROVE  /\ Typed(s) \in Sources /\ Typed(s).run = s.run
           /\ Initial(s) \in Sources /\ Initial(s).run \in {s.run, NoRun}
<1>1. /\ Typed(s) \in Sources /\ Typed(s).run = s.run
      /\ Proposed(s) \in Sources /\ Proposed(s).run = s.run
    BY DEF Typed, Proposed, IsView, Sources
<1> QED
    BY <1>1, BlankIsSource DEF Initial

RequestFields == {"kind", "stage", "run", "view", "list", "command", "live"}

OwnCommand(command, r) == command.kind = "submit-answers" => Own(command.answers, r)

(* A request for a run is answered with the view of that run. *)
GoodCall(c) ==
    /\ DOMAIN c = RequestFields
    /\ c.kind = "view" => c.run \in Runs \cup {NoRun}
    /\ c.kind = "view" /\ c.stage # 1 => c.run \in Runs /\ c.view.run = c.run /\ IsView(c.view)
    /\ c.kind = "post" => OwnCommand(c.command, c.run)

GoodDraft(d, r) ==
    /\ DOMAIN d = {"answers", "parked", "clarifications"}
    /\ Own(d.answers, r) /\ Own(d.clarifications, r)

CallsInv == IsList(calls) /\ \A i \in DOMAIN calls : GoodCall(calls[i])
QueueInv == IsList(queue) /\ \A i \in DOMAIN queue : OwnCommand(queue[i].command, queue[i].run)
FormFields == {"kind", "stage", "project", "list", "branch", "ready", "run"}

GoodForm(f) == DOMAIN f = FormFields /\ f.run \in Runs \cup {NoRun}

FormsInv == IsList(forms) /\ \A i \in DOMAIN forms : GoodForm(forms[i])
FormInv ==
    /\ DOMAIN panel = {"holds", "pressed"}
    /\ panel.holds = "gate" => shown.run \in Runs /\ DOMAIN form = Asked(shown)
    /\ Own(form, shown.run) /\ IsView(shown)
DraftsInv == DOMAIN drafts = Runs /\ \A r \in Runs : GoodDraft(drafts[r], r)
RecordedInv ==
    /\ DOMAIN recorded = Runs
    /\ \A r \in Runs : \A g \in DOMAIN recorded[r] : g \in Gates[r] /\ Own(recorded[r][g], r)

RunTypes(r) == [status : RunStatus, gate : Gates[r], opened : Gates[r]]
RunInv == DOMAIN run = Runs /\ \A r \in Runs : run[r] \in RunTypes(r)

AnswerInv == CallsInv /\ QueueInv /\ FormsInv /\ FormInv /\ DraftsInv /\ RecordedInv /\ RunInv

(* What a step leaves alone stays as good as it was. *)
LEMMA SameKeeps ==
    ASSUME AnswerInv
    PROVE  /\ UNCHANGED calls => CallsInv'
           /\ UNCHANGED queue => QueueInv'
           /\ UNCHANGED forms => FormsInv'
           /\ UNCHANGED <<shown, panel, form>> => FormInv'
           /\ UNCHANGED drafts => DraftsInv'
           /\ UNCHANGED recorded => RecordedInv'
           /\ UNCHANGED run => RunInv'
<1>1. ASSUME UNCHANGED calls
      PROVE  CallsInv'
    BY <1>1 DEF AnswerInv, CallsInv, GoodCall, OwnCommand, Own, IsView
<1>2. ASSUME UNCHANGED queue
      PROVE  QueueInv'
    BY <1>2 DEF AnswerInv, QueueInv, OwnCommand, Own
<1>3. ASSUME UNCHANGED forms
      PROVE  FormsInv'
    BY <1>3 DEF AnswerInv, FormsInv, GoodForm
<1>4. ASSUME UNCHANGED <<shown, panel, form>>
      PROVE  FormInv'
    BY <1>4 DEF AnswerInv, FormInv, Own, IsView, Asked, GateOf
<1>5. ASSUME UNCHANGED drafts
      PROVE  DraftsInv'
    BY <1>5 DEF AnswerInv, DraftsInv, GoodDraft, Own
<1>6. ASSUME UNCHANGED recorded
      PROVE  RecordedInv'
    BY <1>6 DEF AnswerInv, RecordedInv, Own
<1>7. ASSUME UNCHANGED run
      PROVE  RunInv'
    BY <1>7 DEF AnswerInv, RunInv, RunTypes
<1> QED
    BY <1>1, <1>2, <1>3, <1>4, <1>5, <1>6, <1>7

LEMMA InitAnswerInv ==
    ASSUME Init
    PROVE  AnswerInv
<1>1. CallsInv /\ QueueInv /\ FormsInv
    BY ListEmpty DEF Init, RunPageInit, StartInit, CallsInv, QueueInv, FormsInv
<1>2. FormInv
    BY ListEmpty DEF Init, RunPageInit, FormInv, Own, IsView, NoView
<1>3. DraftsInv
    BY ListEmpty DEF Init, RunPageInit, DraftsInv, GoodDraft, EmptyGateDraft, Own
<1>4. RecordedInv
    BY ListEmpty DEF Init, RunPageInit, RecordedInv
<1>5. RunInv
    BY RunPageAssumption DEF Init, RunPageInit, RunInv, RunTypes, RunStatus, Gates
<1> QED
    BY <1>1, <1>2, <1>3, <1>4, <1>5 DEF AnswerInv

-------------------------------------------------------------------------------
(* Requests. *)

LEMMA LoadKeepsCalls ==
    ASSUME CallsInv, NEW c, GoodCall(c), Load(c)
    PROVE  CallsInv'
<1>1. IsList(calls') /\ \A j \in DOMAIN calls' :
         calls'[j] = c \/ (j \in DOMAIN calls /\ calls'[j] = calls[j])
    BY ListAppend DEF CallsInv, Load
<1> QED
    BY <1>1 DEF CallsInv, GoodCall, OwnCommand, Own, IsView

LEMMA SelectRunKeepsCalls ==
    ASSUME CallsInv, NEW r \in Runs \cup {NoRun}, SelectRun(r)
    PROVE  CallsInv'
<1>1. GoodCall(Request("view", r))
    BY DEF GoodCall, Request, RequestFields
<1> QED
    BY <1>1, LoadKeepsCalls DEF SelectRun

LEMMA LoadRunsKeepsCalls ==
    ASSUME CallsInv, LoadRuns
    PROVE  CallsInv'
<1>1. GoodCall([Request("list", NoRun) EXCEPT !.stage = 2])
    BY DEF GoodCall, Request, RequestFields
<1> QED
    BY <1>1, LoadKeepsCalls DEF LoadRuns

LEMMA PostKeepsCalls ==
    ASSUME CallsInv, NEW command, OwnCommand(command, shown.run), Post(command)
    PROVE  CallsInv'
<1> DEFINE c == [Request("post", shown.run) EXCEPT !.command = command, !.live = TRUE]
<1>1. GoodCall(c)
    BY DEF GoodCall, Request, RequestFields
<1> QED
    BY <1>1, LoadKeepsCalls DEF Post

LEMMA RemoveKeepsCalls ==
    ASSUME CallsInv, NEW i \in DOMAIN calls, calls' = RemoveAt(calls, i)
    PROVE  CallsInv'
    BY ListRemove DEF CallsInv, GoodCall, OwnCommand, Own, IsView

(* Requests replaced by others that are as good, one by one. *)
LEMMA ReplaceKeepsCalls ==
    ASSUME CallsInv, calls' = [j \in DOMAIN calls |-> calls'[j]],
           \A j \in DOMAIN calls : GoodCall(calls[j]) => GoodCall(calls'[j])
    PROVE  CallsInv'
<1>1. IsList(calls') /\ DOMAIN calls' = DOMAIN calls
    BY ListOf DEF CallsInv
<1> QED
    BY <1>1 DEF CallsInv, GoodCall, OwnCommand, Own, IsView

-------------------------------------------------------------------------------
(* The server answers. *)

LEMMA ServeRunKeeps ==
    ASSUME AnswerInv, NEW i \in DOMAIN calls, ServeRun(i)
    PROVE  CallsInv'
<1>1. CASE calls[i].run = NoRun
    BY <1>1, RemoveKeepsCalls DEF ServeRun, AnswerInv
<1>2. CASE calls[i].run # NoRun
    <2>1. calls' = [calls EXCEPT ![i].stage = 2, ![i].view = View(calls[i].run)]
        BY <1>2 DEF ServeRun
    <2>2. View(calls[i].run).run = calls[i].run /\ IsView(View(calls[i].run))
        <3>1. calls[i].run \in Runs
            BY <1>2 DEF ServeRun, AnswerInv, CallsInv, GoodCall
        <3>2. run[calls[i].run].gate \in Nat
            BY <3>1, RunPageAssumption DEF AnswerInv, RunInv, RunTypes, Gates
        <3> QED
            BY <3>1, <3>2 DEF View, IsView
    <2>3. \A j \in DOMAIN calls : GoodCall(calls[j]) => GoodCall(calls'[j])
        BY <1>2, <2>1, <2>2 DEF ServeRun, Moves, GoodCall, RequestFields
    <2> QED
        BY <2>1, <2>3, ReplaceKeepsCalls DEF AnswerInv
<1> QED
    BY <1>1, <1>2

LEMMA ServeRunsKeeps ==
    ASSUME AnswerInv, NEW i \in DOMAIN calls, ServeRuns(i)
    PROVE  CallsInv'
<1>1. calls' = [calls EXCEPT ![i].stage = 3, ![i].list = Statuses]
    BY DEF ServeRuns
<1>2. \A j \in DOMAIN calls : GoodCall(calls[j]) => GoodCall(calls'[j])
    BY <1>1 DEF ServeRuns, Moves, GoodCall, RequestFields
<1> QED
    BY <1>1, <1>2, ReplaceKeepsCalls DEF AnswerInv

LEMMA ServeCommandKeeps ==
    ASSUME AnswerInv, NEW i \in DOMAIN calls, ServeCommand(i)
    PROVE  CallsInv' /\ QueueInv'
<1>1. calls' = [calls EXCEPT ![i].stage = 3]
    BY DEF ServeCommand
<1>2. \A j \in DOMAIN calls : GoodCall(calls[j]) => GoodCall(calls'[j])
    BY <1>1 DEF ServeCommand, Moves, GoodCall, RequestFields
<1>3. CallsInv'
    BY <1>1, <1>2, ReplaceKeepsCalls DEF AnswerInv
<1>4. OwnCommand(calls[i].command, calls[i].run)
    BY DEF ServeCommand, AnswerInv, CallsInv, GoodCall
<1> DEFINE e == [run |-> calls[i].run, command |-> calls[i].command]
<1>5. queue' = queue \/ queue' = Append(queue, e)
    BY DEF ServeCommand, EnqueueCommand
<1>6. OwnCommand(e.command, e.run)
    BY <1>4
<1>7. QueueInv'
    <2>1. CASE queue' = queue
        BY <2>1 DEF AnswerInv, QueueInv, OwnCommand, Own
    <2>2. CASE queue' = Append(queue, e)
        <3> HIDE DEF e
        <3>1. IsList(queue') /\ \A j \in DOMAIN queue' :
                 queue'[j] = e \/ (j \in DOMAIN queue /\ queue'[j] = queue[j])
            BY <2>2, ListAppend DEF AnswerInv, QueueInv
        <3>2. \A j \in DOMAIN queue' : OwnCommand(queue'[j].command, queue'[j].run)
            BY <1>6, <3>1 DEF AnswerInv, QueueInv
        <3> QED
            BY <3>1, <3>2 DEF QueueInv, OwnCommand, Own
    <2> QED
        BY <1>5, <2>1, <2>2
<1> QED
    BY <1>3, <1>7

-------------------------------------------------------------------------------
(* The page renders. *)

LEMMA FormOfIsOwn ==
    ASSUME NEW d, NEW s, IsView(s), GoodDraft(d, s.run)
    PROVE  /\ GoodDraft(EnsureGateDraft(d, s), s.run)
           /\ Own(FormOf(EnsureGateDraft(d, s), s), s.run)
           /\ DOMAIN FormOf(EnsureGateDraft(d, s), s) = Asked(s)
<1> DEFINE initial == [q \in Asked(s) |-> Initial(s)]
           e == EnsureGateDraft(d, s)
<1>1. Own(initial, s.run)
    BY OwnSources DEF Own
<1>2. Own(Filled(d.answers, initial), s.run)
    BY <1>1, OwnFilled DEF GoodDraft
<1>3. e = d \/ e = [d EXCEPT !.answers = Filled(d.answers, initial)]
    BY DEF EnsureGateDraft
<1>4. GoodDraft(e, s.run)
    BY <1>2, <1>3 DEF GoodDraft
<1>5. \A q \in Asked(s) : FormOf(e, s)[q] \in Sources /\ FormOf(e, s)[q].run \in {s.run, NoRun}
    <2> SUFFICES ASSUME NEW q \in Asked(s)
                 PROVE  FormOf(e, s)[q] \in Sources /\ FormOf(e, s)[q].run \in {s.run, NoRun}
        OBVIOUS
    <2>1. CASE GateOf(s).kind = "specification"
        <3>1. FormOf(e, s)[q] = Blank
            BY <2>1 DEF FormOf
        <3> QED
            BY <3>1, BlankIsSource
    <2>2. CASE GateOf(s).kind # "specification" /\ q \in Clarified(e, s)
        <3>1. FormOf(e, s)[q] = e.clarifications[q] /\ q \in DOMAIN e.clarifications
            BY <2>2 DEF FormOf, Clarified
        <3> QED
            BY <1>4, <3>1 DEF GoodDraft, Own
    <2>3. CASE GateOf(s).kind # "specification" /\ q \notin Clarified(e, s)
        <3>1. FormOf(e, s)[q] = e.answers[q]
            BY <2>3 DEF FormOf
        <3>2. e.answers = Filled(d.answers, initial)
            BY <2>3 DEF EnsureGateDraft, GoodDraft
        <3>3. q \in DOMAIN e.answers
            BY <3>2 DEF Filled
        <3> QED
            BY <1>4, <3>1, <3>3 DEF GoodDraft, Own
    <2> QED
        BY <2>1, <2>2, <2>3
<1>6. DOMAIN FormOf(e, s) = Asked(s)
    BY DEF FormOf
<1> QED
    BY <1>4, <1>5, <1>6 DEF Own

LEMMA RenderGateKeeps ==
    ASSUME AnswerInv, NEW d, NEW s, s.run \in Runs, IsView(s), GoodDraft(d, s.run),
           RenderGate(d, s), shown' = s
    PROVE  FormInv' /\ DraftsInv'
<1>1. CASE s.gate = 0
    <2>1. FormInv'
        BY <1>1, ListEmpty DEF RenderGate, FormInv, Own, IsView
    <2>2. DraftsInv'
        BY <1>1 DEF RenderGate, AnswerInv, DraftsInv, GoodDraft, Own
    <2> QED
        BY <2>1, <2>2
<1>2. CASE s.gate # 0
    <2> DEFINE e == EnsureGateDraft(d, s)
    <2>1. GoodDraft(e, s.run) /\ Own(FormOf(e, s), s.run) /\ DOMAIN FormOf(e, s) = Asked(s)
        BY FormOfIsOwn
    <2>2. /\ panel' = [holds |-> "gate", pressed |-> {}]
          /\ drafts' = [drafts EXCEPT ![s.run] = e]
          /\ form' = FormOf(e, s)
        BY <1>2 DEF RenderGate
    <2> HIDE DEF e
    <2>3. FormInv'
        BY <2>1, <2>2 DEF FormInv, Own, IsView, Asked, GateOf
    <2>4. \A r \in Runs : GoodDraft(drafts'[r], r)
        BY <2>1, <2>2 DEF AnswerInv, DraftsInv
    <2>5. DOMAIN drafts' = Runs
        BY <2>2 DEF AnswerInv, DraftsInv
    <2> QED
        BY <2>3, <2>4, <2>5 DEF DraftsInv, GoodDraft, Own
<1> QED
    BY <1>1, <1>2

LEMMA DetachedIsGood ==
    ASSUME NEW cs, IsList(cs), \A i \in DOMAIN cs : GoodCall(cs[i])
    PROVE  IsList(Detached(cs)) /\ \A i \in DOMAIN Detached(cs) : GoodCall(Detached(cs)[i])
<1>1. IsList(Detached(cs)) /\ DOMAIN Detached(cs) = DOMAIN cs
    BY ListOf DEF Detached
<1>2. \A i \in DOMAIN cs : GoodCall(Detached(cs)[i])
    BY DEF Detached, GoodCall, RequestFields
<1> QED
    BY <1>1, <1>2

LEMMA RenderRunKeeps ==
    ASSUME AnswerInv, NEW i \in DOMAIN calls, RenderRun(i)
    PROVE  CallsInv' /\ FormInv' /\ DraftsInv'
<1> DEFINE rest == RemoveAt(calls, i)
<1>1. IsList(rest) /\ \A j \in DOMAIN rest : GoodCall(rest[j])
    BY ListRemove DEF AnswerInv, CallsInv
<1>2. calls' = Detached(rest)
    BY DEF RenderRun
<1>3. CallsInv'
    <2> HIDE DEF rest
    <2>1. IsList(calls') /\ \A j \in DOMAIN calls' : GoodCall(calls'[j])
        BY <1>1, <1>2, DetachedIsGood
    <2> QED
        BY <2>1 DEF CallsInv, GoodCall, OwnCommand, Own, IsView
<1>4. calls[i].run \in Runs /\ calls[i].view.run = calls[i].run /\ IsView(calls[i].view)
    BY DEF RenderRun, Moves, AnswerInv, CallsInv, GoodCall
<1>5. GoodDraft(drafts[calls[i].run], calls[i].view.run)
    BY <1>4 DEF AnswerInv, DraftsInv
<1>6. FormInv' /\ DraftsInv'
    BY <1>4, <1>5, RenderGateKeeps DEF RenderRun
<1> QED
    BY <1>3, <1>6

-------------------------------------------------------------------------------
(* The operator. *)

LEMMA TypeTextKeeps ==
    ASSUME AnswerInv, NEW q, TypeText(q)
    PROVE  FormInv' /\ DraftsInv'
<1> DEFINE t == Typed(shown)
<1>1. t \in Sources /\ t.run = shown.run /\ shown.run \in Runs
    BY OwnSources DEF TypeText, Filling, AnswerInv, FormInv
<1>2. form' = [form EXCEPT ![q] = t] /\ UNCHANGED <<shown, panel>>
    BY DEF TypeText
<1>3. \/ drafts' = [drafts EXCEPT ![shown.run].clarifications[q] = t]
      \/ drafts' = [drafts EXCEPT ![shown.run].answers[q] = t]
      \/ drafts' = drafts
    BY DEF TypeText
<1> HIDE DEF t
<1>4. FormInv'
    BY <1>1, <1>2 DEF AnswerInv, FormInv, Own, IsView
<1>5. DOMAIN drafts' = Runs /\ \A r \in Runs : r # shown.run => drafts'[r] = drafts[r]
    BY <1>3 DEF AnswerInv, DraftsInv
<1> DEFINE d == drafts[shown.run]
<1>6. GoodDraft(d, shown.run)
    BY <1>1 DEF AnswerInv, DraftsInv
<1>7. \/ drafts'[shown.run] = [d EXCEPT !.clarifications = [d.clarifications EXCEPT ![q] = t]]
      \/ drafts'[shown.run] = [d EXCEPT !.answers = [d.answers EXCEPT ![q] = t]]
      \/ drafts'[shown.run] = d
    BY <1>1, <1>3 DEF AnswerInv, DraftsInv
<1>8. GoodDraft(drafts'[shown.run], shown.run)
    <2> HIDE DEF d
    <2>1. /\ Own([d.clarifications EXCEPT ![q] = t], shown.run)
          /\ Own([d.answers EXCEPT ![q] = t], shown.run)
        BY <1>1, <1>6 DEF GoodDraft, Own
    <2> QED
        BY <1>6, <1>7, <2>1 DEF GoodDraft
<1>9. DraftsInv'
    BY <1>5, <1>8 DEF AnswerInv, DraftsInv, GoodDraft, Own
<1> QED
    BY <1>4, <1>9

LEMMA ToggledIsGood ==
    ASSUME NEW d, NEW r, GoodDraft(d, r), NEW button, NEW q
    PROVE  GoodDraft(Toggled(d, button, q), r)
<1>1. CASE button = "skip"
    BY <1>1 DEF Toggled, GoodDraft
<1>2. CASE button # "skip"
    <2> DEFINE blank == [x \in {q} |-> Blank]
               c == IF q \in DOMAIN d.clarifications THEN Without(d.clarifications, q)
                    ELSE Filled(d.clarifications, blank)
    <2>1. Own(blank, r)
        BY BlankIsSource DEF Own
    <2>2. Own(Filled(d.clarifications, blank), r)
        BY <2>1, OwnFilled DEF GoodDraft
    <2>3. Own(Without(d.clarifications, q), r)
        BY DEF GoodDraft, Without, Own
    <2>4. Own(c, r)
        BY <2>2, <2>3
    <2>5. Toggled(d, button, q) = [d EXCEPT !.clarifications = c]
        BY <1>2 DEF Toggled, GoodDraft
    <2> HIDE DEF c
    <2> QED
        BY <2>4, <2>5 DEF GoodDraft
<1> QED
    BY <1>1, <1>2

LEMMA ToggleQuestionKeeps ==
    ASSUME AnswerInv, NEW button, NEW q, ToggleQuestion(button, q)
    PROVE  CallsInv' /\ FormInv' /\ DraftsInv'
<1>1. shown.run \in Runs /\ IsView(shown)
    BY DEF ToggleQuestion, Filling, AnswerInv, FormInv
<1>2. GoodDraft(Toggled(drafts[shown.run], button, q), shown.run)
    BY <1>1, ToggledIsGood DEF AnswerInv, DraftsInv
<1>3. FormInv' /\ DraftsInv'
    BY <1>1, <1>2, RenderGateKeeps DEF ToggleQuestion
<1>4. IsList(calls') /\ \A j \in DOMAIN calls' : GoodCall(calls'[j])
    BY DetachedIsGood DEF ToggleQuestion, AnswerInv, CallsInv
<1>5. CallsInv'
    BY <1>4 DEF CallsInv, GoodCall, OwnCommand, Own, IsView
<1> QED
    BY <1>3, <1>5

LEMMA SubmitKeeps ==
    ASSUME AnswerInv, NEW button, SubmitGateAnswers(button)
    PROVE  CallsInv' /\ FormInv'
<1>1. Own(form, shown.run) /\ DOMAIN form = Asked(shown)
    BY DEF SubmitGateAnswers, Filling, AnswerInv, FormInv
<1>2. Own(Answers(button), shown.run)
    <2>1. CASE button = "approve"
        BY <2>1, BlankIsSource DEF Answers, Own
    <2>2. CASE button # "approve" /\ GateOf(shown).kind = "grill"
        <3> DEFINE answered == Asked(shown) \ drafts[shown.run].parked
        <3>1. Answers(button) = [q \in answered |-> form[q]]
            BY <2>2 DEF Answers, Restrict
        <3>2. answered \subseteq DOMAIN form
            BY <1>1
        <3> HIDE DEF answered
        <3> QED
            BY <1>1, <3>1, <3>2 DEF Own
    <2>3. CASE button # "approve" /\ GateOf(shown).kind # "grill"
        BY <1>1, <2>3 DEF Answers
    <2> QED
        BY <2>1, <2>2, <2>3
<1> DEFINE command == [kind |-> "submit-answers", gate |-> shown.gate, answers |-> Answers(button)]
<1>3. OwnCommand(command, shown.run)
    BY <1>2 DEF OwnCommand
<1>4. Post(command)
    BY DEF SubmitGateAnswers
<1> HIDE DEF command
<1>5. CallsInv'
    BY <1>3, <1>4, PostKeepsCalls DEF AnswerInv
<1>6. FormInv'
    BY DEF SubmitGateAnswers, AnswerInv, FormInv, Own, IsView, Asked, GateOf
<1> QED
    BY <1>5, <1>6

LEMMA ClickActionKeeps ==
    ASSUME AnswerInv, NEW kind \in {"retry-turn", "cancel-run"}, ClickAction(kind)
    PROVE  CallsInv'
<1> DEFINE command == [kind |-> kind]
<1>1. OwnCommand(command, shown.run)
    BY DEF OwnCommand
<1>2. Post(command)
    BY DEF ClickAction
<1> HIDE DEF command
<1> QED
    BY <1>1, <1>2, PostKeepsCalls DEF AnswerInv

LEMMA ReceivePostedKeeps ==
    ASSUME AnswerInv, NEW i \in DOMAIN calls, ReceivePosted(i)
    PROVE  CallsInv' /\ FormInv'
<1>1. CallsInv'
    BY RemoveKeepsCalls DEF ReceivePosted, AnswerInv
<1>2. FormInv'
    BY DEF ReceivePosted, AnswerInv, FormInv, Own, IsView
<1> QED
    BY <1>1, <1>2

-------------------------------------------------------------------------------
(* Behind the API. *)

LEMMA TakeCommandKeeps ==
    ASSUME AnswerInv, NEW i \in DOMAIN queue, TakeCommand(i)
    PROVE  QueueInv' /\ RecordedInv'
<1>1. IsList(queue') /\ \A j \in DOMAIN queue' : \E k \in DOMAIN queue : queue'[j] = queue[k]
    BY ListRemove DEF TakeCommand, AnswerInv, QueueInv
<1>2. QueueInv'
    BY <1>1 DEF AnswerInv, QueueInv, OwnCommand, Own
<1> DEFINE at == queue[i].run
           command == queue[i].command
           answer == [g \in {command.gate} |-> command.answers]
<1>3. \/ recorded' = recorded
      \/ /\ command.kind = "submit-answers" /\ run[at].gate = command.gate
         /\ recorded' = [recorded EXCEPT ![at] = Filled(recorded[at], answer)]
    BY DEF TakeCommand, AnswerGate
<1>4. CASE recorded' = recorded
    BY <1>2, <1>4, SameKeeps
<1>5. CASE /\ command.kind = "submit-answers" /\ run[at].gate = command.gate
           /\ recorded' = [recorded EXCEPT ![at] = Filled(recorded[at], answer)]
    <2>1. Own(command.answers, at)
        BY <1>5 DEF AnswerInv, QueueInv, OwnCommand
    <2>2. ASSUME at \in Runs, NEW g \in DOMAIN Filled(recorded[at], answer)
          PROVE  g \in Gates[at] /\ Own(Filled(recorded[at], answer)[g], at)
        <3>1. command.gate \in Gates[at]
            BY <1>5, <2>2 DEF AnswerInv, RunInv, RunTypes
        <3> QED
            BY <2>1, <2>2, <3>1 DEF Filled, AnswerInv, RecordedInv
    <2> HIDE DEF answer, at
    <2>3. DOMAIN recorded' = Runs
        BY <1>5 DEF AnswerInv, RecordedInv
    <2>4. ASSUME NEW x \in Runs, NEW g \in DOMAIN recorded'[x]
          PROVE  g \in Gates[x] /\ Own(recorded'[x][g], x)
        BY <1>5, <2>2, <2>4 DEF AnswerInv, RecordedInv
    <2> QED
        BY <1>2, <2>3, <2>4 DEF RecordedInv, Own
<1> QED
    BY <1>2, <1>3, <1>4, <1>5

-------------------------------------------------------------------------------
(* The form that starts a run. *)

LEMMA ReplaceKeepsForms ==
    ASSUME FormsInv, forms' = [j \in DOMAIN forms |-> forms'[j]],
           \A j \in DOMAIN forms : GoodForm(forms[j]) => GoodForm(forms'[j])
    PROVE  FormsInv'
<1>1. IsList(forms') /\ DOMAIN forms' = DOMAIN forms
    BY ListOf DEF FormsInv
<1> QED
    BY <1>1 DEF FormsInv, GoodForm

LEMMA AppendKeepsForms ==
    ASSUME FormsInv, NEW f, GoodForm(f), forms' = Append(forms, f)
    PROVE  FormsInv'
<1>1. IsList(forms') /\ \A j \in DOMAIN forms' :
         forms'[j] = f \/ (j \in DOMAIN forms /\ forms'[j] = forms[j])
    BY ListAppend DEF FormsInv
<1> QED
    BY <1>1 DEF FormsInv, GoodForm

LEMMA RemoveKeepsForms ==
    ASSUME FormsInv, NEW i \in DOMAIN forms, forms' = RemoveAt(forms, i)
    PROVE  FormsInv'
    BY ListRemove DEF FormsInv, GoodForm

(* What the proofs are about and the start of a run leaves alone. *)
AnswersSame == UNCHANGED <<queue, shown, panel, form, drafts, recorded>>

LEMMA AnswersSameKeep ==
    ASSUME AnswerInv, AnswersSame
    PROVE  QueueInv' /\ FormInv' /\ DraftsInv' /\ RecordedInv'
    BY SameKeeps DEF AnswersSame

(* Status and gates of the runs. *)
LEMMA SetRunKeeps ==
    ASSUME RunInv, NEW r, NEW status \in RunStatus, NEW gate,
           r \in Runs => gate \in Gates[r], SetRun(r, status, gate)
    PROVE  RunInv'
    BY DEF RunInv, RunTypes, SetRun

LEMMA NextKeepsRunInv ==
    ASSUME RunInv, [Next]_vars
    PROVE  RunInv'
<1>1. ASSUME NEW r \in Runs, Advance(r)
      PROVE  RunInv'
    <2>1. run[r] \in RunTypes(r) /\ DOMAIN run = Runs
        BY DEF RunInv
    <2>2. \/ /\ run[r].opened < Len(Script[r])
             /\ run' = [run EXCEPT ![r] = [status |-> "awaiting_user", gate |-> run[r].opened + 1,
                                           opened |-> run[r].opened + 1]]
          \/ run' = [run EXCEPT ![r].status = "blocked"]
          \/ run' = [run EXCEPT ![r].status = "completed"]
        BY <1>1, <2>1 DEF Advance
    <2>3. run'[r] \in RunTypes(r)
        BY <2>1, <2>2, RunPageAssumption DEF RunTypes, RunStatus, Gates
    <2>4. DOMAIN run' = Runs /\ \A x \in Runs : x # r => run'[x] = run[x]
        BY <2>1, <2>2
    <2> QED
        BY <2>3, <2>4 DEF RunInv, RunTypes
<1>2. ASSUME NEW i \in DOMAIN queue, TakeCommand(i)
      PROVE  RunInv'
    <2> DEFINE r == queue[i].run
    <2>1. \/ run' = run
          \/ SetRun(r, "working", 0)
          \/ SetRun(r, "queued", run[r].gate)
          \/ SetRun(r, "cancelled", run[r].gate)
        BY <1>2 DEF TakeCommand, AnswerGate
    <2>2. r \in Runs => run[r].gate \in Gates[r] /\ 0 \in Gates[r]
        BY RunPageAssumption DEF RunInv, RunTypes, Gates
    <2>3. {"working", "queued", "cancelled"} \subseteq RunStatus
        BY DEF RunStatus
    <2> HIDE DEF r
    <2>4. CASE run' = run
        BY <2>4 DEF RunInv, RunTypes
    <2> QED
        BY <2>1, <2>2, <2>3, <2>4, SetRunKeeps
<1>3. ASSUME NEW i, ServeStart(i)
      PROVE  RunInv'
    <2>1. run' = run \/ \E r \in Runs : SetRun(r, "queued", 0)
        BY <1>3 DEF ServeStart, CreateRun
    <2>2. ASSUME NEW r \in Runs, SetRun(r, "queued", 0)
          PROVE  RunInv'
        <3>1. 0 \in Gates[r] /\ "queued" \in RunStatus
            BY RunPageAssumption DEF Gates, RunStatus
        <3> QED
            BY <2>2, <3>1, SetRunKeeps
    <2>3. CASE run' = run
        BY <2>3 DEF RunInv, RunTypes
    <2> QED
        BY <2>1, <2>2, <2>3
<1>4. CASE run' = run
    BY <1>4 DEF RunInv, RunTypes
<1>5. RunPageNext =>
         \/ run' = run
         \/ (\E r \in Runs : Advance(r)) \/ (\E i \in DOMAIN queue : TakeCommand(i))
    BY DEF RunPageNext, ChooseRun, ServeRun, ServeRuns, ServeCommand, RenderRun, RenderRuns,
           ReceivePosted, TypeText, ToggleQuestion, SubmitGateAnswers, ClickAction, serverRunVars
<1>6. StartFormNext => run' = run \/ \E i \in DOMAIN forms : ServeStart(i)
    BY DEF StartFormNext, LoadProjectBranches, SubmitStart, ListLocalBranches, ReceiveBranches,
           CheckStart, ReceiveStart, runPageVars, serverRunVars
<1>7. Deliver \/ Interrupted \/ UNCHANGED runPageVars => run' = run
    BY DEF Deliver, Interrupted, RunCallsFail, serverRunVars, runPageVars
<1> QED
    BY <1>1, <1>2, <1>3, <1>4, <1>5, <1>6, <1>7 DEF Next, vars

LEMMA StartFormKeeps ==
    ASSUME AnswerInv, RunInv', StartFormNext
    PROVE  AnswerInv'
<1>1. ASSUME NEW p \in Projects, LoadProjectBranches(p)
      PROVE  CallsInv' /\ FormsInv' /\ AnswersSame
    <2> DEFINE f == FormRequest("branches", p)
    <2>1. GoodForm(f)
        BY DEF GoodForm, FormRequest, FormFields
    <2>2. forms' = Append(forms, f)
        BY <1>1 DEF LoadProjectBranches
    <2> HIDE DEF f
    <2>3. FormsInv'
        BY <2>1, <2>2, AppendKeepsForms DEF AnswerInv
    <2>4. calls' = calls /\ AnswersSame
        BY <1>1 DEF LoadProjectBranches, runPageVars, AnswersSame
    <2> QED
        BY <2>3, <2>4 DEF AnswerInv, CallsInv, GoodCall, OwnCommand, Own, IsView
<1>2. ASSUME SubmitStart
      PROVE  CallsInv' /\ FormsInv' /\ AnswersSame
    <2> DEFINE f == [FormRequest("start", start.project) EXCEPT !.branch = start.branch]
    <2>1. GoodForm(f)
        BY DEF GoodForm, FormRequest, FormFields
    <2>2. forms' = Append(forms, f)
        BY <1>2 DEF SubmitStart
    <2> HIDE DEF f
    <2>3. FormsInv'
        BY <2>1, <2>2, AppendKeepsForms DEF AnswerInv
    <2>4. calls' = calls /\ AnswersSame
        BY <1>2 DEF SubmitStart, runPageVars, AnswersSame
    <2> QED
        BY <2>3, <2>4 DEF AnswerInv, CallsInv, GoodCall, OwnCommand, Own, IsView
<1>3. ASSUME NEW i \in DOMAIN forms, ListLocalBranches(i) \/ CheckStart(i) \/ ServeStart(i)
      PROVE  CallsInv' /\ FormsInv' /\ AnswersSame
    <2>1. \/ forms' = [forms EXCEPT ![i].stage = 3, ![i].list = Branches[forms[i].project]]
          \/ forms' = [forms EXCEPT ![i].stage = 2, ![i].ready = Ready]
          \/ \E r \in Runs : forms' = [forms EXCEPT ![i].stage = 3, ![i].run = r]
          \/ forms' = [forms EXCEPT ![i].stage = 3]
        BY <1>3 DEF ListLocalBranches, CheckStart, ServeStart, CreateRun
    <2>2. forms' = [j \in DOMAIN forms |-> forms'[j]]
        BY <2>1
    <2>3. ASSUME NEW j \in DOMAIN forms, GoodForm(forms[j])
          PROVE  GoodForm(forms'[j])
        <3>1. CASE forms' = [forms EXCEPT ![i].stage = 3, ![i].list = Branches[forms[i].project]]
            BY <2>3, <3>1 DEF GoodForm, FormFields
        <3>2. CASE forms' = [forms EXCEPT ![i].stage = 2, ![i].ready = Ready]
            BY <2>3, <3>2 DEF GoodForm, FormFields
        <3>3. CASE \E r \in Runs : forms' = [forms EXCEPT ![i].stage = 3, ![i].run = r]
            BY <2>3, <3>3 DEF GoodForm, FormFields
        <3>4. CASE forms' = [forms EXCEPT ![i].stage = 3]
            BY <2>3, <3>4 DEF GoodForm, FormFields
        <3> QED
            BY <2>1, <3>1, <3>2, <3>3, <3>4
    <2>4. FormsInv'
        BY <2>2, <2>3, ReplaceKeepsForms DEF AnswerInv
    <2>5. calls' = calls /\ AnswersSame
        BY <1>3 DEF ListLocalBranches, CheckStart, ServeStart, CreateRun, runPageVars, viewVars,
                    AnswersSame
    <2> QED
        BY <2>4, <2>5 DEF AnswerInv, CallsInv, GoodCall, OwnCommand, Own, IsView
<1>4. ASSUME NEW i \in DOMAIN forms, ReceiveBranches(i) \/ ReceiveStart(i)
      PROVE  CallsInv' /\ FormsInv' /\ AnswersSame
    <2>1. FormsInv'
        BY <1>4, RemoveKeepsForms DEF ReceiveBranches, ReceiveStart, AnswerInv
    <2>2. AnswersSame
        BY <1>4 DEF ReceiveBranches, ReceiveStart, runPageVars, serverRunVars, viewVars, AnswersSame
    <2>3. ASSUME calls' = calls
          PROVE  CallsInv'
        BY <2>3 DEF AnswerInv, CallsInv, GoodCall, OwnCommand, Own, IsView
    <2>4. ASSUME SelectRun(forms[i].run)
          PROVE  CallsInv'
        BY <2>4, SelectRunKeepsCalls DEF AnswerInv, FormsInv, GoodForm
    <2>5. calls' = calls \/ SelectRun(forms[i].run)
        BY <1>4 DEF ReceiveBranches, ReceiveStart, runPageVars
    <2> QED
        BY <2>1, <2>2, <2>3, <2>4, <2>5
<1> QED
    BY <1>1, <1>2, <1>3, <1>4, AnswersSameKeep DEF StartFormNext, AnswerInv

-------------------------------------------------------------------------------
(* All steps. *)

LEMMA RunPageKeeps ==
    ASSUME AnswerInv, RunInv', RunPageNext, UNCHANGED startVars
    PROVE  AnswerInv'
<1> UNCHANGED forms /\ FormsInv'
    BY SameKeeps DEF startVars
<1>1. ASSUME NEW r \in Runs, ChooseRun(r)
      PROVE  AnswerInv'
    <2>1. CallsInv'
        BY <1>1, SelectRunKeepsCalls DEF ChooseRun, AnswerInv
    <2>2. AnswersSame
        BY <1>1 DEF ChooseRun, serverRunVars, viewVars, AnswersSame
    <2> QED
        BY <2>1, <2>2, AnswersSameKeep DEF AnswerInv
<1>2. ASSUME NEW r \in Runs, Advance(r)
      PROVE  AnswerInv'
    <2>1. UNCHANGED calls /\ AnswersSame
        BY <1>2 DEF Advance, viewVars, AnswersSame
    <2> QED
        BY <2>1, SameKeeps, AnswersSameKeep DEF AnswerInv
<1>3. ASSUME NEW i \in DOMAIN calls, ServeRun(i) \/ ServeRuns(i)
      PROVE  AnswerInv'
    <2>1. CallsInv'
        BY <1>3, ServeRunKeeps, ServeRunsKeeps
    <2>2. AnswersSame
        BY <1>3 DEF ServeRun, ServeRuns, serverRunVars, viewVars, AnswersSame
    <2> QED
        BY <2>1, <2>2, AnswersSameKeep DEF AnswerInv
<1>4. ASSUME NEW i \in DOMAIN calls, ServeCommand(i)
      PROVE  AnswerInv'
    <2>1. CallsInv' /\ QueueInv'
        BY <1>4, ServeCommandKeeps
    <2>2. UNCHANGED <<shown, panel, form, drafts, recorded>>
        BY <1>4 DEF ServeCommand, viewVars
    <2> QED
        BY <2>1, <2>2, SameKeeps DEF AnswerInv
<1>5. ASSUME NEW i \in DOMAIN calls, RenderRun(i)
      PROVE  AnswerInv'
    <2>1. CallsInv' /\ FormInv' /\ DraftsInv'
        BY <1>5, RenderRunKeeps
    <2>2. UNCHANGED <<queue, recorded>>
        BY <1>5 DEF RenderRun, serverRunVars
    <2> QED
        BY <2>1, <2>2, SameKeeps DEF AnswerInv
<1>6. ASSUME NEW i \in DOMAIN calls, RenderRuns(i)
      PROVE  AnswerInv'
    <2>1. CallsInv'
        BY <1>6, RemoveKeepsCalls DEF RenderRuns, AnswerInv
    <2>2. AnswersSame
        BY <1>6 DEF RenderRuns, serverRunVars, AnswersSame
    <2> QED
        BY <2>1, <2>2, AnswersSameKeep DEF AnswerInv
<1>7. ASSUME NEW i \in DOMAIN calls, ReceivePosted(i)
      PROVE  AnswerInv'
    <2>1. CallsInv' /\ FormInv'
        BY <1>7, ReceivePostedKeeps
    <2>2. UNCHANGED <<queue, drafts, recorded>>
        BY <1>7 DEF ReceivePosted, serverRunVars
    <2> QED
        BY <2>1, <2>2, SameKeeps DEF AnswerInv
<1>8. ASSUME NEW q, TypeText(q)
      PROVE  AnswerInv'
    <2>1. FormInv' /\ DraftsInv'
        BY <1>8, TypeTextKeeps
    <2>2. UNCHANGED <<calls, queue, recorded>>
        BY <1>8 DEF TypeText, serverRunVars
    <2> QED
        BY <2>1, <2>2, SameKeeps DEF AnswerInv
<1>9. ASSUME NEW q, NEW button, ToggleQuestion(button, q)
      PROVE  AnswerInv'
    <2>1. CallsInv' /\ FormInv' /\ DraftsInv'
        BY <1>9, ToggleQuestionKeeps
    <2>2. UNCHANGED <<queue, recorded>>
        BY <1>9 DEF ToggleQuestion, serverRunVars
    <2> QED
        BY <2>1, <2>2, SameKeeps DEF AnswerInv
<1>10. ASSUME NEW button, SubmitGateAnswers(button)
       PROVE  AnswerInv'
    <2>1. CallsInv' /\ FormInv'
        BY <1>10, SubmitKeeps
    <2>2. UNCHANGED <<queue, drafts, recorded>>
        BY <1>10 DEF SubmitGateAnswers, serverRunVars
    <2> QED
        BY <2>1, <2>2, SameKeeps DEF AnswerInv
<1>11. ASSUME NEW kind \in {"retry-turn", "cancel-run"}, ClickAction(kind)
       PROVE  AnswerInv'
    <2>1. CallsInv'
        BY <1>11, ClickActionKeeps
    <2>2. AnswersSame
        BY <1>11 DEF ClickAction, serverRunVars, AnswersSame
    <2> QED
        BY <2>1, <2>2, AnswersSameKeep DEF AnswerInv
<1>12. ASSUME NEW i \in DOMAIN queue, TakeCommand(i)
       PROVE  AnswerInv'
    <2>1. QueueInv' /\ RecordedInv'
        BY <1>12, TakeCommandKeeps
    <2>2. UNCHANGED <<calls, shown, panel, form, drafts>>
        BY <1>12 DEF TakeCommand, viewVars
    <2> QED
        BY <2>1, <2>2, SameKeeps DEF AnswerInv
<1> QED
    BY <1>1, <1>2, <1>3, <1>4, <1>5, <1>6, <1>7, <1>8, <1>9, <1>10, <1>11, <1>12
    DEF RunPageNext

LEMMA DeliverKeeps ==
    ASSUME AnswerInv, RunInv', Deliver
    PROVE  AnswerInv'
<1>1. PICK r \in Runs \cup {NoRun} : HandleRunEvent(r)
    BY DEF Deliver
<1>2. CallsInv'
    BY <1>1, SelectRunKeepsCalls, LoadRunsKeepsCalls DEF HandleRunEvent, AnswerInv
<1>3. UNCHANGED forms /\ AnswersSame
    BY DEF Deliver, serverRunVars, viewVars, startVars, AnswersSame
<1> QED
    BY <1>2, <1>3, SameKeeps, AnswersSameKeep DEF AnswerInv

LEMMA InterruptedKeeps ==
    ASSUME AnswerInv, RunInv', Interrupted
    PROVE  AnswerInv'
<1>1. CallsInv' /\ FormsInv'
    BY ListEmpty DEF Interrupted, RunCallsFail, StartCallsFail, CallsInv, FormsInv
<1>2. FormInv'
    BY DEF Interrupted, RunCallsFail, AnswerInv, FormInv, Own, IsView, Asked, GateOf
<1>3. UNCHANGED <<queue, drafts, recorded>>
    BY DEF Interrupted, RunCallsFail, serverRunVars
<1> QED
    BY <1>1, <1>2, <1>3, SameKeeps DEF AnswerInv

LEMMA OthersKeep ==
    ASSUME AnswerInv, UNCHANGED <<runPageVars, startVars>>
    PROVE  AnswerInv'
    BY SameKeeps DEF runPageVars, startVars, AnswerInv

LEMMA NextKeepsAnswerInv ==
    ASSUME AnswerInv, [Next]_vars
    PROVE  AnswerInv'
<1> RunInv'
    BY NextKeepsRunInv DEF AnswerInv
<1>1. CASE Next
    BY <1>1, DeliverKeeps, InterruptedKeeps, RunPageKeeps, StartFormKeeps, OthersKeep DEF Next
<1>2. CASE UNCHANGED vars
    BY <1>2, OthersKeep DEF vars
<1> QED
    BY <1>1, <1>2

(* Whatever the operator selects and types while replies are on their way, *)
(* in whatever order these come and wherever the connection is lost, no    *)
(* text typed for one run, or proposed there, is recorded for another.     *)
THEOREM AnswersStayWithTheirRun == Spec => []AnswerOfItsRun
<1>1. Init => AnswerInv
    BY InitAnswerInv
<1>2. AnswerInv /\ [Next]_vars => AnswerInv'
    BY NextKeepsAnswerInv
<1>3. AnswerInv => AnswerOfItsRun
    BY DEF AnswerInv, RecordedInv, Own, AnswerOfItsRun
<1> QED
    BY <1>1, <1>2, <1>3, PTL DEF Spec
-------------------------------------------------------------------------------
(* What was typed stays in the form.                                       *)

(* A draft has an answer for every question of a form that reads it, the   *)
(* form shows that answer where no clarification hides it, and an answer   *)
(* that was typed is in the draft as typed, whichever gate is shown now.   *)
DraftFills ==
    panel.holds = "gate" /\ GateOf(shown).kind # "specification" =>
        Asked(shown) \subseteq DOMAIN drafts[shown.run].answers

FormShowsDraft ==
    panel.holds = "gate" /\ Synced(shown) =>
        \A q \in Asked(shown) \ Clarified(drafts[shown.run], shown) :
            form[q] = drafts[shown.run].answers[q]

KeptTyped(d, q) == q \in DOMAIN d.answers /\ d.answers[q].typed = TRUE

DraftKeepsTyped ==
    \A t \in typed : Synced([run |-> t[1], gate |-> t[2]]) =>
        t[1] \in Runs /\ KeptTyped(drafts[t[1]], t[3])

TypedInv == DraftFills /\ FormShowsDraft /\ DraftKeepsTyped

TypedSame ==
    /\ UNCHANGED <<shown, form, drafts, typed>>
    /\ panel'.holds = "gate" => panel.holds = "gate"

LEMMA TypedSameKeeps ==
    ASSUME TypedInv, TypedSame
    PROVE  TypedInv'
<1>1. DraftFills'
    BY DEF TypedInv, TypedSame, DraftFills, Asked, GateOf
<1>2. FormShowsDraft'
    BY DEF TypedInv, TypedSame, FormShowsDraft, Clarified, Synced, Asked, GateOf
<1>3. DraftKeepsTyped'
    BY DEF TypedInv, TypedSame, DraftKeepsTyped, KeptTyped, Synced, GateOf
<1> QED
    BY <1>1, <1>2, <1>3 DEF TypedInv

(* Rendering fills in what the draft lacks and replaces nothing in it.     *)
LEMMA EnsureKeepsAnswers ==
    ASSUME NEW d, NEW s, GoodDraft(d, s.run)
    PROVE  LET e == EnsureGateDraft(d, s)
           IN  /\ \A q \in DOMAIN d.answers : q \in DOMAIN e.answers /\ e.answers[q] = d.answers[q]
               /\ GateOf(s).kind # "specification" => Asked(s) \subseteq DOMAIN e.answers
               /\ e.clarifications = d.clarifications
<1> DEFINE initial == [q \in Asked(s) |-> Initial(s)]
           e == EnsureGateDraft(d, s)
<1>1. CASE GateOf(s).kind = "specification"
    BY <1>1 DEF EnsureGateDraft
<1>2. CASE GateOf(s).kind # "specification"
    <2>1. e = [d EXCEPT !.answers = Filled(d.answers, initial)]
        BY <1>2 DEF EnsureGateDraft
    <2>2. e.answers = Filled(d.answers, initial) /\ e.clarifications = d.clarifications
        BY <2>1 DEF GoodDraft
    <2> HIDE DEF e
    <2>3. /\ DOMAIN e.answers = DOMAIN d.answers \cup Asked(s)
          /\ \A q \in DOMAIN d.answers : e.answers[q] = d.answers[q]
        BY <2>2 DEF Filled
    <2> QED
        BY <2>2, <2>3 DEF e
<1> QED
    BY <1>1, <1>2

LEMMA RenderGateKeepsTyped ==
    ASSUME AnswerInv, TypedInv, NEW d, NEW s, s.run \in Runs, GoodDraft(d, s.run),
           d.answers = drafts[s.run].answers,
           RenderGate(d, s), shown' = s, typed' = typed
    PROVE  TypedInv'
<1>1. CASE s.gate = 0
    <2>1. panel'.holds = "nothing" /\ drafts' = drafts
        BY <1>1 DEF RenderGate
    <2> QED
        BY <2>1 DEF TypedInv, DraftFills, FormShowsDraft, DraftKeepsTyped, KeptTyped, Synced, GateOf
<1>2. CASE s.gate # 0
    <2> DEFINE e == EnsureGateDraft(d, s)
    <2>1. /\ \A q \in DOMAIN d.answers : q \in DOMAIN e.answers /\ e.answers[q] = d.answers[q]
          /\ GateOf(s).kind # "specification" => Asked(s) \subseteq DOMAIN e.answers
        BY EnsureKeepsAnswers
    <2>2. drafts' = [drafts EXCEPT ![s.run] = e] /\ form' = FormOf(e, s)
        BY <1>2 DEF RenderGate
    <2>3. \A q \in Asked(s) : Synced(s) /\ q \notin Clarified(e, s) =>
             FormOf(e, s)[q] = e.answers[q]
        BY DEF FormOf, Synced
    <2> HIDE DEF e
    <2>4. drafts'[s.run] = e /\ \A r \in Runs : r # s.run => drafts'[r] = drafts[r]
        BY <2>2 DEF AnswerInv, DraftsInv
    <2>5. DraftFills'
        BY <2>1, <2>4 DEF DraftFills, Asked, GateOf
    <2>6. FormShowsDraft'
        BY <2>2, <2>3, <2>4 DEF FormShowsDraft, Clarified, Synced, Asked, GateOf
    <2>7. DraftKeepsTyped'
        BY <2>1, <2>4 DEF TypedInv, DraftKeepsTyped, KeptTyped, Synced, GateOf
    <2> QED
        BY <2>5, <2>6, <2>7 DEF TypedInv
<1> QED
    BY <1>1, <1>2

LEMMA ToggledKeepsAnswers ==
    ASSUME NEW d, NEW r, GoodDraft(d, r), NEW button, NEW q
    PROVE  Toggled(d, button, q).answers = d.answers
    BY DEF Toggled, GoodDraft

LEMMA TypeTextKeepsTyped ==
    ASSUME AnswerInv, TypedInv, NEW q, TypeText(q)
    PROVE  TypedInv'
<1> DEFINE t == Typed(shown)
           d == drafts[shown.run]
           clarifying == q \in Clarified(d, shown)
<1>1. /\ panel.holds = "gate" /\ shown.run \in Runs /\ q \in Asked(shown)
      /\ DOMAIN form = Asked(shown) /\ GoodDraft(d, shown.run) /\ DOMAIN drafts = Runs
    BY DEF TypeText, Filling, AnswerInv, FormInv, DraftsInv
<1>2. form' = [form EXCEPT ![q] = t] /\ UNCHANGED <<shown, panel>> /\ t.typed = TRUE
    BY DEF TypeText, Typed
<1>3. CASE clarifying
    <2> DEFINE c == [d.clarifications EXCEPT ![q] = t]
    <2>1. drafts' = [drafts EXCEPT ![shown.run] = [d EXCEPT !.clarifications = c]] /\ typed' = typed
        BY <1>3 DEF TypeText
    <2>2. DOMAIN c = DOMAIN d.clarifications
        OBVIOUS
    <2> HIDE DEF c
    <2>3. /\ drafts'[shown.run].answers = d.answers /\ drafts'[shown.run].clarifications = c
          /\ \A r \in Runs : drafts'[r].answers = drafts[r].answers
        BY <1>1, <2>1 DEF GoodDraft
    <2>4. DraftFills'
        BY <1>2, <2>3 DEF TypedInv, DraftFills, Asked, GateOf
    <2>5. FormShowsDraft'
        BY <1>1, <1>2, <1>3, <2>2, <2>3 DEF TypedInv, FormShowsDraft, Clarified, Synced, Asked, GateOf
    <2>6. DraftKeepsTyped'
        BY <2>1, <2>3 DEF TypedInv, DraftKeepsTyped, KeptTyped, Synced, GateOf
    <2> QED
        BY <2>4, <2>5, <2>6 DEF TypedInv
<1>4. CASE ~clarifying /\ Synced(shown)
    <2> DEFINE a == [d.answers EXCEPT ![q] = t]
    <2>1. /\ drafts' = [drafts EXCEPT ![shown.run] = [d EXCEPT !.answers = a]]
          /\ typed' = typed \cup {<<shown.run, shown.gate, q>>}
        BY <1>4 DEF TypeText
    <2>2. q \in DOMAIN d.answers /\ Asked(shown) \subseteq DOMAIN d.answers
        BY <1>1, <1>4 DEF TypedInv, DraftFills, Synced
    <2>3. DOMAIN a = DOMAIN d.answers /\ a[q] = t /\ \A x \in DOMAIN a : x # q => a[x] = d.answers[x]
        BY <2>2
    <2> HIDE DEF a
    <2>4. /\ drafts'[shown.run].answers = a
          /\ drafts'[shown.run].clarifications = d.clarifications
          /\ \A r \in Runs : r # shown.run => drafts'[r] = drafts[r]
        BY <1>1, <2>1 DEF GoodDraft
    <2>5. DraftFills'
        BY <1>2, <2>2, <2>3, <2>4 DEF DraftFills, Asked, GateOf
    <2>6. FormShowsDraft'
        BY <1>1, <1>2, <2>2, <2>3, <2>4 DEF TypedInv, FormShowsDraft, Clarified, Synced, Asked, GateOf
    <2>7. \A x : KeptTyped(d, x) => KeptTyped(drafts'[shown.run], x)
        BY <1>2, <2>3, <2>4 DEF KeptTyped
    <2>8. KeptTyped(drafts'[shown.run], q)
        BY <1>2, <2>2, <2>3, <2>4 DEF KeptTyped
    <2>9. ASSUME NEW u \in typed', Synced([run |-> u[1], gate |-> u[2]])
          PROVE  u[1] \in Runs /\ KeptTyped(drafts'[u[1]], u[3])
        <3>1. CASE u \in typed
            BY <2>4, <2>7, <2>9, <3>1 DEF TypedInv, DraftKeepsTyped
        <3>2. CASE u = <<shown.run, shown.gate, q>>
            BY <1>1, <2>8, <3>2
        <3> QED
            BY <2>1, <3>1, <3>2
    <2>10. DraftKeepsTyped'
        BY <2>9 DEF DraftKeepsTyped, KeptTyped, Synced, GateOf
    <2> QED
        BY <2>5, <2>6, <2>10 DEF TypedInv
<1>5. CASE ~clarifying /\ ~Synced(shown)
    <2>1. drafts' = drafts /\ typed' = typed \cup {<<shown.run, shown.gate, q>>}
        BY <1>5 DEF TypeText
    <2>2. DraftFills'
        BY <1>2, <2>1 DEF TypedInv, DraftFills, Asked, GateOf
    <2>3. FormShowsDraft'
        BY <1>2, <1>5 DEF FormShowsDraft, Synced, GateOf
    <2>4. ASSUME NEW u \in typed', Synced([run |-> u[1], gate |-> u[2]])
          PROVE  u[1] \in Runs /\ KeptTyped(drafts[u[1]], u[3])
        <3>1. CASE u \in typed
            BY <2>4, <3>1 DEF TypedInv, DraftKeepsTyped
        <3>2. CASE u = <<shown.run, shown.gate, q>>
            BY <1>5, <2>4, <3>2 DEF Synced, GateOf
        <3> QED
            BY <2>1, <3>1, <3>2
    <2>5. DraftKeepsTyped'
        BY <2>1, <2>4 DEF DraftKeepsTyped, KeptTyped, Synced, GateOf
    <2> QED
        BY <2>2, <2>3, <2>5 DEF TypedInv
<1> QED
    BY <1>3, <1>4, <1>5

LEMMA InitTypedInv ==
    ASSUME Init
    PROVE  TypedInv
    BY DEF Init, RunPageInit, TypedInv, DraftFills, FormShowsDraft, DraftKeepsTyped

LEMMA RunPageKeepsTyped ==
    ASSUME AnswerInv, TypedInv, RunPageNext
    PROVE  TypedInv'
<1>1. ASSUME NEW r \in Runs, ChooseRun(r) \/ Advance(r)
      PROVE  TypedInv'
    BY <1>1, TypedSameKeeps DEF ChooseRun, Advance, viewVars, TypedSame
<1>2. ASSUME NEW i \in DOMAIN calls,
             ServeRun(i) \/ ServeRuns(i) \/ ServeCommand(i) \/ RenderRuns(i) \/ ReceivePosted(i)
      PROVE  TypedInv'
    BY <1>2, TypedSameKeeps
    DEF ServeRun, ServeRuns, ServeCommand, RenderRuns, ReceivePosted, viewVars, TypedSame
<1>3. ASSUME NEW i \in DOMAIN calls, RenderRun(i)
      PROVE  TypedInv'
    <2>1. calls[i].run \in Runs /\ calls[i].view.run = calls[i].run
        BY <1>3 DEF RenderRun, Moves, AnswerInv, CallsInv, GoodCall
    <2>2. GoodDraft(drafts[calls[i].run], calls[i].view.run)
        BY <2>1 DEF AnswerInv, DraftsInv
    <2> QED
        BY <1>3, <2>1, <2>2, RenderGateKeepsTyped DEF RenderRun
<1>4. ASSUME NEW q, TypeText(q)
      PROVE  TypedInv'
    BY <1>4, TypeTextKeepsTyped
<1>5. ASSUME NEW q, NEW button, ToggleQuestion(button, q)
      PROVE  TypedInv'
    <2> DEFINE d == Toggled(drafts[shown.run], button, q)
    <2>1. shown.run \in Runs
        BY <1>5 DEF ToggleQuestion, Filling, AnswerInv, FormInv
    <2>2. GoodDraft(drafts[shown.run], shown.run)
        BY <2>1 DEF AnswerInv, DraftsInv
    <2>3. GoodDraft(d, shown.run) /\ d.answers = drafts[shown.run].answers
        BY <2>2, ToggledIsGood, ToggledKeepsAnswers
    <2>4. RenderGate(d, shown) /\ shown' = shown /\ typed' = typed
        BY <1>5 DEF ToggleQuestion
    <2> HIDE DEF d
    <2> QED
        BY <2>1, <2>3, <2>4, RenderGateKeepsTyped
<1>6. ASSUME NEW button, SubmitGateAnswers(button)
      PROVE  TypedInv'
    BY <1>6, TypedSameKeeps DEF SubmitGateAnswers, AnswerInv, FormInv, TypedSame
<1>7. ASSUME NEW kind \in {"retry-turn", "cancel-run"}, ClickAction(kind)
      PROVE  TypedInv'
    BY <1>7, TypedSameKeeps DEF ClickAction, TypedSame
<1>8. ASSUME NEW i \in DOMAIN queue, TakeCommand(i)
      PROVE  TypedInv'
    BY <1>8, TypedSameKeeps DEF TakeCommand, viewVars, TypedSame
<1> QED
    BY <1>1, <1>2, <1>3, <1>4, <1>5, <1>6, <1>7, <1>8 DEF RunPageNext

LEMMA NextKeepsTypedInv ==
    ASSUME AnswerInv, TypedInv, [Next]_vars
    PROVE  TypedInv'
<1>1. CASE RunPageNext
    BY <1>1, RunPageKeepsTyped
<1>2. CASE Deliver
    BY <1>2, TypedSameKeeps DEF Deliver, viewVars, TypedSame
<1>3. CASE Interrupted
    <2>1. panel' = [panel EXCEPT !.pressed = {}] \/ panel' = panel
        BY <1>3 DEF Interrupted, RunCallsFail
    <2>2. panel'.holds = panel.holds
        BY <2>1 DEF AnswerInv, FormInv
    <2> QED
        BY <1>3, <2>2, TypedSameKeeps DEF Interrupted, RunCallsFail, TypedSame
<1>4. CASE StartFormNext
    BY <1>4, TypedSameKeeps
    DEF StartFormNext, LoadProjectBranches, SubmitStart, ListLocalBranches, ReceiveBranches,
        CheckStart, ServeStart, ReceiveStart, runPageVars, viewVars, TypedSame
<1>5. CASE UNCHANGED runPageVars
    BY <1>5, TypedSameKeeps DEF runPageVars, TypedSame
<1> QED
    BY <1>1, <1>2, <1>3, <1>4, <1>5 DEF Next, vars

(* An answer typed into a form whose inputs follow the draft is still in   *)
(* that form whenever it is shown again: no reply, no event and no button  *)
(* of a question takes it away, unless a clarification is in its place.    *)
THEOREM TypedIsKept == Spec => []TypedStays
<1>1. Init => AnswerInv /\ TypedInv
    BY InitAnswerInv, InitTypedInv
<1>2. AnswerInv /\ TypedInv /\ [Next]_vars => AnswerInv' /\ TypedInv'
    BY NextKeepsAnswerInv, NextKeepsTypedInv
<1>3. AnswerInv /\ TypedInv => TypedStays
    <2> SUFFICES ASSUME AnswerInv, TypedInv, panel.holds = "gate", Synced(shown),
                        NEW q \in Asked(shown), <<shown.run, shown.gate, q>> \in typed,
                        q \notin Clarified(drafts[shown.run], shown)
                 PROVE  form[q].typed
        BY DEF TypedStays
    <2>1. Synced([run |-> shown.run, gate |-> shown.gate])
        BY DEF Synced, GateOf
    <2> DEFINE t == <<shown.run, shown.gate, q>>
    <2>2. t \in typed /\ t[1] = shown.run /\ t[2] = shown.gate /\ t[3] = q
        OBVIOUS
    <2> HIDE DEF t
    <2>3. KeptTyped(drafts[shown.run], q)
        BY <2>1, <2>2 DEF TypedInv, DraftKeepsTyped
    <2>4. form[q] = drafts[shown.run].answers[q]
        BY DEF TypedInv, FormShowsDraft
    <2> QED
        BY <2>3, <2>4 DEF KeptTyped
<1> QED
    BY <1>1, <1>2, <1>3, PTL DEF Spec
===============================================================================
