-------------------------------- MODULE RunPage --------------------------------
(***************************************************************************)
(* ui/app.js: the list of runs and the detail of the selected one with its *)
(* gate form, and what it talks to: GET /api/runs, GET /api/runs/:id and   *)
(* POST /api/runs/:id/commands of src/api-server.ts.                       *)
(*                                                                         *)
(* Behind the API a run is only what the page can see of it: its status    *)
(* and its open gate.  RunEngine says how they change; here each change    *)
(* happens in one step with the event that goes with it, and the gates a   *)
(* run opens are given by Script.                                          *)
(*                                                                         *)
(* A text in a form is not its characters but where it comes from: typed   *)
(* by the operator, or proposed by the gate, of a run.                     *)
(***************************************************************************)
EXTENDS PageStream, FiniteSets

CONSTANTS
    Runs,
    NewRuns,    \* those that do not exist when the page is opened
    Script,     \* Script[r]: the gates r opens, each a kind and its question ids
    MaxCalls    \* bound: requests of this part under way

GateKinds == {"reflect", "flat", "grill", "specification", "publish", "question"}

ASSUME RunPageAssumption ==
    /\ NoRun \notin Runs /\ IsFiniteSet(Runs)
    /\ NewRuns \subseteq Runs
    /\ \A r \in Runs :
          /\ Len(Script[r]) \in Nat \ {0}
          /\ \A g \in DOMAIN Script[r] : Script[r][g].kind \in GateKinds
    /\ MaxCalls \in Nat

VARIABLES
    run,        \* runs and gates: status, open gate, number of gates opened
    queue,      \* commands not yet taken, in the order they were accepted
    accepted,   \* their idempotency keys, kept for ever
    recorded,   \* answers of each gate
    selected,   \* let selected
    shown,      \* the run object the detail was last rendered with
    panel,      \* what the action panel holds, and its buttons that are disabled
    clicked,    \* buttons of the run actions that are disabled as requested
    form,       \* texts in the gate form
    drafts,     \* gateDrafts: answers, parked, clarifications of each run
    typed,      \* history: gates and questions the operator typed an answer for
    listed,     \* the list of runs as last rendered
    calls       \* requests under way

serverRunVars == <<run, queue, accepted, recorded>>
viewVars == <<shown, panel, clicked, form, drafts, typed, listed>>
runPageVars == <<run, queue, accepted, recorded, selected, shown, panel, clicked,
                 form, drafts, typed, listed, calls>>

Blank == [run |-> NoRun, gate |-> 0, typed |-> FALSE]
Typed(s) == [run |-> s.run, gate |-> s.gate, typed |-> TRUE]
Proposed(s) == [run |-> s.run, gate |-> s.gate, typed |-> FALSE]

NoView == [run |-> NoRun, status |-> "absent", gate |-> 0]
View(r) == [run |-> r, status |-> run[r].status, gate |-> run[r].gate]
Statuses == [r \in Runs |-> run[r].status]
GateOf(s) == Script[s.run][s.gate]
Asked(s) == GateOf(s).questions

Over(r) == run[r].status \in {"cancelled", "completed"}
EmptyGateDraft == [answers |-> <<>>, parked |-> {}, clarifications |-> <<>>]

Request(kind, r) ==
    [kind |-> kind, stage |-> 1, run |-> r, view |-> NoView, list |-> Statuses,
     command |-> <<>>, live |-> FALSE]

RunPageInit ==
    /\ run = [r \in Runs |->
                 IF r \in NewRuns THEN [status |-> "absent", gate |-> 0, opened |-> 0]
                 ELSE [status |-> "awaiting_user", gate |-> 1, opened |-> 1]]
    /\ queue = <<>> /\ accepted = {}
    /\ recorded = [r \in Runs |-> <<>>]
    /\ selected = NoRun /\ shown = NoView
    /\ panel = [holds |-> "nothing", pressed |-> {}]
    /\ clicked = {} /\ form = <<>> /\ typed = {} /\ calls = <<>>
    /\ drafts = [r \in Runs |-> EmptyGateDraft]
    /\ listed = Statuses

-------------------------------------------------------------------------------
(* The page asks: selectRun, loadRuns. *)

Room == Len(calls) < MaxCalls

Load(request) == Room /\ calls' = Append(calls, request)

SelectRun(r) ==
    /\ selected' = r
    /\ Load(Request("view", r))

LoadRuns == Load([Request("list", NoRun) EXCEPT !.stage = 2])

ChooseRun(r) ==
    /\ Spend("page")
    /\ listed[r] # "absent"
    /\ SelectRun(r)
    /\ UNCHANGED <<serverRunVars, viewVars, ordered, log, cursor>>

(* Faulty: the detail is not loaded again while its form is filled in. *)
HandleRunEventIdle(r) ==
    IF r = selected /\ panel.holds # "gate" THEN SelectRun(r)
    ELSE LoadRuns /\ UNCHANGED selected

(* The onmessage handler.  A setup event has no run id, and before a run   *)
(* is chosen neither has the selection.                                    *)
HandleRunEvent(r) ==
    IF r = selected THEN SelectRun(r) ELSE LoadRuns /\ UNCHANGED selected

-------------------------------------------------------------------------------
(* The server answers. *)

(* A run that does not exist is an error, which the page leaves uncaught. *)
ServeRun(i) ==
    /\ Moves(calls, i, 1) /\ calls[i].kind = "view"
    /\ calls' = IF calls[i].run = NoRun THEN RemoveAt(calls, i)
                ELSE [calls EXCEPT ![i].stage = 2, ![i].view = View(calls[i].run)]
    /\ UNCHANGED <<serverRunVars, viewVars, selected, streamVars>>

(* With the run in hand, selectRun awaits loadRuns. *)
ServeRuns(i) ==
    /\ Moves(calls, i, 2)
    /\ calls' = [calls EXCEPT ![i].stage = 3, ![i].list = Statuses]
    /\ UNCHANGED <<serverRunVars, viewVars, selected, streamVars>>

Key(r, command) == <<r, command>>

EnqueueCommand(r, command) ==
    IF Key(r, command) \in accepted
    THEN UNCHANGED <<queue, accepted, log>>
    ELSE /\ queue' = Append(queue, [run |-> r, command |-> command])
         /\ accepted' = accepted \cup {Key(r, command)}
         /\ AppendEvent(r)

ServeCommand(i) ==
    /\ Moves(calls, i, 1) /\ calls[i].kind = "post"
    /\ EnqueueCommand(calls[i].run, calls[i].command)
    /\ calls' = [calls EXCEPT ![i].stage = 3]
    /\ UNCHANGED <<run, recorded, viewVars, selected, left, ordered, cursor>>

-------------------------------------------------------------------------------
(* The page renders: renderGate and the renderers of the kinds of gates. *)

Initial(s) ==
    IF GateOf(s).kind \in {"reflect", "flat", "publish"} THEN Proposed(s) ELSE Blank

(* Faulty: what the gate proposes goes before what the draft has. *)
EnsureGateDraftAnew(d, s) ==
    IF GateOf(s).kind = "specification" THEN d
    ELSE [d EXCEPT !.answers = Filled([q \in Asked(s) |-> Initial(s)], @)]

(* The notes, all there is to fill in for a specification, have no draft. *)
EnsureGateDraft(d, s) ==
    IF GateOf(s).kind = "specification" THEN d
    ELSE [d EXCEPT !.answers = Filled(@, [q \in Asked(s) |-> Initial(s)])]

(* The questions shown with "Wait what?", which only a grill has. *)
Clarified(d, s) == IF GateOf(s).kind = "grill" THEN Asked(s) \cap DOMAIN d.clarifications ELSE {}

FormOf(d, s) ==
    IF GateOf(s).kind = "specification" THEN [q \in Asked(s) |-> Blank]
    ELSE [q \in Asked(s) |-> IF q \in Clarified(d, s) THEN d.clarifications[q]
                             ELSE d.answers[q]]

RenderGate(d, s) ==
    IF s.gate = 0
    THEN /\ panel' = [holds |-> "nothing", pressed |-> {}]
         /\ form' = <<>>
         /\ drafts' = drafts
    ELSE /\ panel' = [holds |-> "gate", pressed |-> {}]
         /\ drafts' = [drafts EXCEPT ![s.run] = EnsureGateDraft(d, s)]
         /\ form' = FormOf(EnsureGateDraft(d, s), s)

(* The buttons of requests under way are no longer on the page. *)
Detached(cs) == [i \in DOMAIN cs |-> [cs[i] EXCEPT !.live = FALSE]]

(* selectRun does not look whether its run is still the selected one. *)
RenderRun(i) ==
    /\ Moves(calls, i, 3) /\ calls[i].kind = "view"
    /\ listed' = calls[i].list
    /\ shown' = calls[i].view
    /\ clicked' = {}
    /\ RenderGate(drafts[calls[i].run], calls[i].view)
    /\ calls' = Detached(RemoveAt(calls, i))
    /\ UNCHANGED <<serverRunVars, selected, typed, streamVars>>

RenderRuns(i) ==
    /\ Moves(calls, i, 3) /\ calls[i].kind = "list"
    /\ listed' = calls[i].list
    /\ calls' = RemoveAt(calls, i)
    /\ UNCHANGED <<serverRunVars, selected, shown, panel, clicked, form, drafts, typed, streamVars>>

-------------------------------------------------------------------------------
(* The operator fills in the form of the run the page shows. *)

Filling == panel.holds = "gate"

(* Gates whose input handler writes what is typed to the draft. *)
Synced(s) == GateOf(s).kind \in {"grill", "question"}

TypeText(q) ==
    /\ Spend("page")
    /\ Filling /\ q \in Asked(shown)
    /\ form' = [form EXCEPT ![q] = Typed(shown)]
    /\ LET d == drafts[shown.run]
           clarifying == q \in Clarified(d, shown)
       IN  /\ drafts' = IF clarifying
                        THEN [drafts EXCEPT ![shown.run].clarifications[q] = Typed(shown)]
                        ELSE IF Synced(shown)
                        THEN [drafts EXCEPT ![shown.run].answers[q] = Typed(shown)]
                        ELSE drafts
           /\ typed' = IF clarifying THEN typed ELSE typed \cup {<<shown.run, shown.gate, q>>}
    /\ UNCHANGED <<serverRunVars, selected, shown, panel, clicked, listed, calls, ordered, log, cursor>>

Without(f, q) == [x \in DOMAIN f \ {q} |-> f[x]]

Toggled(d, button, q) ==
    IF button = "skip"
    THEN [d EXCEPT !.parked = IF q \in @ THEN @ \ {q} ELSE @ \cup {q}]
    ELSE [d EXCEPT !.clarifications = IF q \in DOMAIN @ THEN Without(@, q)
                                      ELSE Filled(@, [x \in {q} |-> Blank])]

(* "Skip for now" and "Wait what?" of a question; both render the gate. *)
ToggleQuestion(button, q) ==
    /\ Spend("page")
    /\ Filling /\ GateOf(shown).kind = "grill" /\ q \in Asked(shown)
    /\ RenderGate(Toggled(drafts[shown.run], button, q), shown)
    /\ calls' = Detached(calls)
    /\ UNCHANGED <<serverRunVars, selected, shown, clicked, typed, listed, ordered, log, cursor>>

(* Faulty: to the run that is selected by now. *)
PostToSelected(command) ==
    Load([Request("post", selected) EXCEPT !.command = command, !.live = TRUE])

Post(command) ==
    Load([Request("post", shown.run) EXCEPT !.command = command, !.live = TRUE])

Buttons(s) == IF GateOf(s).kind = "specification" THEN {"approve", "request"} ELSE {"submit"}

(* A skipped question is not answered; a specification is approved, or     *)
(* sent back with the notes as the decision.                               *)
Answers(button) ==
    IF button = "approve" THEN [q \in Asked(shown) |-> Blank]
    ELSE IF GateOf(shown).kind = "grill"
    THEN Restrict(form, Asked(shown) \ drafts[shown.run].parked)
    ELSE form

(* submitGateAnswers, from any of the forms. *)
SubmitGateAnswers(button) ==
    /\ Spend("page")
    /\ Filling /\ button \in Buttons(shown) \ panel.pressed
    /\ button = "request" => \A q \in Asked(shown) : form[q] # Blank
    /\ Post([kind |-> "submit-answers", gate |-> shown.gate, answers |-> Answers(button)])
    /\ panel' = [panel EXCEPT !.pressed = @ \cup {button}]
    /\ UNCHANGED <<serverRunVars, selected, shown, clicked, form, drafts, typed, listed,
                   ordered, log, cursor>>

Offered ==
    (IF shown.status \in {"blocked", "stalled"} THEN {"retry-turn"} ELSE {})
    \cup (IF shown.run # NoRun /\ shown.status \notin {"completed", "cancelled"}
          THEN {"cancel-run"} ELSE {})

ClickAction(kind) ==
    /\ Spend("page")
    /\ kind \in Offered \ clicked
    /\ Post([kind |-> kind])
    /\ clicked' = clicked \cup {kind}
    /\ UNCHANGED <<serverRunVars, selected, shown, panel, form, drafts, typed, listed,
                   ordered, log, cursor>>

(* The message replaces whatever the action panel holds by now. *)
ReceivePosted(i) ==
    /\ Moves(calls, i, 3) /\ calls[i].kind = "post"
    /\ panel' = IF calls[i].command.kind = "submit-answers"
                THEN [holds |-> "message", pressed |-> {}] ELSE panel
    /\ calls' = RemoveAt(calls, i)
    /\ UNCHANGED <<serverRunVars, selected, shown, clicked, form, drafts, typed, listed, streamVars>>

(* The server or the connection goes away: every request under way fails.  *)
(* Of the buttons, those still on the page are enabled again.              *)
RunCallsFail ==
    LET lost == {i \in DOMAIN calls : calls[i].kind = "post" /\ calls[i].live}
    IN  /\ calls' = <<>>
        /\ panel' = IF \E i \in lost : calls[i].command.kind = "submit-answers"
                    THEN [panel EXCEPT !.pressed = {}] ELSE panel
        /\ clicked' = clicked \ {calls[i].command.kind : i \in lost}
        /\ UNCHANGED <<serverRunVars, selected, shown, form, drafts, typed, listed>>

-------------------------------------------------------------------------------
(* Behind the API: the engine takes commands and moves runs on. *)

SetRun(r, status, gate) ==
    /\ run' = [run EXCEPT ![r].status = status, ![r].gate = gate]
    /\ AppendEvent(r)

AnswerGate(r, command) ==
    IF run[r].gate = command.gate
    THEN /\ recorded' = [recorded EXCEPT ![r] =
                             Filled(@, [g \in {command.gate} |-> command.answers])]
         /\ SetRun(r, "working", 0)
    ELSE UNCHANGED <<run, recorded, log>>     \* "Gate is not open": no event tells

(* Cancellations have their own loop; the gate stays open. *)
TakeCommand(i) ==
    LET r == queue[i].run
        command == queue[i].command
    IN  /\ i = 1 \/ command.kind = "cancel-run"
        /\ queue' = RemoveAt(queue, i)
        /\ \/ Over(r) /\ UNCHANGED <<run, recorded, log>>
           \/ ~Over(r) /\ command.kind = "submit-answers" /\ AnswerGate(r, command)
           \/ /\ ~Over(r) /\ command.kind = "retry-turn"
              /\ SetRun(r, "queued", run[r].gate) /\ UNCHANGED recorded
           \/ /\ ~Over(r) /\ command.kind = "cancel-run"
              /\ SetRun(r, "cancelled", run[r].gate) /\ UNCHANGED recorded
        /\ UNCHANGED <<accepted, selected, viewVars, calls, left, ordered, cursor>>

(* A run at work opens its next gate, is blocked, or completes. *)
Advance(r) ==
    /\ Spend("engine")
    /\ run[r].status \in {"queued", "working"} /\ run[r].gate = 0
    /\ AppendEvent(r)
    /\ \/ /\ run[r].opened < Len(Script[r])
          /\ run' = [run EXCEPT ![r] = [status |-> "awaiting_user", gate |-> @.opened + 1,
                                        opened |-> @.opened + 1]]
       \/ run' = [run EXCEPT ![r].status = "blocked"]
       \/ /\ run[r].opened = Len(Script[r])
          /\ run' = [run EXCEPT ![r].status = "completed"]
    /\ UNCHANGED <<queue, accepted, recorded, selected, viewVars, calls, ordered, cursor>>

RunPageNext ==
    \/ \E r \in Runs : ChooseRun(r) \/ Advance(r)
    \/ \E i \in DOMAIN calls : \/ ServeRun(i) \/ ServeRuns(i) \/ ServeCommand(i)
                               \/ RenderRun(i) \/ RenderRuns(i) \/ ReceivePosted(i)
    \/ Filling /\ \E q \in Asked(shown) :
          TypeText(q) \/ \E button \in {"skip", "clarify"} : ToggleQuestion(button, q)
    \/ \E button \in {"submit", "approve", "request"} : SubmitGateAnswers(button)
    \/ \E kind \in {"retry-turn", "cancel-run"} : ClickAction(kind)
    \/ \E i \in DOMAIN queue : TakeCommand(i)
===============================================================================
