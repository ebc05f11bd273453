------------------------------ MODULE GuidancePage ------------------------------
(***************************************************************************)
(* The guidance tab of ui/app.js, the guidance endpoints of                *)
(* src/api-server.ts, and the overrides kept by src/guidance.ts.           *)
(*                                                                         *)
(* A body is not its characters but the role whose guidance it is, and     *)
(* whether the operator has edited it; editing keeps the role, for the     *)
(* editor is headed with it.                                               *)
(***************************************************************************)
EXTENDS StartForm, SettingsPage

VARIABLES
    override,   \* override[role]: bodies by scope, "home" or a project
    guidance,   \* guidanceRole, guidanceDoc, editor, scope, disabled buttons
    docs,       \* requests under way
    hasty       \* history: the operator turned to a role before a reply was there

guidanceVars == <<override, guidance, docs, hasty>>

Scopes == {"home"} \cup Projects
Body(role, edited) == [role |-> role, edited |-> edited]
NoDoc == [role |-> NoRun, body |-> Body(NoRun, FALSE)]

GuidanceInit ==
    /\ override = [role \in Roles |-> <<>>]
    /\ guidance = [role |-> NoRun, doc |-> NoDoc, editor |-> NoDoc.body, open |-> FALSE,
                   pressed |-> {}]
    /\ docs = <<>> /\ hasty = FALSE

(* GuidanceService.read: a project's override before the home's before the *)
(* packaged text.                                                          *)
ReadGuidance(overrides, role, scope) ==
    [role |-> role,
     body |-> IF scope \in DOMAIN overrides THEN overrides[scope]
              ELSE IF "home" \in DOMAIN overrides THEN overrides["home"]
              ELSE Body(role, FALSE)]

GuidanceRequest(kind, role, scope, body) ==
    [kind |-> kind, stage |-> 1, role |-> role, scope |-> scope, body |-> body, doc |-> NoDoc]

(* Faulty: the editor stays until the guidance of the role is there. *)
TurnToLater(role) == [guidance EXCEPT !.role = role]

(* The detail, and with it the editor and its buttons, is replaced.        *)
TurnTo(role) == [guidance EXCEPT !.role = role, !.open = FALSE, !.pressed = {}]

SelectGuidanceRole(role) ==
    /\ Spend("guidance")
    /\ guidance' = TurnTo(role)
    /\ docs' = Append(docs, GuidanceRequest("read", role, "home", NoDoc.body))
    /\ hasty' = (hasty \/ docs # <<>>)
    /\ UNCHANGED <<override, ordered, log, cursor>>

EditGuidance ==
    /\ Spend("guidance")
    /\ guidance.open /\ ~guidance.editor.edited
    /\ guidance' = [guidance EXCEPT !.editor.edited = TRUE]
    /\ UNCHANGED <<override, docs, hasty, ordered, log, cursor>>

(* Save and reset are of the role that is selected. *)
SubmitGuidance(kind, scope) ==
    /\ Spend("guidance")
    /\ guidance.open /\ kind \notin guidance.pressed
    /\ scope \in {"home", start.project}
    /\ guidance' = [guidance EXCEPT !.pressed = @ \cup {kind}]
    /\ docs' = Append(docs, GuidanceRequest(kind, guidance.role, scope, guidance.editor))
    /\ UNCHANGED <<override, hasty, ordered, log, cursor>>

WriteOverride(overrides, request) ==
    Filled([scope \in {request.scope} |-> request.body], overrides)

ResetOverride(overrides, request) ==
    Restrict(overrides, DOMAIN overrides \ {request.scope})

ServeGuidance(i) ==
    /\ Moves(docs, i, 1)
    /\ LET request == docs[i]
           overrides == override[request.role]
           written == CASE request.kind = "save" -> WriteOverride(overrides, request)
                        [] request.kind = "reset" -> ResetOverride(overrides, request)
                        [] OTHER -> overrides
       IN  /\ override' = [override EXCEPT ![request.role] = written]
           /\ docs' = [docs EXCEPT ![i].stage = 3,
                                   ![i].doc = ReadGuidance(written, request.role, request.scope)]
    /\ UNCHANGED <<guidance, hasty, streamVars>>

RenderDetail(doc) ==
    [guidance EXCEPT !.doc = doc, !.editor = doc.body, !.open = TRUE, !.pressed = {}]

(* After a save or a reset the roles are listed again before the detail is *)
(* rendered.                                                               *)
ReceiveGuidance(i) ==
    /\ Moves(docs, i, 3)
    /\ IF docs[i].kind \in {"save", "reset"}
       THEN /\ docs' = Append(RemoveAt(docs, i),
                              GuidanceRequest("roles", docs[i].role, "home", NoDoc.body))
            /\ guidance' = [guidance EXCEPT !.doc = docs[i].doc]
       ELSE /\ docs' = RemoveAt(docs, i)
            /\ guidance' = RenderDetail(IF docs[i].kind = "read" THEN docs[i].doc
                                        ELSE guidance.doc)
    /\ UNCHANGED <<override, hasty, streamVars>>

(* A failing read leaves the detail as loading. *)
GuidanceCallsFail ==
    /\ docs' = <<>>
    /\ guidance' = [guidance EXCEPT !.pressed = {}]
    /\ UNCHANGED <<override, hasty>>

GuidancePageNext ==
    \/ \E role \in Roles : SelectGuidanceRole(role)
    \/ EditGuidance
    \/ \E kind \in {"save", "reset"} : \E scope \in Scopes : SubmitGuidance(kind, scope)
    \/ \E i \in DOMAIN docs : ServeGuidance(i) \/ ReceiveGuidance(i)
===============================================================================
