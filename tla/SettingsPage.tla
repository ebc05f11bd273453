------------------------------ MODULE SettingsPage ------------------------------
(***************************************************************************)
(* The settings of ui/app.js, GET and PUT /api/settings of                 *)
(* src/api-server.ts, and the configuration file of src/config.ts.         *)
(*                                                                         *)
(* A configuration is a function from its fields; models and publication,  *)
(* which mergeConfig merges field by field, are not nested.  A role        *)
(* without a model of its own is not in the domain.  The file is written   *)
(* in one step.  That selecting a run hides the panel, and opening it loads *)
(* the settings again, is left out: the forms may be used at any time.     *)
(***************************************************************************)
EXTENDS SetupPage

CONSTANTS
    Roles,
    Texts,      \* what can be typed into a field
    Given       \* the text the fields have at first

RuntimeTexts == {"remote", "default"}
Empty == ""

ASSUME SettingsAssumption == Given \in Texts /\ Empty \notin Texts

VARIABLES
    file,       \* config.json
    settings,   \* settingsState, the two forms, and their disabled buttons
    saves,      \* requests under way
    told,       \* history: what the page said is saved
    hurried     \* history: the operator went on before a form was saved

settingsVars == <<file, settings, saves, told, hurried>>

Fields(kind) == IF kind = "runtime" THEN RuntimeTexts \cup {"draft"} ELSE Roles

(* renderSettings: only a reply to GET has the roles. *)
RenderSettings(config, roles) ==
    [config |-> config,
     form |-> [f \in Fields("runtime") \cup (IF roles THEN Roles ELSE {}) |->
                  IF f \in DOMAIN config THEN config[f] ELSE Empty],
     edited |-> {}, pressed |-> {}]

SettingsInit ==
    /\ \E draft \in {"on", "off"} :
        file = Filled([f \in RuntimeTexts |-> Given], [f \in {"draft"} |-> draft])
    /\ settings = RenderSettings(file, TRUE)
    /\ saves = <<>> /\ told = <<>> /\ hurried = FALSE

SettingsRequest(kind, updates, edited) ==
    [kind |-> kind, stage |-> 1, updates |-> updates, edited |-> edited, config |-> file]

Saving == \E i \in DOMAIN saves : saves[i].kind # "get"

(* Opening the settings and turning to a tab both load them. *)
ShowSettings ==
    /\ Spend("settings")
    /\ saves' = Append(saves, SettingsRequest("get", <<>>, <<>>))
    /\ hurried' = (hurried \/ Saving)
    /\ UNCHANGED <<file, settings, told, setupVars, ordered, log, cursor>>

EditField(f, value) ==
    /\ Spend("settings")
    /\ f \in DOMAIN settings.form /\ value # settings.form[f]
    /\ value \in IF f = "draft" THEN {"on", "off"} ELSE Texts \cup {Empty}
    /\ settings' = [settings EXCEPT !.form[f] = value, !.edited = @ \cup {f}]
    /\ UNCHANGED <<file, saves, told, hurried, setupVars, ordered, log, cursor>>

(* An unchecked box is not part of a form's data; a model left blank is    *)
(* taken out, and the others come with all the models the page knows of.   *)
ReadForm(kind) ==
    LET form == Restrict(settings.form, Fields(kind) \cap DOMAIN settings.form)
        known == Restrict(settings.config, DOMAIN settings.config \cap (Roles \cup {"default"}))
    IN  IF kind = "runtime"
        THEN Restrict(form, {f \in DOMAIN form : form[f] # "off"})
        ELSE LET models == Filled(form, known)
             IN  Restrict(models, {f \in DOMAIN models : f = "default" \/ models[f] # Empty})

SaveSettings(kind) ==
    /\ Spend("settings")
    /\ kind \notin settings.pressed
    /\ saves' = Append(saves, SettingsRequest(kind, ReadForm(kind),
                           Restrict(settings.form, settings.edited \cap Fields(kind))))
    /\ settings' = [settings EXCEPT !.pressed = @ \cup {kind}]
    /\ hurried' = (hurried \/ Saving)
    /\ UNCHANGED <<file, told, setupVars, ordered, log, cursor>>

ReadConfig(i) ==
    /\ Moves(saves, i, 1)
    /\ saves' = [saves EXCEPT ![i].stage = 2, ![i].config = file]
    /\ UNCHANGED <<file, settings, told, hurried, setupVars, streamVars>>

(* Faulty: models that are sent replace all the models. *)
MergeConfigShallow(current, updates) ==
    LET models == Roles \cup {"default"}
    IN  IF DOMAIN updates \cap models = {} THEN Filled(updates, current)
        ELSE Filled(updates, Restrict(current, DOMAIN current \ models))

MergeConfig(current, updates) == Filled(updates, current)

(* A GET goes on to list the roles; a PUT merges and writes. *)
WriteConfig(i) ==
    /\ Moves(saves, i, 2)
    /\ LET merged == MergeConfig(saves[i].config, saves[i].updates)
       IN  /\ file' = IF saves[i].kind = "get" THEN file ELSE merged
           /\ saves' = [saves EXCEPT ![i].stage = 3, ![i].config = merged]
    /\ UNCHANGED <<settings, told, hurried, setupVars, streamVars>>

(* mergeConfig throws at a deadline that is no positive number, as the     *)
(* runtime form, which has the field, may send; the reply to it is an error. *)
RefuseConfig(i) ==
    /\ Moves(saves, i, 2) /\ saves[i].kind = "runtime"
    /\ saves' = RemoveAt(saves, i)
    /\ settings' = [settings EXCEPT !.pressed = @ \ {"runtime"}]
    /\ UNCHANGED <<file, told, hurried, setupVars, streamVars>>

(* Neither merge can take a field back. *)
Lasting(edited) ==
    Restrict(edited, {f \in DOMAIN edited : edited[f] # "off" /\ (f \in Roles => edited[f] # Empty)})

ReceiveSettings(i) ==
    /\ Moves(saves, i, 3)
    /\ settings' = RenderSettings(saves[i].config, saves[i].kind = "get")
    /\ told' = Filled(Lasting(saves[i].edited),
                       Restrict(told, DOMAIN told \ DOMAIN saves[i].edited))
    /\ saves' = RemoveAt(saves, i)
    /\ IF saves[i].kind = "runtime"
       THEN LoadSetup /\ UNCHANGED <<docker, build, builds, setup>>
       ELSE UNCHANGED setupVars
    /\ UNCHANGED <<file, hurried, streamVars>>

(* What was being saved may be in the file or not. *)
SettingsCallsFail ==
    /\ saves' = <<>>
    /\ settings' = [settings EXCEPT !.pressed = {}]
    /\ told' = Restrict(told, DOMAIN told \ UNION {DOMAIN saves[i].edited : i \in DOMAIN saves})
    /\ UNCHANGED <<file, hurried>>

SettingsPageNext ==
    \/ ShowSettings
    \/ \E f \in Fields("runtime") \cup Roles : \E value \in Texts \cup {Empty, "on", "off"} :
          EditField(f, value)
    \/ \E kind \in {"runtime", "models"} : SaveSettings(kind)
    \/ \E i \in DOMAIN saves : \/ ReadConfig(i) \/ WriteConfig(i) \/ RefuseConfig(i)
                               \/ ReceiveSettings(i)
===============================================================================
