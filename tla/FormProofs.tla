----------------------------- MODULE FormProofs ------------------------------
(***************************************************************************)
(* Three properties of the forms of the dashboard, for any projects,       *)
(* branches, roles, texts and sessions, unless the operator was faster     *)
(* than the page: with replies in any order, a run is started from a       *)
(* branch of its project, and guidance stored for a role is guidance of    *)
(* that role; with replies in order, what was said to be saved is saved.   *)
(* And, without condition, that every part of the page keeps its types.    *)
(***************************************************************************)
EXTENDS DashboardProofs

(***************************************************************************)
(* A run is started from a branch of its project, for any projects and     *)
(* branches, any number of runs started, and replies in any order, unless  *)
(* the project was changed while a list of branches was loading.           *)
(***************************************************************************)

(* One request of the form: a list that came is that of its project, which *)
(* is still the chosen one; a start carries a branch of its project.       *)
OfProject(f, p) ==
    /\ DOMAIN f = FormFields /\ f.kind \in {"branches", "start"}
    /\ f.kind = "branches" =>
          /\ f.project = p /\ f.stage # 2
          /\ f.stage = 3 => f.list = Branches[f.project]
    /\ f.kind = "start" => f.branch \in Branches[f.project]

BranchForms == IsList(forms) /\ (~start.rushed => \A i \in DOMAIN forms : OfProject(forms[i], start.project))

BranchSelect ==
    /\ DOMAIN start = {"project", "list", "branch", "enabled", "rushed"}
    /\ ~start.rushed /\ start.enabled => start.branch \in Branches[start.project]

BranchOrigin == DOMAIN origin = Runs /\ BranchOfProject

BranchInv == BranchForms /\ BranchSelect /\ BranchOrigin

LEMMA InitBranchInv ==
    ASSUME Init
    PROVE  BranchInv
<1>1. BranchForms
    BY ListEmpty DEF Init, StartInit, BranchForms
<1>2. BranchSelect
    BY DEF Init, StartInit, BranchSelect
<1>3. BranchOrigin
    BY DEF Init, StartInit, BranchOrigin, BranchOfProject
<1> QED
    BY <1>1, <1>2, <1>3 DEF BranchInv

LEMMA BranchSame ==
    ASSUME BranchInv
    PROVE  /\ UNCHANGED <<start, forms>> => BranchForms'
           /\ UNCHANGED start => BranchSelect'
           /\ UNCHANGED <<start, origin>> => BranchOrigin'
<1>1. ASSUME UNCHANGED <<start, forms>>
      PROVE  BranchForms'
    BY <1>1 DEF BranchInv, BranchForms, OfProject
<1>2. ASSUME UNCHANGED start
      PROVE  BranchSelect'
    BY <1>2 DEF BranchInv, BranchSelect
<1>3. ASSUME UNCHANGED <<start, origin>>
      PROVE  BranchOrigin'
    BY <1>3 DEF BranchInv, BranchOrigin, BranchOfProject
<1> QED
    BY <1>1, <1>2, <1>3

(* Changing the project with a list under way is what rushed records.      *)
LEMMA LoadKeepsBranches ==
    ASSUME BranchInv, NEW p \in Projects, LoadProjectBranches(p)
    PROVE  BranchInv'
<1> DEFINE f == FormRequest("branches", p)
<1>1. /\ start' = [project |-> p, list |-> {}, branch |-> NoRun, enabled |-> FALSE,
                   rushed |-> start.rushed \/ \E i \in DOMAIN forms : forms[i].kind = "branches"]
      /\ forms' = Append(forms, f)
      /\ origin' = origin
    BY DEF LoadProjectBranches, BranchesLoading
<1>2. /\ DOMAIN f = FormFields /\ f.kind = "branches" /\ f.project = p /\ f.stage = 1
    BY DEF FormRequest, FormFields
<1> HIDE DEF f
<1>3. IsList(forms') /\ \A j \in DOMAIN forms' :
         forms'[j] = f \/ (j \in DOMAIN forms /\ forms'[j] = forms[j])
    BY <1>1, ListAppend DEF BranchInv, BranchForms
<1>4. BranchForms'
    <2>1. ASSUME ~start'.rushed, NEW j \in DOMAIN forms'
          PROVE  OfProject(forms'[j], p)
        <3>1. CASE forms'[j] = f
            BY <1>1, <1>2, <3>1 DEF OfProject
        <3>2. CASE j \in DOMAIN forms /\ forms'[j] = forms[j]
            <4>1. forms[j].kind # "branches" /\ OfProject(forms[j], start.project)
                BY <1>1, <2>1, <3>2 DEF BranchInv, BranchForms
            <4> QED
                BY <3>2, <4>1 DEF OfProject
        <3> QED
            BY <1>3, <2>1, <3>1, <3>2
    <2> QED
        BY <1>1, <1>3, <2>1 DEF BranchForms, OfProject
<1>5. BranchSelect'
    BY <1>1 DEF BranchSelect
<1>6. BranchOrigin'
    BY <1>1 DEF BranchInv, BranchOrigin, BranchOfProject
<1> QED
    BY <1>4, <1>5, <1>6 DEF BranchInv

LEMMA SubmitKeepsBranches ==
    ASSUME BranchInv, SubmitStart
    PROVE  BranchInv'
<1> DEFINE f == [FormRequest("start", start.project) EXCEPT !.branch = start.branch]
<1>1. forms' = Append(forms, f) /\ UNCHANGED <<start, origin>> /\ start.enabled
    BY DEF SubmitStart, HasBranch
<1>2. DOMAIN f = FormFields /\ f.kind = "start" /\ f.project = start.project
      /\ f.branch = start.branch
    BY DEF FormRequest, FormFields
<1> HIDE DEF f
<1>3. IsList(forms') /\ \A j \in DOMAIN forms' :
         forms'[j] = f \/ (j \in DOMAIN forms /\ forms'[j] = forms[j])
    BY <1>1, ListAppend DEF BranchInv, BranchForms
<1>4. ~start.rushed => OfProject(f, start.project)
    BY <1>1, <1>2 DEF OfProject, BranchInv, BranchSelect
<1>5. BranchForms'
    BY <1>1, <1>3, <1>4 DEF BranchInv, BranchForms, OfProject
<1> QED
    BY <1>1, <1>5, BranchSame DEF BranchInv

LEMMA ServeKeepsBranches ==
    ASSUME BranchInv, NEW i \in DOMAIN forms,
           ListLocalBranches(i) \/ CheckStart(i) \/ ServeStart(i)
    PROVE  BranchInv'
<1>1. start' = start
    BY DEF ListLocalBranches, CheckStart, ServeStart
<1>2. PICK e :
         /\ forms' = [forms EXCEPT ![i] = e]
         /\ OfProject(forms[i], start.project) => OfProject(e, start.project)
    <2>1. CASE ListLocalBranches(i)
        <3> DEFINE e == [forms[i] EXCEPT !.stage = 3, !.list = Branches[forms[i].project]]
        <3>1. forms' = [forms EXCEPT ![i] = e]
            BY <2>1 DEF ListLocalBranches
        <3>2. OfProject(forms[i], start.project) => OfProject(e, start.project)
            BY DEF OfProject, FormFields
        <3> QED
            BY <3>1, <3>2
    <2>2. CASE CheckStart(i)
        <3> DEFINE e == [forms[i] EXCEPT !.stage = 2, !.ready = Ready]
        <3>1. forms' = [forms EXCEPT ![i] = e] /\ forms[i].kind = "start"
            BY <2>2 DEF CheckStart
        <3>2. OfProject(forms[i], start.project) => OfProject(e, start.project)
            BY <3>1 DEF OfProject, FormFields
        <3> QED
            BY <3>1, <3>2
    <2>3. CASE ServeStart(i)
        <3>1. forms[i].stage = 2 /\ \E r : \/ forms' = [forms EXCEPT ![i].stage = 3, ![i].run = r]
                                           \/ forms' = [forms EXCEPT ![i].stage = 3]
            BY <2>3 DEF ServeStart, CreateRun, Moves
        <3>2. PICK r : \/ forms' = [forms EXCEPT ![i].stage = 3, ![i].run = r]
                       \/ forms' = [forms EXCEPT ![i].stage = 3]
            BY <3>1
        <3> DEFINE e == [forms[i] EXCEPT !.stage = 3, !.run = r]
                   d == [forms[i] EXCEPT !.stage = 3]
        <3>3. forms' = [forms EXCEPT ![i] = e] \/ forms' = [forms EXCEPT ![i] = d]
            BY <3>2
        <3>4. OfProject(forms[i], start.project) =>
                 OfProject(e, start.project) /\ OfProject(d, start.project)
            BY <3>1 DEF OfProject, FormFields
        <3> QED
            BY <3>3, <3>4
    <2> QED
        BY <2>1, <2>2, <2>3
<1>3. IsList(forms') /\ DOMAIN forms' = DOMAIN forms
    BY <1>2, ListOf DEF BranchInv, BranchForms
<1>4. ~start.rushed => \A j \in DOMAIN forms : OfProject(forms'[j], start.project)
    BY <1>2 DEF BranchInv, BranchForms
<1>5. BranchForms'
    BY <1>1, <1>3, <1>4 DEF BranchForms, OfProject
<1>6. BranchOrigin'
    <2>1. CASE UNCHANGED origin
        BY <1>1, <2>1, BranchSame
    <2>2. CASE \E r \in Runs : CreateRun(i, r) /\ forms[i].stage = 2
        <3>1. PICK r \in Runs :
                 /\ origin' = [origin EXCEPT ![r] = [project |-> forms[i].project,
                                                     branch |-> forms[i].branch]]
                 /\ forms[i].stage = 2
            BY <2>2 DEF CreateRun
        <3>2. DOMAIN origin' = Runs
            BY <3>1 DEF BranchInv, BranchOrigin
        <3>3. ~start.rushed => forms[i].branch \in Branches[forms[i].project]
            BY <3>1 DEF BranchInv, BranchForms, OfProject
        <3>4. BranchOfProject'
            BY <1>1, <3>1, <3>3 DEF BranchInv, BranchOrigin, BranchOfProject
        <3> QED
            BY <3>2, <3>4 DEF BranchOrigin
    <2>3. UNCHANGED origin \/ \E r \in Runs : CreateRun(i, r) /\ forms[i].stage = 2
        BY DEF ListLocalBranches, CheckStart, ServeStart, Moves
    <2> QED
        BY <2>1, <2>2, <2>3
<1> QED
    BY <1>1, <1>5, <1>6, BranchSame DEF BranchInv

LEMMA ReceiveKeepsBranches ==
    ASSUME BranchInv, NEW i \in DOMAIN forms, ReceiveBranches(i) \/ ReceiveStart(i)
    PROVE  BranchInv'
<1>1. IsList(forms') /\ \A j \in DOMAIN forms' : \E k \in DOMAIN forms : forms'[j] = forms[k]
    <2>1. forms' = RemoveAt(forms, i)
        BY DEF ReceiveBranches, ReceiveStart
    <2> QED
        BY <2>1, ListRemove DEF BranchInv, BranchForms
<1>2. \/ /\ forms[i].kind = "branches" /\ forms[i].stage = 3
         /\ \E b \in forms[i].list :
               start' = [start EXCEPT !.list = forms[i].list, !.branch = b, !.enabled = TRUE]
      \/ start' = start
    BY DEF ReceiveBranches, ReceiveStart, Moves
<1>3. start'.project = start.project /\ start'.rushed = start.rushed
    BY <1>2 DEF BranchInv, BranchSelect
<1>4. BranchForms'
    BY <1>1, <1>3 DEF BranchInv, BranchForms, OfProject
<1>5. BranchSelect'
    <2>1. CASE start' = start
        BY <2>1, BranchSame
    <2>2. ASSUME forms[i].kind = "branches", forms[i].stage = 3, NEW b \in forms[i].list,
                 start' = [start EXCEPT !.list = forms[i].list, !.branch = b, !.enabled = TRUE]
          PROVE  BranchSelect'
        <3>1. ~start.rushed => b \in Branches[start.project]
            BY <2>2 DEF BranchInv, BranchForms, OfProject
        <3>2. start'.branch = b /\ DOMAIN start' = DOMAIN start
            BY <2>2 DEF BranchInv, BranchSelect
        <3> QED
            BY <1>3, <3>1, <3>2 DEF BranchInv, BranchSelect
    <2> QED
        BY <1>2, <2>1, <2>2
<1>6. origin' = origin
    BY DEF ReceiveBranches, ReceiveStart
<1>7. BranchOrigin'
    BY <1>3, <1>6 DEF BranchInv, BranchOrigin, BranchOfProject
<1> QED
    BY <1>4, <1>5, <1>7 DEF BranchInv

LEMMA OthersKeepBranches ==
    ASSUME BranchInv, [Next]_vars
    PROVE  \/ StartFormNext
           \/ BranchInv'
<1>1. ASSUME Interrupted
      PROVE  BranchInv'
    <2>1. forms' = <<>> /\ UNCHANGED <<start, origin>>
        BY <1>1 DEF Interrupted, StartCallsFail
    <2>2. BranchForms'
        BY <2>1, ListEmpty DEF BranchForms
    <2> QED
        BY <2>1, <2>2, BranchSame DEF BranchInv
<1>2. ASSUME UNCHANGED startVars
      PROVE  BranchInv'
    BY <1>2, BranchSame DEF startVars, BranchInv
<1> QED
    BY <1>1, <1>2 DEF Next, Deliver, vars

LEMMA NextKeepsBranchInv ==
    ASSUME BranchInv, [Next]_vars
    PROVE  BranchInv'
    BY LoadKeepsBranches, SubmitKeepsBranches, ServeKeepsBranches, ReceiveKeepsBranches,
       OthersKeepBranches
    DEF StartFormNext

(* A run is started from a branch of the project it is started for, unless *)
(* the operator changed the project while a list of branches was loading.  *)
THEOREM StartedFromItsProject == Spec => []BranchOfProject
<1>1. Init => BranchInv
    BY InitBranchInv
<1>2. BranchInv /\ [Next]_vars => BranchInv'
    BY NextKeepsBranchInv
<1>3. BranchInv => BranchOfProject
    BY DEF BranchInv, BranchOrigin
<1> QED
    BY <1>1, <1>2, <1>3, PTL DEF Spec

------------------------------------------------------------------------------

(***************************************************************************)
(* Guidance stored for a role is guidance of that role, for any roles and  *)
(* projects, any number of requests, and replies in any order, unless the  *)
(* operator turned to a role while a reply was on its way.                 *)
(***************************************************************************)

DocFields == {"kind", "stage", "role", "scope", "body", "doc"}

BodyOf(body, role) == DOMAIN body = {"role", "edited"} /\ body.role = role /\ role \in Roles

(* A request of the tab while the operator has waited for its replies: it  *)
(* is of the selected role, and so is what it carries and brings back.     *)
OfRole(d, role, doc) ==
    /\ DOMAIN d = DocFields /\ d.kind \in {"read", "save", "reset", "roles"}
    /\ d.role = role /\ role \in Roles
    /\ d.kind = "save" => BodyOf(d.body, role)
    /\ d.stage = 3 => BodyOf(d.doc.body, role)
    /\ d.kind = "roles" => BodyOf(doc.body, role)

GuidanceDocs ==
    /\ IsList(docs)
    /\ ~hasty => \A i \in DOMAIN docs : OfRole(docs[i], guidance.role, guidance.doc)

GuidanceDetail ==
    /\ DOMAIN guidance = {"role", "doc", "editor", "open", "pressed"}
    /\ ~hasty /\ guidance.open => BodyOf(guidance.editor, guidance.role)

GuidanceStored ==
    /\ DOMAIN override = Roles
    /\ ~hasty => \A role \in Roles : \A scope \in DOMAIN override[role] :
                    BodyOf(override[role][scope], role)

GuidanceInv == GuidanceDocs /\ GuidanceDetail /\ GuidanceStored

LEMMA InitGuidanceInv ==
    ASSUME Init
    PROVE  GuidanceInv
<1>1. GuidanceDocs /\ GuidanceDetail
    BY ListEmpty DEF Init, GuidanceInit, GuidanceDocs, GuidanceDetail
<1>2. GuidanceStored
    BY ListEmpty DEF Init, GuidanceInit, GuidanceStored, BodyOf
<1> QED
    BY <1>1, <1>2 DEF GuidanceInv

LEMMA GuidanceSame ==
    ASSUME GuidanceInv
    PROVE  /\ UNCHANGED <<docs, hasty, guidance>> => GuidanceDocs'
           /\ UNCHANGED <<hasty, guidance>> => GuidanceDetail'
           /\ UNCHANGED <<hasty, override>> => GuidanceStored'
<1>1. ASSUME UNCHANGED <<docs, hasty, guidance>>
      PROVE  GuidanceDocs'
    BY <1>1 DEF GuidanceInv, GuidanceDocs, OfRole, BodyOf
<1>2. ASSUME UNCHANGED <<hasty, guidance>>
      PROVE  GuidanceDetail'
    BY <1>2 DEF GuidanceInv, GuidanceDetail, BodyOf
<1>3. ASSUME UNCHANGED <<hasty, override>>
      PROVE  GuidanceStored'
    BY <1>3 DEF GuidanceInv, GuidanceStored, BodyOf
<1> QED
    BY <1>1, <1>2, <1>3

(* Turning to a role with a request under way is what hasty records.       *)
LEMMA SelectKeepsGuidance ==
    ASSUME GuidanceInv, NEW role \in Roles, SelectGuidanceRole(role)
    PROVE  GuidanceInv'
<1> DEFINE d == GuidanceRequest("read", role, "home", NoDoc.body)
<1>1. /\ guidance' = [guidance EXCEPT !.role = role, !.open = FALSE, !.pressed = {}]
      /\ docs' = Append(docs, d)
      /\ hasty' = (hasty \/ docs # <<>>)
      /\ override' = override
    BY DEF SelectGuidanceRole, TurnTo
<1>2. \A doc : OfRole(d, role, doc)
    BY DEF OfRole, DocFields, GuidanceRequest
<1> HIDE DEF d
<1>3. IsList(docs') /\ \A j \in DOMAIN docs' :
         docs'[j] = d \/ (j \in DOMAIN docs /\ docs'[j] = docs[j])
    BY <1>1, ListAppend DEF GuidanceInv, GuidanceDocs
<1>4. guidance'.role = role /\ ~guidance'.open
    BY <1>1 DEF GuidanceInv, GuidanceDetail, BodyOf
<1>5. ~hasty' => DOMAIN docs = {}
    BY <1>1, ListEmpty
<1>6. GuidanceDocs'
    <2>1. ~hasty' => \A j \in DOMAIN docs' : OfRole(docs'[j], role, guidance'.doc)
        BY <1>2, <1>3, <1>5
    <2> QED
        BY <1>3, <1>4, <2>1 DEF GuidanceDocs, OfRole, BodyOf
<1>7. GuidanceDetail'
    BY <1>1, <1>4 DEF GuidanceInv, GuidanceDetail, BodyOf
<1>8. GuidanceStored'
    BY <1>1 DEF GuidanceInv, GuidanceStored, BodyOf
<1> QED
    BY <1>6, <1>7, <1>8 DEF GuidanceInv

LEMMA EditKeepsGuidance ==
    ASSUME GuidanceInv, EditGuidance
    PROVE  GuidanceInv'
<1>1. guidance' = [guidance EXCEPT !.editor.edited = TRUE] /\ UNCHANGED <<override, docs, hasty>>
    BY DEF EditGuidance
<1>2. guidance'.role = guidance.role /\ guidance'.doc = guidance.doc
    BY <1>1 DEF GuidanceInv, GuidanceDetail, BodyOf
<1>3. GuidanceDocs'
    BY <1>1, <1>2 DEF GuidanceInv, GuidanceDocs, OfRole, BodyOf
<1>4. GuidanceDetail'
    BY <1>1 DEF GuidanceInv, GuidanceDetail, BodyOf
<1> QED
    BY <1>1, <1>3, <1>4, GuidanceSame DEF GuidanceInv

LEMMA SubmitKeepsGuidance ==
    ASSUME GuidanceInv, NEW kind \in {"save", "reset"}, NEW scope, SubmitGuidance(kind, scope)
    PROVE  GuidanceInv'
<1> DEFINE d == GuidanceRequest(kind, guidance.role, scope, guidance.editor)
<1>1. /\ guidance' = [guidance EXCEPT !.pressed = guidance.pressed \cup {kind}]
      /\ docs' = Append(docs, d) /\ guidance.open
      /\ UNCHANGED <<override, hasty>>
    BY DEF SubmitGuidance
<1>2. BodyOf(guidance.editor, guidance.role) => OfRole(d, guidance.role, guidance.doc)
    BY DEF OfRole, BodyOf, DocFields, GuidanceRequest
<1> HIDE DEF d
<1>3. IsList(docs') /\ \A j \in DOMAIN docs' :
         docs'[j] = d \/ (j \in DOMAIN docs /\ docs'[j] = docs[j])
    BY <1>1, ListAppend DEF GuidanceInv, GuidanceDocs
<1>4. /\ guidance'.role = guidance.role /\ guidance'.doc = guidance.doc
      /\ guidance'.open = guidance.open /\ guidance'.editor = guidance.editor
      /\ DOMAIN guidance' = DOMAIN guidance
    BY <1>1 DEF GuidanceInv, GuidanceDetail, BodyOf
<1>5. GuidanceDocs'
    <2>1. ~hasty => \A j \in DOMAIN docs' : OfRole(docs'[j], guidance.role, guidance.doc)
        BY <1>1, <1>2, <1>3 DEF GuidanceInv, GuidanceDocs, GuidanceDetail
    <2> QED
        BY <1>1, <1>3, <1>4, <2>1 DEF GuidanceDocs, OfRole, BodyOf
<1>6. GuidanceDetail'
    BY <1>1, <1>4 DEF GuidanceInv, GuidanceDetail, BodyOf
<1> QED
    BY <1>1, <1>5, <1>6, GuidanceSame DEF GuidanceInv

(* What is read for a role, also right after a save or a reset, is of it.  *)
LEMMA ServeKeepsGuidance ==
    ASSUME GuidanceInv, NEW i \in DOMAIN docs, ServeGuidance(i)
    PROVE  GuidanceInv'
<1> DEFINE role == docs[i].role
           before == override[role]
<1>1. PICK after :
         /\ override' = [override EXCEPT ![role] = after]
         /\ docs' = [docs EXCEPT ![i].stage = 3,
                                 ![i].doc = ReadGuidance(after, role, docs[i].scope)]
         /\ \/ after = before
            \/ docs[i].kind = "save" /\ after = WriteOverride(before, docs[i])
            \/ after = ResetOverride(before, docs[i])
    BY DEF ServeGuidance
<1>2. UNCHANGED <<guidance, hasty>>
    BY DEF ServeGuidance
<1> DEFINE Mine(bodies) == \A scope \in DOMAIN bodies : BodyOf(bodies[scope], role)
<1>3. ASSUME ~hasty
      PROVE  role \in Roles /\ Mine(after)
    <2> role \in Roles
        BY <1>3 DEF GuidanceInv, GuidanceDocs, OfRole
    <2>1. Mine(before)
        BY <1>3 DEF GuidanceInv, GuidanceStored
    <2>2. docs[i].kind = "save" => BodyOf(docs[i].body, role)
        BY <1>3 DEF GuidanceInv, GuidanceDocs, OfRole
    <2> HIDE DEF before, role
    <2>3. docs[i].kind = "save" => Mine(WriteOverride(before, docs[i]))
        BY <2>1, <2>2 DEF WriteOverride, Filled
    <2>4. Mine(ResetOverride(before, docs[i]))
        BY <2>1 DEF ResetOverride, Restrict
    <2> QED
        BY <1>1, <2>1, <2>3, <2>4
<1>4. ASSUME ~hasty
      PROVE  BodyOf(ReadGuidance(after, role, docs[i].scope).body, role)
    <2>1. role \in Roles /\ Mine(after)
        BY <1>3, <1>4
    <2> HIDE DEF role
    <2> QED
        BY <2>1 DEF ReadGuidance, Body, BodyOf
<1>5. GuidanceStored'
    <2>1. DOMAIN override' = Roles
        BY <1>1 DEF GuidanceInv, GuidanceStored
    <2>2. ASSUME ~hasty, NEW x \in Roles, NEW scope \in DOMAIN override'[x]
          PROVE  BodyOf(override'[x][scope], x)
        <3>1. CASE x = role
            BY <1>1, <1>3, <2>2, <3>1 DEF GuidanceInv, GuidanceStored
        <3>2. CASE x # role
            <4>1. override'[x] = override[x]
                BY <1>1, <3>2 DEF GuidanceInv, GuidanceStored
            <4> QED
                BY <2>2, <4>1 DEF GuidanceInv, GuidanceStored
        <3> QED
            BY <3>1, <3>2
    <2> QED
        BY <1>2, <2>1, <2>2 DEF GuidanceStored, BodyOf
<1>6. IsList(docs') /\ DOMAIN docs' = DOMAIN docs
    <2>1. docs' = [j \in DOMAIN docs |-> docs'[j]] /\ DOMAIN docs' = DOMAIN docs
        BY <1>1
    <2> QED
        BY <2>1, ListOf DEF GuidanceInv, GuidanceDocs
<1>7. ASSUME ~hasty, NEW j \in DOMAIN docs
      PROVE  OfRole(docs'[j], guidance.role, guidance.doc)
    <2>1. OfRole(docs[j], guidance.role, guidance.doc)
        BY <1>7 DEF GuidanceInv, GuidanceDocs
    <2>2. CASE j # i
        BY <1>1, <2>1, <2>2
    <2>3. CASE j = i
        <3> DEFINE doc == ReadGuidance(after, role, docs[i].scope)
        <3>1. docs'[j] = [docs[i] EXCEPT !.stage = 3, !.doc = doc]
            BY <1>1, <2>3
        <3>2. BodyOf(doc.body, guidance.role)
            BY <1>4, <1>7, <2>1, <2>3 DEF OfRole
        <3> HIDE DEF doc
        <3> QED
            BY <2>1, <2>3, <3>1, <3>2 DEF OfRole, DocFields
    <2> QED
        BY <2>2, <2>3
<1>8. GuidanceDocs'
    BY <1>2, <1>6, <1>7 DEF GuidanceDocs, OfRole, BodyOf
<1> QED
    BY <1>2, <1>5, <1>8, GuidanceSame DEF GuidanceInv

LEMMA ReceiveKeepsGuidance ==
    ASSUME GuidanceInv, NEW i \in DOMAIN docs, ReceiveGuidance(i)
    PROVE  GuidanceInv'
<1> DEFINE rest == RemoveAt(docs, i)
           role == guidance.role
<1>1. IsList(rest) /\ \A j \in DOMAIN rest : \E k \in DOMAIN docs : rest[j] = docs[k]
    BY ListRemove DEF GuidanceInv, GuidanceDocs
<1>2. docs[i].stage = 3 /\ UNCHANGED <<override, hasty>>
    BY DEF ReceiveGuidance, Moves
<1>3. ~hasty => OfRole(docs[i], role, guidance.doc) /\ BodyOf(docs[i].doc.body, role)
    BY <1>2 DEF GuidanceInv, GuidanceDocs, OfRole
<1>4. GuidanceStored'
    BY <1>2, GuidanceSame
<1>5. ASSUME docs[i].kind \in {"save", "reset"}
      PROVE  GuidanceInv'
    <2> DEFINE d == GuidanceRequest("roles", docs[i].role, "home", NoDoc.body)
    <2>1. docs' = Append(rest, d) /\ guidance' = [guidance EXCEPT !.doc = docs[i].doc]
        BY <1>5 DEF ReceiveGuidance
    <2>2. /\ guidance'.role = role /\ guidance'.doc = docs[i].doc
          /\ guidance'.open = guidance.open /\ guidance'.editor = guidance.editor
          /\ DOMAIN guidance' = DOMAIN guidance
        BY <2>1 DEF GuidanceInv, GuidanceDetail
    <2>3. ~hasty => OfRole(d, role, docs[i].doc)
        BY <1>3 DEF OfRole, DocFields, GuidanceRequest
    <2> HIDE DEF d, rest
    <2>4. IsList(docs') /\ \A j \in DOMAIN docs' :
             docs'[j] = d \/ (j \in DOMAIN rest /\ docs'[j] = rest[j])
        BY <1>1, <2>1, ListAppend
    <2>5. ~hasty => \A j \in DOMAIN docs' : OfRole(docs'[j], role, docs[i].doc)
        <3> SUFFICES ASSUME ~hasty, NEW k \in DOMAIN docs
                     PROVE  OfRole(docs[k], role, docs[i].doc)
            BY <1>1, <2>3, <2>4
        <3> QED
            BY <1>3 DEF GuidanceInv, GuidanceDocs, OfRole
    <2>6. GuidanceDocs'
        BY <1>2, <2>2, <2>4, <2>5 DEF GuidanceDocs, OfRole, BodyOf
    <2>7. GuidanceDetail'
        BY <1>2, <2>2 DEF GuidanceInv, GuidanceDetail, BodyOf
    <2> QED
        BY <1>4, <2>6, <2>7 DEF GuidanceInv
<1>6. ASSUME docs[i].kind \notin {"save", "reset"}
      PROVE  GuidanceInv'
    <2>1. PICK doc :
             /\ docs' = rest
             /\ guidance' = [guidance EXCEPT !.doc = doc, !.editor = doc.body,
                                             !.open = TRUE, !.pressed = {}]
             /\ \/ docs[i].kind = "read" /\ doc = docs[i].doc
                \/ docs[i].kind # "read" /\ doc = guidance.doc
        BY <1>6 DEF ReceiveGuidance, RenderDetail
    <2>2. ~hasty => BodyOf(doc.body, role)
        BY <1>3, <1>6, <2>1 DEF OfRole
    <2>3. /\ guidance'.role = role /\ guidance'.doc = doc /\ guidance'.editor = doc.body
          /\ DOMAIN guidance' = DOMAIN guidance
        BY <2>1 DEF GuidanceInv, GuidanceDetail
    <2>4. ~hasty => \A j \in DOMAIN docs' : OfRole(docs'[j], role, doc)
        <3> SUFFICES ASSUME ~hasty, NEW k \in DOMAIN docs
                     PROVE  OfRole(docs[k], role, doc)
            BY <1>1, <2>1
        <3> QED
            BY <2>2 DEF GuidanceInv, GuidanceDocs, OfRole
    <2>5. GuidanceDocs'
        BY <1>1, <1>2, <2>1, <2>3, <2>4 DEF GuidanceDocs, OfRole, BodyOf
    <2>6. GuidanceDetail'
        BY <1>2, <2>2, <2>3 DEF GuidanceInv, GuidanceDetail, BodyOf
    <2> QED
        BY <1>4, <2>5, <2>6 DEF GuidanceInv
<1> QED
    BY <1>5, <1>6

LEMMA OthersKeepGuidance ==
    ASSUME GuidanceInv, [Next]_vars
    PROVE  \/ GuidancePageNext
           \/ GuidanceInv'
<1>1. ASSUME Interrupted
      PROVE  GuidanceInv'
    <2>1. docs' = <<>> /\ guidance' = [guidance EXCEPT !.pressed = {}] /\ UNCHANGED <<override, hasty>>
        BY <1>1 DEF Interrupted, GuidanceCallsFail
    <2>2. GuidanceDocs'
        BY <2>1, ListEmpty DEF GuidanceDocs
    <2>3. GuidanceDetail'
        BY <2>1 DEF GuidanceInv, GuidanceDetail, BodyOf
    <2> QED
        BY <2>1, <2>2, <2>3, GuidanceSame DEF GuidanceInv
<1>2. ASSUME UNCHANGED guidanceVars
      PROVE  GuidanceInv'
    BY <1>2, GuidanceSame DEF guidanceVars, GuidanceInv
<1> QED
    BY <1>1, <1>2 DEF Next, Deliver, vars

LEMMA NextKeepsGuidanceInv ==
    ASSUME GuidanceInv, [Next]_vars
    PROVE  GuidanceInv'
    BY SelectKeepsGuidance, EditKeepsGuidance, SubmitKeepsGuidance, ServeKeepsGuidance,
       ReceiveKeepsGuidance, OthersKeepGuidance
    DEF GuidancePageNext

(* Guidance stored for a role is guidance of that role, unless the         *)
(* operator turned to a role while a reply was on its way.                 *)
THEOREM GuidanceStaysWithItsRole == Spec => []GuidanceForItsRole
<1>1. Init => GuidanceInv
    BY InitGuidanceInv
<1>2. GuidanceInv /\ [Next]_vars => GuidanceInv'
    BY NextKeepsGuidanceInv
<1>3. GuidanceInv => GuidanceForItsRole
    BY DEF GuidanceInv, GuidanceStored, GuidanceForItsRole, BodyOf
<1> QED
    BY <1>1, <1>2, <1>3, PTL DEF Spec

-------------------------------------------------------------------------------
(***************************************************************************)
(* What the page said is saved is in the configuration, for any roles and  *)
(* texts, when replies come in order and the operator waits for a form to  *)
(* be saved: what was told stays in the file although each request read    *)
(* the whole configuration before it wrote it.                             *)
(***************************************************************************)

SaveFields == {"kind", "stage", "updates", "edited", "config"}

(* A field that a form saves for good: Lasting, field by field.            *)
Lasts(edited, f) ==
    f \in DOMAIN edited /\ edited[f] # "off" /\ (f \in Roles => edited[f] # Empty)

(* A request carries what was edited; one that reads carries nothing.      *)
GoodSave(s) ==
    /\ DOMAIN s = SaveFields /\ s.stage \in {1, 2, 3}
    /\ s.kind = "get" => DOMAIN s.edited = {} /\ DOMAIN s.updates = {}
    /\ \A f : Lasts(s.edited, f) => f \in DOMAIN s.updates /\ s.updates[f] = s.edited[f]

SavesGood == IsList(saves) /\ \A i \in DOMAIN saves : GoodSave(saves[i])

(* What was not edited is as the page has it from the server.              *)
SettingsGood ==
    /\ DOMAIN settings = {"config", "form", "edited", "pressed"}
    /\ settings.edited \subseteq DOMAIN settings.form
    /\ \A f \in (DOMAIN settings.form \cap DOMAIN settings.config) \ settings.edited :
          settings.form[f] = settings.config[f]

(* Only the last request saves, and none is answered before an earlier.    *)
SavesInOrder ==
    \A i, j \in DOMAIN saves :
        /\ saves[i].kind # "get" => j <= i
        /\ i < j => saves[i].stage >= saves[j].stage

Has(c, f) == f \in DOMAIN c /\ c[f] = told[f]
Brings(s, f) == s.kind # "get" /\ s.stage = 3 /\ f \in DOMAIN s.edited

(* What was told is shown, and in the file unless a form that was saved    *)
(* since, and is about to be told, has the field; a request that has read  *)
(* has read it, and does not write it otherwise.                           *)
ToldShown == \A f \in DOMAIN told : Has(settings.config, f)

ToldStored ==
    \A f \in DOMAIN told : Has(file, f) \/ \E i \in DOMAIN saves : Brings(saves[i], f)

ReadAsTold(s) == s.stage # 1 => \A f \in DOMAIN told : Has(s.config, f) \/ Brings(s, f)

SentAsTold(s) ==
    \A f \in DOMAIN told \cap DOMAIN s.updates : f \in DOMAIN s.edited \/ s.updates[f] = told[f]

Written(s) ==
    s.stage = 3 => \A f : Lasts(s.edited, f) =>
                       /\ f \in DOMAIN s.config /\ s.config[f] = s.edited[f]
                       /\ f \in DOMAIN file /\ file[f] = s.edited[f]

SaveStands(s) == ReadAsTold(s) /\ SentAsTold(s) /\ Written(s)

SavesStand ==
    ordered /\ ~hurried =>
        /\ SavesInOrder /\ ToldShown /\ ToldStored
        /\ \A i \in DOMAIN saves : SaveStands(saves[i])

SavesInv == SavesGood /\ SettingsGood /\ SavesStand

LEMMA LastingIs ==
    ASSUME NEW e
    PROVE  \A f : /\ f \in DOMAIN Lasting(e) <=> Lasts(e, f)
                  /\ Lasts(e, f) => Lasting(e)[f] = e[f]
    BY DEF Lasting, Lasts, Restrict

LEMMA InitSavesInv ==
    ASSUME Init
    PROVE  SavesInv
<1>1. saves = <<>> /\ told = <<>> /\ settings = RenderSettings(file, TRUE)
    BY DEF Init, SettingsInit
<1>2. DOMAIN saves = {} /\ DOMAIN told = {} /\ IsList(saves)
    BY <1>1, ListEmpty
<1>3. SavesGood /\ SavesStand
    BY <1>2 DEF SavesGood, SavesStand, SavesInOrder, ToldShown, ToldStored
<1>4. SettingsGood
    BY <1>1 DEF RenderSettings, SettingsGood
<1> QED
    BY <1>3, <1>4 DEF SavesInv

LEMMA SavesSame ==
    ASSUME SavesInv, UNCHANGED settingsVars, UNCHANGED ordered
    PROVE  SavesInv'
<1>1. UNCHANGED <<file, settings, saves, told, hurried, ordered>>
    BY DEF settingsVars
<1>2. SavesGood' /\ SettingsGood'
    BY <1>1 DEF SavesInv, SavesGood, SettingsGood, GoodSave, Lasts
<1>3. SavesStand'
    BY <1>1 DEF SavesInv, SavesStand, SavesInOrder, ToldShown, ToldStored, SaveStands,
                ReadAsTold, SentAsTold, Written, Has, Brings, Lasts
<1> QED
    BY <1>2, <1>3 DEF SavesInv

(* A request that is sent while no form is being saved. *)
LEMMA SentKeepsSaves ==
    ASSUME SavesInv, NEW s, GoodSave(s), s.stage = 1,
           ordered /\ ~hurried => SentAsTold(s),
           saves' = Append(saves, s), hurried' = (hurried \/ Saving),
           UNCHANGED <<file, told, ordered>>, settings'.config = settings.config
    PROVE  SavesGood' /\ SavesStand'
<1>1. /\ IsList(saves') /\ Len(saves) \in Nat
      /\ DOMAIN saves = 1..Len(saves) /\ DOMAIN saves' = 1..(Len(saves) + 1)
      /\ saves'[Len(saves) + 1] = s /\ \A j \in DOMAIN saves : saves'[j] = saves[j]
    BY AppendAt DEF SavesInv, SavesGood
<1>2. SavesGood'
    BY <1>1 DEF SavesInv, SavesGood, GoodSave, Lasts
<1>3. ASSUME ordered', ~hurried'
      PROVE  /\ SavesInOrder' /\ ToldShown' /\ ToldStored'
             /\ \A j \in DOMAIN saves' : SaveStands(saves[j])'
    <2>1. ordered /\ ~hurried /\ \A j \in DOMAIN saves : saves[j].kind = "get"
        BY <1>3 DEF Saving
    <2>2. /\ SavesInOrder /\ ToldShown /\ ToldStored
          /\ \A j \in DOMAIN saves : SaveStands(saves[j])
        BY <2>1 DEF SavesInv, SavesStand
    <2>3. \A j \in DOMAIN saves : saves[j].stage \in {1, 2, 3}
        BY DEF SavesInv, SavesGood, GoodSave
    <2>4. ASSUME NEW i \in DOMAIN saves', NEW j \in DOMAIN saves'
          PROVE  /\ saves'[i].kind # "get" => j <= i
                 /\ i < j => saves'[i].stage >= saves'[j].stage
        <3>1. CASE i \in DOMAIN saves /\ j \in DOMAIN saves
            BY <1>1, <2>1, <2>2, <3>1 DEF SavesInOrder
        <3>2. CASE i = Len(saves) + 1
            BY <1>1, <2>4, <3>2
        <3>3. CASE i \in DOMAIN saves /\ j = Len(saves) + 1
            BY <1>1, <2>1, <2>3, <3>3
        <3> QED
            BY <1>1, <3>1, <3>2, <3>3
    <2>5. SavesInOrder'
        BY <2>4 DEF SavesInOrder
    <2>6. ToldShown'
        BY <2>2 DEF ToldShown, Has
    <2>7. ToldStored'
        BY <1>1, <2>2 DEF ToldStored, Has, Brings
    <2>8. ASSUME NEW j \in DOMAIN saves'
          PROVE  SaveStands(saves[j])'
        <3>1. CASE j \in DOMAIN saves
            <4>1. saves'[j] = saves[j] /\ SaveStands(saves[j])
                BY <1>1, <2>2, <3>1
            <4> QED
                BY <4>1 DEF SaveStands, ReadAsTold, SentAsTold, Written, Has, Brings, Lasts
        <3>2. CASE j = Len(saves) + 1
            <4>1. saves'[j] = s /\ SentAsTold(s)
                BY <1>1, <2>1, <3>2
            <4> QED
                BY <4>1 DEF SaveStands, ReadAsTold, SentAsTold, Written
        <3> QED
            BY <1>1, <3>1, <3>2
    <2> QED
        BY <2>5, <2>6, <2>7, <2>8
<1>4. SavesStand'
    BY <1>3 DEF SavesStand
<1> QED
    BY <1>2, <1>4

LEMMA ShowKeepsSaves ==
    ASSUME SavesInv, ShowSettings
    PROVE  SavesInv'
<1> DEFINE s == SettingsRequest("get", <<>>, <<>>)
<1>1. DOMAIN s = SaveFields /\ s.kind = "get" /\ s.stage = 1
      /\ DOMAIN s.edited = {} /\ DOMAIN s.updates = {}
    BY ListEmpty DEF SettingsRequest, SaveFields
<1>2. /\ saves' = Append(saves, s) /\ hurried' = (hurried \/ Saving)
      /\ UNCHANGED <<file, told, ordered, settings>>
    BY DEF ShowSettings
<1> HIDE DEF s
<1>3. GoodSave(s) /\ SentAsTold(s)
    BY <1>1 DEF GoodSave, SentAsTold, Lasts
<1>4. SavesGood' /\ SavesStand'
    BY <1>1, <1>2, <1>3, SentKeepsSaves
<1>5. SettingsGood'
    BY <1>2 DEF SavesInv, SettingsGood
<1> QED
    BY <1>4, <1>5 DEF SavesInv

LEMMA EditKeepsSaves ==
    ASSUME SavesInv, NEW f, NEW value, EditField(f, value)
    PROVE  SavesInv'
<1>1. /\ settings' = [settings EXCEPT !.form[f] = value, !.edited = @ \cup {f}]
      /\ f \in DOMAIN settings.form /\ UNCHANGED <<file, saves, told, hurried, ordered>>
    BY DEF EditField
<1>2. /\ DOMAIN settings' = DOMAIN settings /\ settings'.config = settings.config
      /\ settings'.form = [settings.form EXCEPT ![f] = value]
      /\ settings'.edited = settings.edited \cup {f}
    BY <1>1 DEF SavesInv, SettingsGood
<1>3. SettingsGood'
    BY <1>1, <1>2 DEF SavesInv, SettingsGood
<1>4. SavesGood'
    BY <1>1 DEF SavesInv, SavesGood, GoodSave, Lasts
<1>5. SavesStand'
    BY <1>1, <1>2 DEF SavesInv, SavesStand, SavesInOrder, ToldShown, ToldStored, SaveStands,
                ReadAsTold, SentAsTold, Written, Has, Brings, Lasts
<1> QED
    BY <1>3, <1>4, <1>5 DEF SavesInv

(* What a form is read as: what was edited to stay is among it, and all    *)
(* else is as the page has it from the server.                             *)
LEMMA ReadFormIs ==
    ASSUME SettingsGood, NEW kind \in {"runtime", "models"}
    PROVE  LET updates == ReadForm(kind)
               edited == Restrict(settings.form, settings.edited \cap Fields(kind))
           IN  /\ DOMAIN edited = settings.edited \cap Fields(kind)
               /\ \A f : Lasts(edited, f) => f \in DOMAIN updates /\ updates[f] = edited[f]
               /\ \A f \in DOMAIN updates :
                     \/ f \in DOMAIN edited
                     \/ f \in DOMAIN settings.config => updates[f] = settings.config[f]
<1> DEFINE updates == ReadForm(kind)
           edited == Restrict(settings.form, settings.edited \cap Fields(kind))
           entered == Restrict(settings.form, Fields(kind) \cap DOMAIN settings.form)
           known == Restrict(settings.config, DOMAIN settings.config \cap (Roles \cup {"default"}))
           models == Filled(entered, known)
<1>1. /\ DOMAIN edited = settings.edited \cap Fields(kind)
      /\ \A f \in DOMAIN edited : edited[f] = settings.form[f]
      /\ DOMAIN entered = Fields(kind) \cap DOMAIN settings.form
      /\ \A f \in DOMAIN entered : entered[f] = settings.form[f]
      /\ DOMAIN known = DOMAIN settings.config \cap (Roles \cup {"default"})
      /\ \A f \in DOMAIN known : known[f] = settings.config[f]
    BY DEF Restrict
<1>2. /\ DOMAIN models = DOMAIN entered \cup DOMAIN known
      /\ \A f \in DOMAIN models : models[f] = IF f \in DOMAIN entered THEN entered[f] ELSE known[f]
    BY DEF Filled
<1>3. \A f \in DOMAIN entered \ DOMAIN edited :
         f \in DOMAIN settings.config => entered[f] = settings.config[f]
    BY <1>1 DEF SettingsGood
<1>4. DOMAIN edited \subseteq DOMAIN entered
    BY <1>1 DEF SettingsGood
<1>5. CASE kind = "runtime"
    <2>1. updates = Restrict(entered, {f \in DOMAIN entered : entered[f] # "off"})
        BY <1>5 DEF ReadForm
    <2> HIDE DEF updates, edited, entered, known, models
    <2>2. /\ DOMAIN updates = {f \in DOMAIN entered : entered[f] # "off"}
          /\ \A f \in DOMAIN updates : updates[f] = entered[f]
        BY <2>1 DEF Restrict
    <2>3. \A f : Lasts(edited, f) => f \in DOMAIN updates /\ updates[f] = edited[f]
        BY <1>1, <1>4, <2>2 DEF Lasts
    <2> QED
        BY <1>1, <1>3, <2>2, <2>3 DEF updates, edited
<1>6. CASE kind = "models"
    <2>1. updates = Restrict(models, {f \in DOMAIN models : f = "default" \/ models[f] # Empty})
        BY <1>6 DEF ReadForm
    <2>2. Fields(kind) = Roles
        BY <1>6 DEF Fields
    <2> HIDE DEF updates, edited, entered, known, models
    <2>3. /\ DOMAIN updates = {f \in DOMAIN models : f = "default" \/ models[f] # Empty}
          /\ \A f \in DOMAIN updates : updates[f] = models[f]
        BY <2>1 DEF Restrict
    <2>4. ASSUME NEW f, Lasts(edited, f)
          PROVE  f \in DOMAIN updates /\ updates[f] = edited[f]
        <3>1. f \in DOMAIN edited /\ f \in Roles /\ edited[f] # Empty
            BY <1>1, <2>2, <2>4 DEF Lasts
        <3>2. f \in DOMAIN models /\ models[f] = edited[f]
            BY <1>1, <1>2, <1>4, <3>1
        <3> QED
            BY <2>3, <3>1, <3>2
    <2>5. ASSUME NEW f \in DOMAIN updates, f \notin DOMAIN edited, f \in DOMAIN settings.config
          PROVE  updates[f] = settings.config[f]
        BY <1>1, <1>2, <1>3, <2>3, <2>5
    <2> QED
        BY <1>1, <2>4, <2>5 DEF updates, edited
<1> QED
    BY <1>5, <1>6

LEMMA SaveKeepsSaves ==
    ASSUME SavesInv, NEW kind \in {"runtime", "models"}, SaveSettings(kind)
    PROVE  SavesInv'
<1> DEFINE updates == ReadForm(kind)
           edited == Restrict(settings.form, settings.edited \cap Fields(kind))
           s == SettingsRequest(kind, updates, edited)
<1>1. /\ \A f : Lasts(edited, f) => f \in DOMAIN updates /\ updates[f] = edited[f]
      /\ \A f \in DOMAIN updates :
            \/ f \in DOMAIN edited
            \/ f \in DOMAIN settings.config => updates[f] = settings.config[f]
    BY ReadFormIs DEF SavesInv
<1>2. /\ saves' = Append(saves, s) /\ hurried' = (hurried \/ Saving)
      /\ UNCHANGED <<file, told, ordered>>
      /\ settings' = [settings EXCEPT !.pressed = @ \cup {kind}]
    BY DEF SaveSettings
<1> HIDE DEF updates, edited
<1>3. /\ DOMAIN s = SaveFields /\ s.kind = kind /\ s.stage = 1
      /\ s.edited = edited /\ s.updates = updates
    BY DEF SettingsRequest, SaveFields
<1> HIDE DEF s
<1>4. GoodSave(s)
    BY <1>1, <1>3 DEF GoodSave
<1>5. ordered /\ ~hurried => SentAsTold(s)
    BY <1>1, <1>3 DEF SavesInv, SavesStand, ToldShown, Has, SentAsTold
<1>6. /\ DOMAIN settings' = DOMAIN settings /\ settings'.config = settings.config
      /\ settings'.form = settings.form /\ settings'.edited = settings.edited
    BY <1>2 DEF SavesInv, SettingsGood
<1>7. SavesGood' /\ SavesStand'
    BY <1>2, <1>3, <1>4, <1>5, <1>6, SentKeepsSaves
<1>8. SettingsGood'
    BY <1>6 DEF SavesInv, SettingsGood
<1> QED
    BY <1>7, <1>8 DEF SavesInv

(* The server reads what was told: a form that was saved before is not     *)
(* under way any more, or has been answered in order.                      *)
LEMMA ReadKeepsSaves ==
    ASSUME SavesInv, NEW i \in DOMAIN saves, ReadConfig(i)
    PROVE  SavesInv'
<1> DEFINE s == [saves[i] EXCEPT !.stage = 2, !.config = file]
<1>1. /\ saves' = [saves EXCEPT ![i] = s] /\ Moves(saves, i, 1)
      /\ UNCHANGED <<file, settings, told, hurried, ordered>>
    BY DEF ReadConfig, streamVars
<1>2. GoodSave(saves[i]) /\ IsList(saves) /\ saves[i].stage = 1
    BY <1>1 DEF SavesInv, SavesGood, Moves
<1>3. /\ DOMAIN s = SaveFields /\ s.stage = 2 /\ s.config = file /\ s.kind = saves[i].kind
      /\ s.edited = saves[i].edited /\ s.updates = saves[i].updates
    BY <1>2 DEF GoodSave, SaveFields
<1> HIDE DEF s
<1>4. /\ saves' = [j \in DOMAIN saves |-> saves'[j]]
      /\ DOMAIN saves' = DOMAIN saves /\ saves'[i] = s
      /\ \A j \in DOMAIN saves : j # i => saves'[j] = saves[j]
    BY <1>1
<1>5. IsList(saves')
    BY <1>2, <1>4, ListOf
<1>6. GoodSave(s)
    BY <1>2, <1>3 DEF GoodSave
<1>7. SavesGood'
    BY <1>4, <1>5, <1>6 DEF SavesInv, SavesGood, GoodSave, Lasts
<1>8. SettingsGood'
    BY <1>1 DEF SavesInv, SettingsGood
<1>9. ASSUME ordered, ~hurried
      PROVE  /\ SavesInOrder' /\ ToldShown' /\ ToldStored'
             /\ \A j \in DOMAIN saves' : SaveStands(saves[j])'
    <2>1. /\ SavesInOrder /\ ToldShown /\ ToldStored
          /\ \A j \in DOMAIN saves : SaveStands(saves[j])
        BY <1>9 DEF SavesInv, SavesStand
    <2>2. \A j \in DOMAIN saves : /\ saves[j].stage \in {1, 2, 3}
                                  /\ j < i => saves[j].stage > 1
                                  /\ j > i => saves[j].stage <= 1
        <3>1. \A j \in DOMAIN saves : saves[j].stage \in {1, 2, 3}
            BY DEF SavesInv, SavesGood, GoodSave
        <3>2. DOMAIN saves = 1..Len(saves) /\ Len(saves) \in Nat
            <4>1. PICK S : saves \in Seq(S)
                BY <1>2 DEF IsList
            <4> QED
                BY <4>1
        <3>3. \A j \in 1..(i - 1) : saves[j].stage > 1
            BY <1>1, <1>9 DEF Moves, InTurn
        <3>4. \A j \in DOMAIN saves : j < i => saves[j].stage > 1
            BY <3>2, <3>3
        <3>5. \A j \in DOMAIN saves : j > i => saves[j].stage <= 1
            BY <1>2, <2>1, <3>2 DEF SavesInOrder
        <3> QED
            BY <3>1, <3>4, <3>5
    <2>3. i \in Nat /\ \A j \in DOMAIN saves : j \in Nat
        <3>1. PICK S : saves \in Seq(S)
            BY <1>2 DEF IsList
        <3> QED
            BY <3>1
    <2>4. ASSUME NEW j \in DOMAIN saves, NEW k \in DOMAIN saves
          PROVE  /\ saves'[j].kind # "get" => k <= j
                 /\ j < k => saves'[j].stage >= saves'[k].stage
        <3>1. saves'[j].kind = saves[j].kind
            BY <1>3, <1>4
        <3>2. ASSUME j < k
              PROVE  saves'[j].stage >= saves'[k].stage
            <4>1. saves[j].stage >= saves[k].stage
                BY <2>1, <3>2 DEF SavesInOrder
            <4>2. CASE j = i
                BY <1>3, <1>4, <2>2, <2>3, <3>2, <4>2
            <4>3. CASE k = i
                BY <1>3, <1>4, <2>2, <2>3, <3>2, <4>3
            <4>4. CASE j # i /\ k # i
                BY <1>4, <4>1, <4>4
            <4> QED
                BY <4>2, <4>3, <4>4
        <3> QED
            BY <2>1, <3>1, <3>2 DEF SavesInOrder
    <2>5. SavesInOrder'
        BY <1>4, <2>4 DEF SavesInOrder
    <2>6. ToldShown'
        BY <1>1, <2>1 DEF ToldShown, Has
    <2>7. ToldStored'
        <3>1. \A j \in DOMAIN saves : \A f : Brings(saves[j], f) => Brings(saves'[j], f)
            BY <1>2, <1>4 DEF Brings
        <3> QED
            BY <1>1, <1>4, <2>1, <3>1 DEF ToldStored, Has, Brings
    <2>8. \A f \in DOMAIN told : Has(file, f)
        <3>1. ASSUME NEW k \in DOMAIN saves, saves[k].kind # "get", saves[k].stage = 3
              PROVE  FALSE
            BY <1>2, <2>1, <2>2, <2>3, <3>1 DEF SavesInOrder
        <3> QED
            BY <2>1, <3>1 DEF ToldStored, Brings
    <2>9. ASSUME NEW j \in DOMAIN saves
          PROVE  SaveStands(saves[j])'
        <3>1. SaveStands(saves[j])
            BY <2>1
        <3>2. CASE j # i
            BY <1>1, <1>4, <3>1, <3>2
            DEF SaveStands, ReadAsTold, SentAsTold, Written, Has, Brings, Lasts
        <3>3. CASE j = i
            BY <1>1, <1>3, <1>4, <2>8, <3>1, <3>3
            DEF SaveStands, ReadAsTold, SentAsTold, Written, Has, Brings, Lasts
        <3> QED
            BY <3>2, <3>3
    <2> QED
        BY <1>4, <2>5, <2>6, <2>7, <2>9
<1>10. SavesStand'
    BY <1>1, <1>9 DEF SavesStand
<1> QED
    BY <1>7, <1>8, <1>10 DEF SavesInv

(* The server merges what was sent into what it had read, and writes it:   *)
(* of what was told nothing else was read, and nothing else was sent.      *)
LEMMA WriteKeepsSaves ==
    ASSUME SavesInv, NEW i \in DOMAIN saves, WriteConfig(i)
    PROVE  SavesInv'
<1> DEFINE merged == MergeConfig(saves[i].config, saves[i].updates)
           s == [saves[i] EXCEPT !.stage = 3, !.config = merged]
<1>1. /\ saves' = [saves EXCEPT ![i] = s] /\ Moves(saves, i, 2)
      /\ file' = IF saves[i].kind = "get" THEN file ELSE merged
      /\ UNCHANGED <<settings, told, hurried, ordered>>
    BY DEF WriteConfig, streamVars
<1>2. GoodSave(saves[i]) /\ IsList(saves) /\ saves[i].stage = 2
    BY <1>1 DEF SavesInv, SavesGood, Moves
<1>3. /\ DOMAIN s = SaveFields /\ s.stage = 3 /\ s.config = merged /\ s.kind = saves[i].kind
      /\ s.edited = saves[i].edited /\ s.updates = saves[i].updates
    BY <1>2 DEF GoodSave, SaveFields
<1>4. /\ DOMAIN merged = DOMAIN saves[i].updates \cup DOMAIN saves[i].config
      /\ \A f \in DOMAIN merged :
            merged[f] = IF f \in DOMAIN saves[i].updates THEN saves[i].updates[f]
                        ELSE saves[i].config[f]
    BY DEF MergeConfig, Filled
<1> HIDE DEF s, merged
<1>5. /\ saves' = [j \in DOMAIN saves |-> saves'[j]]
      /\ DOMAIN saves' = DOMAIN saves /\ saves'[i] = s
      /\ \A j \in DOMAIN saves : j # i => saves'[j] = saves[j]
    BY <1>1
<1>6. IsList(saves')
    BY <1>2, <1>5, ListOf
<1>7. GoodSave(s)
    BY <1>2, <1>3 DEF GoodSave
<1>8. SavesGood'
    BY <1>5, <1>6, <1>7 DEF SavesInv, SavesGood, GoodSave, Lasts
<1>9. SettingsGood'
    BY <1>1 DEF SavesInv, SettingsGood
<1>10. ASSUME ordered, ~hurried
       PROVE  /\ SavesInOrder' /\ ToldShown' /\ ToldStored'
              /\ \A j \in DOMAIN saves' : SaveStands(saves[j])'
    <2>1. /\ SavesInOrder /\ ToldShown /\ ToldStored
          /\ \A j \in DOMAIN saves : SaveStands(saves[j])
        BY <1>10 DEF SavesInv, SavesStand
    <2>2. DOMAIN saves = 1..Len(saves) /\ Len(saves) \in Nat
        <3>1. PICK S : saves \in Seq(S)
            BY <1>2 DEF IsList
        <3> QED
            BY <3>1
    <2>3. /\ \A j \in DOMAIN saves : saves[j].stage \in {1, 2, 3}
          /\ \A j \in DOMAIN saves : j < i => saves[j].stage = 3
        <3>1. \A j \in DOMAIN saves : saves[j].stage \in {1, 2, 3}
            BY DEF SavesInv, SavesGood, GoodSave
        <3>2. \A j \in 1..(i - 1) : saves[j].stage > 2
            BY <1>1, <1>10 DEF Moves, InTurn
        <3>3. \A j \in DOMAIN saves : j < i => j \in 1..(i - 1)
            BY <2>2
        <3> QED
            BY <3>1, <3>2, <3>3
    <2>4. ASSUME NEW j \in DOMAIN saves, NEW k \in DOMAIN saves
          PROVE  /\ saves'[j].kind # "get" => k <= j
                 /\ j < k => saves'[j].stage >= saves'[k].stage
        <3>1. saves'[j].kind = saves[j].kind
            BY <1>3, <1>5
        <3>2. ASSUME j < k
              PROVE  saves'[j].stage >= saves'[k].stage
            <4>1. saves[j].stage >= saves[k].stage
                BY <2>1, <3>2 DEF SavesInOrder
            <4>2. CASE j = i
                BY <1>3, <1>5, <2>2, <2>3, <3>2, <4>2
            <4>3. CASE k = i
                BY <1>3, <1>5, <2>2, <2>3, <3>2, <4>3
            <4>4. CASE j # i /\ k # i
                BY <1>5, <4>1, <4>4
            <4> QED
                BY <4>2, <4>3, <4>4
        <3> QED
            BY <2>1, <3>1, <3>2 DEF SavesInOrder
    <2>5. SavesInOrder'
        BY <1>5, <2>4 DEF SavesInOrder
    <2>6. ToldShown'
        BY <1>1, <2>1 DEF ToldShown, Has
    <2>7. ReadAsTold(saves[i]) /\ SentAsTold(saves[i])
        BY <2>1 DEF SaveStands
    <2>8. ASSUME NEW f \in DOMAIN told
          PROVE  Has(merged, f) \/ f \in DOMAIN s.edited
        <3>1. Has(saves[i].config, f)
            BY <1>2, <2>7 DEF ReadAsTold, Brings
        <3>2. CASE f \in DOMAIN saves[i].updates
            BY <1>3, <1>4, <2>7, <3>2 DEF SentAsTold, Has
        <3>3. CASE f \notin DOMAIN saves[i].updates
            BY <1>4, <3>1, <3>3 DEF Has
        <3> QED
            BY <3>2, <3>3
    <2>9. s.kind = "get" => DOMAIN s.edited = {}
        BY <1>2, <1>3 DEF GoodSave
    <2>10. ToldStored'
        <3>1. CASE s.kind = "get"
            <4>1. \A j \in DOMAIN saves : \A f : Brings(saves[j], f) => Brings(saves'[j], f)
                BY <1>2, <1>5 DEF Brings
            <4> QED
                BY <1>1, <1>3, <1>5, <2>1, <3>1, <4>1 DEF ToldStored, Has, Brings
        <3>2. CASE s.kind # "get"
            <4>1. \A f \in DOMAIN told : Has(merged, f) \/ Brings(saves'[i], f)
                BY <1>3, <1>5, <2>8, <3>2 DEF Brings
            <4>2. file' = merged
                BY <1>1, <1>3, <3>2
            <4> QED
                BY <1>1, <1>5, <4>1, <4>2 DEF ToldStored, Has, Brings
        <3> QED
            BY <3>1, <3>2
    <2>11. ASSUME NEW j \in DOMAIN saves
           PROVE  SaveStands(saves[j])'
        <3>1. CASE j = i
            <4>1. ReadAsTold(saves[j])'
                BY <1>1, <1>3, <1>5, <2>8, <2>9, <3>1 DEF ReadAsTold, Has, Brings
            <4>2. SentAsTold(saves[j])'
                BY <1>1, <1>3, <1>5, <2>7, <3>1 DEF SentAsTold
            <4>3. ASSUME NEW f, Lasts(s.edited, f)
                  PROVE  /\ f \in DOMAIN merged /\ merged[f] = s.edited[f]
                         /\ file' = merged
                <5>1. f \in DOMAIN saves[i].updates /\ saves[i].updates[f] = s.edited[f]
                    BY <1>2, <1>3, <4>3 DEF GoodSave
                <5>2. s.kind # "get"
                    BY <2>9, <4>3 DEF Lasts
                <5> QED
                    BY <1>1, <1>3, <1>4, <5>1, <5>2
            <4>4. Written(saves[j])'
                BY <1>3, <1>5, <3>1, <4>3 DEF Written, Lasts
            <4> QED
                BY <4>1, <4>2, <4>4 DEF SaveStands
        <3>2. CASE j # i
            <4>1. SaveStands(saves[j]) /\ saves'[j] = saves[j]
                BY <1>5, <2>1, <3>2
            <4>2. ReadAsTold(saves[j])' /\ SentAsTold(saves[j])'
                BY <1>1, <4>1 DEF SaveStands, ReadAsTold, SentAsTold, Has, Brings
            <4>3. CASE s.kind = "get"
                <5>1. file' = file
                    BY <1>1, <1>3, <4>3
                <5> QED
                    BY <4>1, <4>2, <5>1 DEF SaveStands, Written, Lasts
            <4>4. CASE s.kind # "get"
                <5>1. saves[j].stage = 3 => saves[j].kind = "get"
                    <6>1. j <= i
                        BY <1>3, <2>1, <4>4 DEF SavesInOrder
                    <6>2. saves[j].kind # "get" => i <= j
                        BY <2>1 DEF SavesInOrder
                    <6> QED
                        BY <2>2, <3>2, <6>1, <6>2
                <5>2. saves[j].kind = "get" => DOMAIN saves[j].edited = {}
                    BY DEF SavesInv, SavesGood, GoodSave
                <5>3. Written(saves[j])'
                    BY <4>1, <5>1, <5>2 DEF Written, Lasts
                <5> QED
                    BY <4>2, <5>3 DEF SaveStands
            <4> QED
                BY <4>3, <4>4
        <3> QED
            BY <3>1, <3>2
    <2> QED
        BY <1>5, <2>5, <2>6, <2>10, <2>11
<1>11. SavesStand'
    BY <1>1, <1>10 DEF SavesStand
<1> QED
    BY <1>8, <1>9, <1>11 DEF SavesInv

(* A form that is refused is the last request, and stored nothing.         *)
LEMMA RefuseKeepsSaves ==
    ASSUME SavesInv, NEW i \in DOMAIN saves, RefuseConfig(i)
    PROVE  SavesInv'
<1> DEFINE rest == RemoveAt(saves, i)
<1>1. /\ saves' = rest /\ saves[i].kind = "runtime" /\ saves[i].stage = 2
      /\ settings' = [settings EXCEPT !.pressed = @ \ {"runtime"}]
      /\ UNCHANGED <<file, told, hurried, ordered>>
    BY DEF RefuseConfig, Moves, streamVars
<1>2. IsList(saves)
    BY DEF SavesInv, SavesGood
<1>3. /\ IsList(rest) /\ Len(saves) \in Nat /\ DOMAIN saves = 1..Len(saves)
      /\ DOMAIN rest = 1..(Len(saves) - 1)
      /\ \A j \in DOMAIN rest : rest[j] = IF j < i THEN saves[j] ELSE saves[j + 1]
    BY <1>2, RemovedAt
<1>4. SavesGood'
    <2>1. \A j \in DOMAIN rest : \E k \in DOMAIN saves : rest[j] = saves[k]
        BY <1>2, ListRemove
    <2> HIDE DEF rest
    <2> QED
        BY <1>1, <1>3, <2>1 DEF SavesInv, SavesGood, GoodSave, Lasts
<1> HIDE DEF rest
<1>5. /\ DOMAIN settings' = DOMAIN settings /\ settings'.config = settings.config
      /\ settings'.form = settings.form /\ settings'.edited = settings.edited
    BY <1>1 DEF SavesInv, SettingsGood
<1>6. SettingsGood'
    BY <1>5 DEF SavesInv, SettingsGood
<1>7. ASSUME ordered, ~hurried
      PROVE  /\ SavesInOrder' /\ ToldShown' /\ ToldStored'
             /\ \A j \in DOMAIN saves' : SaveStands(saves[j])'
    <2>1. /\ SavesInOrder /\ ToldShown /\ ToldStored
          /\ \A j \in DOMAIN saves : SaveStands(saves[j])
        BY <1>7 DEF SavesInv, SavesStand
    <2>2. i = Len(saves)
        <3>1. \A j \in DOMAIN saves : j <= i
            BY <1>1, <2>1 DEF SavesInOrder
        <3> QED
            BY <1>3, <3>1
    <2>3. \A j \in DOMAIN rest : j \in DOMAIN saves /\ rest[j] = saves[j]
        BY <1>3, <2>2
    <2>4. SavesInOrder'
        BY <1>1, <2>1, <2>3 DEF SavesInOrder
    <2>5. ToldShown'
        BY <1>1, <1>5, <2>1 DEF ToldShown, Has
    <2>6. ToldStored'
        <3>1. \A f : \A k \in DOMAIN saves : Brings(saves[k], f) => k \in DOMAIN rest
            BY <1>1, <1>3, <2>2 DEF Brings
        <3> QED
            BY <1>1, <2>1, <2>3, <3>1 DEF ToldStored, Has, Brings
    <2>7. ASSUME NEW j \in DOMAIN saves'
          PROVE  SaveStands(saves[j])'
        <3>1. saves'[j] = saves[j] /\ SaveStands(saves[j])
            BY <1>1, <2>1, <2>3
        <3> QED
            BY <1>1, <3>1 DEF SaveStands, ReadAsTold, SentAsTold, Written, Has, Brings, Lasts
    <2> QED
        BY <2>4, <2>5, <2>6, <2>7
<1>8. SavesStand'
    BY <1>1, <1>7 DEF SavesStand
<1> QED
    BY <1>4, <1>6, <1>8 DEF SavesInv

(* A form that was saved is told of when it is the only request there is;  *)
(* what it lets fall is not told any more.                                 *)
LEMMA ReceiveKeepsSaves ==
    ASSUME SavesInv, NEW i \in DOMAIN saves, ReceiveSettings(i)
    PROVE  SavesInv'
<1> DEFINE rest == RemoveAt(saves, i)
           s == saves[i]
           lasting == Lasting(s.edited)
           kept == Restrict(told, DOMAIN told \ DOMAIN s.edited)
<1>1. /\ Moves(saves, i, 3) /\ saves' = rest
      /\ settings' = RenderSettings(s.config, s.kind = "get")
      /\ told' = Filled(lasting, kept)
      /\ UNCHANGED <<file, hurried, ordered>>
    BY DEF ReceiveSettings, streamVars
<1>2. GoodSave(s) /\ s.stage = 3 /\ IsList(saves)
    BY <1>1 DEF SavesInv, SavesGood, Moves
<1>3. /\ IsList(rest) /\ Len(saves) \in Nat /\ DOMAIN saves = 1..Len(saves)
      /\ DOMAIN rest = 1..(Len(saves) - 1)
      /\ \A j \in DOMAIN rest : rest[j] = IF j < i THEN saves[j] ELSE saves[j + 1]
    BY <1>2, RemovedAt
<1>4. /\ DOMAIN kept = DOMAIN told \ DOMAIN s.edited
      /\ \A f \in DOMAIN kept : kept[f] = told[f]
    BY DEF Restrict
<1>5. \A f : /\ f \in DOMAIN lasting <=> Lasts(s.edited, f)
             /\ Lasts(s.edited, f) => lasting[f] = s.edited[f]
    BY LastingIs
<1> HIDE DEF rest, lasting, kept
<1>6. /\ DOMAIN told' = DOMAIN lasting \cup DOMAIN kept
      /\ \A f \in DOMAIN told' : told'[f] = IF f \in DOMAIN lasting THEN lasting[f] ELSE kept[f]
    BY <1>1 DEF Filled
<1>7. SavesGood'
    <2>1. \A j \in DOMAIN rest : \E k \in DOMAIN saves : rest[j] = saves[k]
        BY <1>2, ListRemove DEF rest
    <2> QED
        BY <1>1, <1>3, <2>1 DEF SavesInv, SavesGood, GoodSave, Lasts
<1>8. SettingsGood' /\ settings'.config = s.config
    BY <1>1 DEF RenderSettings, SettingsGood
<1>9. ASSUME ordered, ~hurried
      PROVE  /\ SavesInOrder' /\ ToldShown' /\ ToldStored'
             /\ \A j \in DOMAIN saves' : SaveStands(saves[j])'
    <2>1. /\ SavesInOrder /\ ToldShown /\ ToldStored
          /\ \A j \in DOMAIN saves : SaveStands(saves[j])
        BY <1>9 DEF SavesInv, SavesStand
    <2>2. ReadAsTold(s) /\ Written(s)
        BY <2>1 DEF SaveStands
    <2>3. i = 1
        BY <1>1, <1>2, <1>9, FirstReply DEF SavesInv, SavesGood, GoodSave
    <2>4. CASE s.kind = "get"
        <3>1. DOMAIN s.edited = {}
            BY <1>2, <2>4 DEF GoodSave
        <3>2. DOMAIN told' = DOMAIN told /\ \A f \in DOMAIN told : told'[f] = told[f]
            BY <1>4, <1>5, <1>6, <3>1 DEF Lasts
        <3>3. \A j \in DOMAIN rest : j + 1 \in DOMAIN saves /\ rest[j] = saves[j + 1]
            BY <1>3, <2>3
        <3>4. SavesInOrder'
            <4>1. ASSUME NEW j \in DOMAIN rest, NEW k \in DOMAIN rest
                  PROVE  /\ rest[j].kind # "get" => k <= j
                         /\ j < k => rest[j].stage >= rest[k].stage
                <5>1. j \in Nat /\ k \in Nat
                    BY <1>3
                <5>2. /\ saves[j + 1].kind # "get" => k + 1 <= j + 1
                      /\ j + 1 < k + 1 => saves[j + 1].stage >= saves[k + 1].stage
                    BY <2>1, <3>3 DEF SavesInOrder
                <5> QED
                    BY <3>3, <5>1, <5>2
            <4> QED
                BY <1>1, <4>1 DEF SavesInOrder
        <3>5. ToldShown'
            BY <1>2, <1>8, <2>2, <2>4, <3>2 DEF ToldShown, ReadAsTold, Brings, Has
        <3>6. ToldStored'
            <4>1. ASSUME NEW f \in DOMAIN told
                  PROVE  Has(file, f) \/ \E j \in DOMAIN rest : Brings(rest[j], f)
                <5>1. CASE Has(file, f)
                    BY <5>1
                <5>2. ASSUME NEW k \in DOMAIN saves, Brings(saves[k], f)
                      PROVE  \E j \in DOMAIN rest : Brings(rest[j], f)
                    <6>1. k # 1
                        BY <2>3, <2>4, <5>2 DEF Brings
                    <6>2. k - 1 \in DOMAIN rest /\ rest[k - 1] = saves[k]
                        BY <1>3, <2>3, <6>1
                    <6> QED
                        BY <5>2, <6>2
                <5> QED
                    BY <2>1, <5>1, <5>2 DEF ToldStored
            <4> QED
                BY <1>1, <3>2, <4>1 DEF ToldStored, Has, Brings
        <3>7. ASSUME NEW j \in DOMAIN saves'
              PROVE  SaveStands(saves[j])'
            <4>1. saves'[j] = saves[j + 1] /\ SaveStands(saves[j + 1])
                BY <1>1, <2>1, <3>3
            <4> QED
                BY <1>1, <3>2, <4>1
                DEF SaveStands, ReadAsTold, SentAsTold, Written, Has, Brings, Lasts
        <3> QED
            BY <3>4, <3>5, <3>6, <3>7
    <2>5. CASE s.kind # "get"
        <3>1. \A k \in DOMAIN saves : k = i
            BY <1>3, <2>1, <2>3, <2>5 DEF SavesInOrder
        <3>2. DOMAIN saves' = {}
            BY <1>1, <1>3, <2>3, <3>1
        <3>3. ASSUME NEW f \in DOMAIN told'
              PROVE  Has(settings.config, f)' /\ Has(file, f)'
            <4>1. CASE Lasts(s.edited, f)
                <5>1. /\ f \in DOMAIN s.config /\ s.config[f] = s.edited[f]
                      /\ f \in DOMAIN file /\ file[f] = s.edited[f]
                    BY <1>2, <2>2, <4>1 DEF Written
                <5>2. told'[f] = s.edited[f]
                    BY <1>5, <1>6, <3>3, <4>1
                <5> QED
                    BY <1>1, <1>8, <5>1, <5>2 DEF Has
            <4>2. CASE ~Lasts(s.edited, f)
                <5>1. f \in DOMAIN told /\ f \notin DOMAIN s.edited /\ told'[f] = told[f]
                    BY <1>4, <1>5, <1>6, <3>3, <4>2
                <5>2. Has(s.config, f)
                    BY <1>2, <2>2, <5>1 DEF ReadAsTold, Brings
                <5>3. Has(file, f)
                    BY <2>1, <3>1, <5>1 DEF ToldStored, Brings
                <5> QED
                    BY <1>1, <1>8, <5>1, <5>2, <5>3 DEF Has
            <4> QED
                BY <4>1, <4>2
        <3>4. SavesInOrder'
            BY <3>2 DEF SavesInOrder
        <3>5. ToldShown'
            BY <3>3 DEF ToldShown
        <3>6. ToldStored'
            BY <3>3 DEF ToldStored
        <3> QED
            BY <3>2, <3>4, <3>5, <3>6
    <2> QED
        BY <2>4, <2>5
<1>10. SavesStand'
    BY <1>1, <1>9 DEF SavesStand
<1> QED
    BY <1>7, <1>8, <1>10 DEF SavesInv

(* What was being saved when the server or the connection went is told no  *)
(* more.                                                                   *)
LEMMA InterruptedKeepsSaves ==
    ASSUME SavesInv, Interrupted
    PROVE  SavesInv'
<1>1. /\ saves' = <<>> /\ settings' = [settings EXCEPT !.pressed = {}]
      /\ told' = Restrict(told, DOMAIN told \ UNION {DOMAIN saves[i].edited : i \in DOMAIN saves})
      /\ UNCHANGED <<file, hurried, ordered>>
    BY DEF Interrupted, SettingsCallsFail
<1>2. DOMAIN saves' = {} /\ IsList(saves')
    BY <1>1, ListEmpty
<1>3. /\ \A f \in DOMAIN told' : /\ f \in DOMAIN told /\ told'[f] = told[f]
                                 /\ \A i \in DOMAIN saves : f \notin DOMAIN saves[i].edited
    BY <1>1 DEF Restrict
<1>4. /\ DOMAIN settings' = DOMAIN settings /\ settings'.config = settings.config
      /\ settings'.form = settings.form /\ settings'.edited = settings.edited
    BY <1>1 DEF SavesInv, SettingsGood
<1>5. SavesGood' /\ SettingsGood'
    BY <1>2, <1>4 DEF SavesInv, SavesGood, SettingsGood
<1>6. ASSUME ordered, ~hurried
      PROVE  SavesInOrder' /\ ToldShown' /\ ToldStored'
    <2>1. ToldShown /\ ToldStored
        BY <1>6 DEF SavesInv, SavesStand
    <2>2. SavesInOrder'
        BY <1>2 DEF SavesInOrder
    <2>3. ToldShown'
        BY <1>3, <1>4, <2>1 DEF ToldShown, Has
    <2>4. \A f \in DOMAIN told' : Has(file, f)
        BY <1>3, <2>1 DEF ToldStored, Brings
    <2>5. ToldStored'
        BY <1>1, <1>3, <2>4 DEF ToldStored, Has
    <2> QED
        BY <2>2, <2>3, <2>5
<1>7. SavesStand'
    BY <1>1, <1>2, <1>6 DEF SavesStand
<1> QED
    BY <1>5, <1>7 DEF SavesInv

LEMMA SettingsPageKeepsSaves ==
    ASSUME SavesInv, SettingsPageNext
    PROVE  SavesInv'
<1>1. CASE ShowSettings
    BY <1>1, ShowKeepsSaves
<1>2. ASSUME NEW f, NEW value, EditField(f, value)
      PROVE  SavesInv'
    BY <1>2, EditKeepsSaves
<1>3. ASSUME NEW kind \in {"runtime", "models"}, SaveSettings(kind)
      PROVE  SavesInv'
    BY <1>3, SaveKeepsSaves
<1>4. ASSUME NEW i \in DOMAIN saves, ReadConfig(i)
      PROVE  SavesInv'
    BY <1>4, ReadKeepsSaves
<1>5. ASSUME NEW i \in DOMAIN saves, WriteConfig(i)
      PROVE  SavesInv'
    BY <1>5, WriteKeepsSaves
<1>6. ASSUME NEW i \in DOMAIN saves, ReceiveSettings(i)
      PROVE  SavesInv'
    BY <1>6, ReceiveKeepsSaves
<1>7. ASSUME NEW i \in DOMAIN saves, RefuseConfig(i)
      PROVE  SavesInv'
    BY <1>7, RefuseKeepsSaves
<1> QED
    BY <1>1, <1>2, <1>3, <1>4, <1>5, <1>6, <1>7 DEF SettingsPageNext

LEMMA NextKeepsSavesInv ==
    ASSUME PageInv, SavesInv, [Next]_vars
    PROVE  SavesInv'
<1>1. CASE Interrupted
    BY <1>1, InterruptedKeepsSaves
<1>2. CASE SettingsPageNext
    BY <1>2, SettingsPageKeepsSaves
<1>3. CASE Deliver
    BY <1>3, SavesSame DEF Deliver
<1>4. ASSUME UNCHANGED settingsVars, ~Deliver, ~Interrupted
      PROVE  SavesInv'
    <2>1. Announced
        BY <1>4, ChangesAreAnnounced DEF PageInv, RunsInv
    <2>2. UNCHANGED ordered
        BY <2>1 DEF Announced
    <2> QED
        BY <1>4, <2>2, SavesSame
<1> QED
    BY <1>1, <1>2, <1>3, <1>4 DEF Next, vars

LEMMA SavesInvStores ==
    ASSUME SavesInv
    PROVE  SavesTakeEffect
    BY DEF SavesInv, SavesStand, ToldStored, Has, Brings, SavesTakeEffect

(* What the page said is saved is in the configuration: saving one form    *)
(* does not bring back what the other had before, for any roles and texts, *)
(* as long as replies come in order and the operator waits for a save.     *)
THEOREM SavedIsStored == Spec => []SavesTakeEffect
<1>1. Init => PageInv /\ AnswerInv /\ SavesInv
    BY InitPageInv, InitAnswerInv, InitSavesInv
<1>2. PageInv /\ AnswerInv /\ SavesInv /\ [Next]_vars => (PageInv /\ AnswerInv /\ SavesInv)'
    BY NextKeepsPageInv, NextKeepsAnswerInv, NextKeepsSavesInv
<1>3. PageInv /\ AnswerInv /\ SavesInv => SavesTakeEffect
    BY SavesInvStores
<1> QED
    BY <1>1, <1>2, <1>3, PTL DEF Spec

-------------------------------------------------------------------------------
(* The types of all parts of the page. *)

Docker == [daemon : BOOLEAN, image : BOOLEAN]
Panels ==
    [docker : Docker, build : BuildStatus, ready : BOOLEAN, failed : BOOLEAN,
     polling : BOOLEAN, pressed : BOOLEAN, startOff : BOOLEAN]

(* A request for the setup brings back a status of docker and the build.   *)
Status(s) == s.docker \in Docker /\ s.build \in BuildStatus

SetupTypes ==
    /\ docker \in Docker /\ build \in BuildStatus /\ setup \in Panels
    /\ \A i \in DOMAIN probes : Status(probes[i])

StartTypes == start.enabled => start.branch \in start.list

ConfigFields == Fields("runtime") \cup Roles

(* What a form sends, and what is merged with it, are fields there are.    *)
FileTypes ==
    /\ DOMAIN file \subseteq ConfigFields
    /\ \A i \in DOMAIN saves :
          DOMAIN saves[i].updates \subseteq ConfigFields /\ DOMAIN saves[i].config \subseteq ConfigFields

(* The detail that is shown, also once the roles are listed again, is that *)
(* of a role; so is what a request brings back.                            *)
DocTypes(d) ==
    /\ DOMAIN d = DocFields /\ d.role \in Roles
    /\ d.stage = 3 => d.doc.role \in Roles
    /\ d.kind \notin {"read", "save", "reset"} => guidance.doc.role \in Roles

GuidanceTypes ==
    /\ guidance.open \/ DOMAIN docs # {} => guidance.role \in Roles
    /\ guidance.open => guidance.doc.role \in Roles
    /\ \A i \in DOMAIN docs : DocTypes(docs[i])

TypeInv == SetupTypes /\ StartTypes /\ FileTypes /\ GuidanceTypes

LEMMA InitTypeInv ==
    ASSUME Init
    PROVE  TypeInv
<1>1. DOMAIN probes = {} /\ DOMAIN saves = {} /\ DOMAIN docs = {}
    BY ListEmpty DEF Init, SetupInit, SettingsInit, GuidanceInit
<1>2. docker \in Docker /\ build = "idle"
    BY DEF Init, SetupInit, Docker
<1>3. Probed \in Docker /\ Ready \in BOOLEAN
    BY <1>2 DEF Probed, Ready, Docker
<1>4. SetupTypes
    BY <1>1, <1>2, <1>3 DEF Init, SetupInit, SetupTypes, Panels, BuildStatus
<1>5. StartTypes
    BY DEF Init, StartInit, StartTypes
<1>6. FileTypes
    BY <1>1 DEF Init, SettingsInit, FileTypes, ConfigFields, Fields, Filled
<1>7. GuidanceTypes
    BY <1>1 DEF Init, GuidanceInit, GuidanceTypes
<1> QED
    BY <1>4, <1>5, <1>6, <1>7 DEF TypeInv

LEMMA TypesSame ==
    ASSUME TypeInv
    PROVE  /\ UNCHANGED setupVars => SetupTypes'
           /\ UNCHANGED start => StartTypes'
           /\ UNCHANGED <<file, saves>> => FileTypes'
           /\ UNCHANGED <<guidance, docs>> => GuidanceTypes'
<1>1. ASSUME UNCHANGED setupVars
      PROVE  SetupTypes'
    BY <1>1 DEF TypeInv, SetupTypes, Status, Panels, Docker, BuildStatus, setupVars
<1>2. ASSUME UNCHANGED start
      PROVE  StartTypes'
    BY <1>2 DEF TypeInv, StartTypes
<1>3. ASSUME UNCHANGED <<file, saves>>
      PROVE  FileTypes'
    BY <1>3 DEF TypeInv, FileTypes, ConfigFields, Fields
<1>4. ASSUME UNCHANGED <<guidance, docs>>
      PROVE  GuidanceTypes'
    BY <1>4 DEF TypeInv, GuidanceTypes, DocTypes
<1> QED
    BY <1>1, <1>2, <1>3, <1>4

(* The setup panel. *)
ProbesTyped == IsList(probes) /\ \A i \in DOMAIN probes : Status(probes[i])

LEMMA ProbeIsStatus ==
    ASSUME SetupTypes
    PROVE  Probed \in Docker /\ Ready \in BOOLEAN /\ \A kind : Status(ProbeRequest(kind))
<1>1. Probed \in Docker /\ Ready \in BOOLEAN
    BY DEF SetupTypes, Probed, Ready, Docker
<1> QED
    BY <1>1 DEF SetupTypes, ProbeRequest, Status

LEMMA ProbesTypedAfter ==
    ASSUME SetupTypes, IsList(probes)
    PROVE  /\ \A s : Status(s) /\ probes' = Append(probes, s) => ProbesTyped'
           /\ \A i \in DOMAIN probes : probes' = RemoveAt(probes, i) => ProbesTyped'
           /\ UNCHANGED probes => ProbesTyped'
           /\ \A i \in DOMAIN probes : \A s :
                 Status(s) /\ probes' = Append(RemoveAt(probes, i), s) => ProbesTyped'
<1>1. ASSUME NEW t, IsList(t), \A j \in DOMAIN t : Status(t[j]), NEW s, Status(s),
             probes' = Append(t, s)
      PROVE  ProbesTyped'
    BY <1>1, ListAppend DEF ProbesTyped, Status, Docker, BuildStatus
<1>2. ASSUME NEW i \in DOMAIN probes
      PROVE  IsList(RemoveAt(probes, i)) /\ \A j \in DOMAIN RemoveAt(probes, i) : Status(RemoveAt(probes, i)[j])
    BY <1>2, ListRemove DEF SetupTypes
<1>3. ASSUME NEW i \in DOMAIN probes, probes' = RemoveAt(probes, i)
      PROVE  ProbesTyped'
    BY <1>2, <1>3 DEF ProbesTyped, Status, Docker, BuildStatus
<1>4. ASSUME UNCHANGED probes
      PROVE  ProbesTyped'
    BY <1>4 DEF SetupTypes, ProbesTyped, Status, Docker, BuildStatus
<1>5. ASSUME NEW s, Status(s), probes' = Append(probes, s)
      PROVE  ProbesTyped'
    BY <1>1, <1>5 DEF SetupTypes
<1>6. ASSUME NEW i \in DOMAIN probes, NEW s, Status(s), probes' = Append(RemoveAt(probes, i), s)
      PROVE  ProbesTyped'
    BY <1>1, <1>2, <1>6
<1> QED
    BY <1>3, <1>4, <1>5, <1>6

LEMMA SetupTypesAre ==
    ASSUME docker' \in Docker, build' \in BuildStatus, setup' \in Panels, ProbesTyped'
    PROVE  SetupTypes'
    BY DEF SetupTypes, ProbesTyped, Status, Panels, Docker, BuildStatus

(* A request is moved on with a status, or none. *)
LEMMA ProbesMoved ==
    ASSUME SetupTypes, IsList(probes), \A j \in DOMAIN probes : DOMAIN probes[j] = ProbeFields,
           NEW i \in DOMAIN probes,
           \/ probes' = [probes EXCEPT ![i].stage = 2, ![i].docker = Probed]
           \/ probes' = [probes EXCEPT ![i].stage = 3, ![i].build = build]
           \/ probes' = [probes EXCEPT ![i].stage = 3]
    PROVE  ProbesTyped'
<1>1. probes' = [j \in DOMAIN probes |-> probes'[j]]
    OBVIOUS
<1>2. IsList(probes') /\ DOMAIN probes' = DOMAIN probes
    BY <1>1, ListOf
<1>3. \A j \in DOMAIN probes : Status(probes'[j])
    BY ProbeIsStatus DEF SetupTypes, Status, ProbeFields
<1> QED
    BY <1>2, <1>3 DEF ProbesTyped, Status, Docker, BuildStatus

LEMMA SetupPageKeepsTypes ==
    ASSUME SetupTypes, ProbesInv, SetupPageNext
    PROVE  SetupTypes'
<1>1. /\ IsList(probes) /\ \A j \in DOMAIN probes : DOMAIN probes[j] = ProbeFields
      /\ docker \in Docker /\ build \in BuildStatus /\ setup \in Panels
    BY DEF SetupTypes, ProbesInv
<1>2. ASSUME RefreshSetup \/ PollSetup
      PROVE  SetupTypes'
    <2>1. /\ probes' = Append(probes, ProbeRequest("setup"))
          /\ UNCHANGED <<docker, build, setup>>
        BY <1>2 DEF RefreshSetup, PollSetup, LoadSetup
    <2>2. ProbesTyped'
        BY <1>1, <2>1, ProbeIsStatus, ProbesTypedAfter
    <2> QED
        BY <1>1, <2>1, <2>2, SetupTypesAre
<1>3. ASSUME PressBuild
      PROVE  SetupTypes'
    <2>1. /\ probes' = Append(probes, ProbeRequest("build"))
          /\ UNCHANGED <<docker, build>> /\ setup' = [setup EXCEPT !.pressed = TRUE]
        BY <1>3 DEF PressBuild
    <2>2. ProbesTyped'
        BY <1>1, <2>1, ProbeIsStatus, ProbesTypedAfter
    <2>3. setup' \in Panels
        BY <1>1, <2>1 DEF Panels
    <2> QED
        BY <1>1, <2>1, <2>2, <2>3, SetupTypesAre
<1>4. ASSUME RunnerBuildEnds \/ DockerChanges
      PROVE  SetupTypes'
    <2>1. UNCHANGED <<probes, setup>> /\ build' \in {build, "succeeded", "failed"}
        BY <1>4 DEF RunnerBuildEnds, DockerChanges
    <2>2. docker' \in Docker
        BY <1>1, <1>4 DEF RunnerBuildEnds, DockerChanges, Docker
    <2>3. ProbesTyped'
        BY <1>1, <2>1, ProbesTypedAfter
    <2>4. build' \in BuildStatus
        BY <1>1, <2>1 DEF BuildStatus
    <2> QED
        BY <1>1, <2>1, <2>2, <2>3, <2>4, SetupTypesAre
<1>5. ASSUME NEW i \in DOMAIN probes, ProbeDocker(i) \/ SetupStatus(i) \/ ServeBuild(i)
      PROVE  SetupTypes'
    <2>1. /\ \/ probes' = [probes EXCEPT ![i].stage = 2, ![i].docker = Probed]
             \/ probes' = [probes EXCEPT ![i].stage = 3, ![i].build = build]
             \/ probes' = [probes EXCEPT ![i].stage = 3]
          /\ UNCHANGED <<docker, setup>> /\ build' \in {build, "building"}
        BY <1>5 DEF ProbeDocker, SetupStatus, ServeBuild, StartRunnerBuild
    <2>2. ProbesTyped'
        BY <1>1, <2>1, ProbesMoved
    <2>3. build' \in BuildStatus
        BY <1>1, <2>1 DEF BuildStatus
    <2> QED
        BY <1>1, <2>1, <2>2, <2>3, SetupTypesAre
<1>6. ASSUME NEW i \in DOMAIN probes, ReceiveSetup(i)
      PROVE  SetupTypes'
    <2>1. /\ ShowSetup(probes[i]) /\ probes' = RemoveAt(probes, i)
          /\ UNCHANGED <<docker, build>>
        BY <1>6 DEF ReceiveSetup
    <2>2. ProbesTyped'
        BY <1>1, <2>1, ProbesTypedAfter
    <2>3. probes[i].docker \in Docker /\ probes[i].build \in BuildStatus
        BY DEF SetupTypes, Status
    <2>4. IsReady(probes[i]) \in BOOLEAN
        BY <2>3 DEF IsReady, Docker
    <2>5. setup' \in Panels
        BY <2>1, <2>3, <2>4 DEF ShowSetup, Panels
    <2> QED
        BY <1>1, <2>1, <2>2, <2>5, SetupTypesAre
<1>7. ASSUME NEW i \in DOMAIN probes, ReceiveBuild(i)
      PROVE  SetupTypes'
    <2>1. /\ probes' = Append(RemoveAt(probes, i), ProbeRequest("setup"))
          /\ UNCHANGED <<docker, build, setup>>
        BY <1>7 DEF ReceiveBuild
    <2>2. ProbesTyped'
        BY <1>1, <2>1, ProbeIsStatus, ProbesTypedAfter
    <2> QED
        BY <1>1, <2>1, <2>2, SetupTypesAre
<1> QED
    BY <1>2, <1>3, <1>4, <1>5, <1>6, <1>7 DEF SetupPageNext

(* Other parts of the page load the setup, or have the start button wait.  *)
LEMMA SetupLoadedKeepsTypes ==
    ASSUME SetupTypes, ProbesInv, UNCHANGED <<docker, build, setup>>,
           LoadSetup \/ UNCHANGED probes
    PROVE  SetupTypes'
<1>1. ProbesTyped'
    BY ProbeIsStatus, ProbesTypedAfter DEF LoadSetup, ProbesInv
<1> QED
    BY <1>1, SetupTypesAre DEF SetupTypes

LEMMA StartFormKeepsTypes ==
    ASSUME SetupTypes, StartTypes, ProbesInv, BranchInv, StartFormNext
    PROVE  SetupTypes' /\ StartTypes'
<1>1. docker \in Docker /\ build \in BuildStatus /\ setup \in Panels
    BY DEF SetupTypes
<1>2. /\ UNCHANGED <<docker, build, probes>>
      /\ \/ setup' = setup
         \/ setup' = [setup EXCEPT !.startOff = TRUE]
         \/ setup' = [setup EXCEPT !.startOff = ~setup.ready]
    BY DEF StartFormNext, LoadProjectBranches, SubmitStart, ListLocalBranches, ReceiveBranches,
           CheckStart, ServeStart, ReceiveStart, setupVars
<1>3. setup' \in Panels
    BY <1>1, <1>2 DEF Panels
<1>4. ProbesTyped'
    BY <1>2, ProbesTypedAfter DEF ProbesInv
<1>5. SetupTypes'
    BY <1>1, <1>2, <1>3, <1>4, SetupTypesAre
<1>6. ASSUME NEW p, LoadProjectBranches(p)
      PROVE  StartTypes'
    BY <1>6 DEF LoadProjectBranches, BranchesLoading, StartTypes
<1>7. ASSUME NEW i, ReceiveBranches(i)
      PROVE  StartTypes'
    BY <1>7 DEF ReceiveBranches, BranchInv, BranchSelect, StartTypes
<1>8. StartTypes'
    <2>1. start' = start \/ (\E p : LoadProjectBranches(p)) \/ (\E i : ReceiveBranches(i))
        BY DEF StartFormNext, SubmitStart, ListLocalBranches, CheckStart, ServeStart, ReceiveStart
    <2> QED
        BY <1>6, <1>7, <2>1 DEF StartTypes
<1> QED
    BY <1>5, <1>8

(* The settings. *)
FieldsOnly(s) == DOMAIN s.updates \subseteq ConfigFields /\ DOMAIN s.config \subseteq ConfigFields

LEMMA SettingsKeepTypes ==
    ASSUME SetupTypes, ProbesInv, FileTypes, SavesGood, SettingsPageNext
    PROVE  SetupTypes' /\ FileTypes'
<1>1. IsList(saves) /\ \A j \in DOMAIN saves : DOMAIN saves[j] = SaveFields /\ FieldsOnly(saves[j])
    BY DEF SavesGood, GoodSave, FileTypes, FieldsOnly
<1>2. UNCHANGED <<docker, build, setup>> /\ (LoadSetup \/ UNCHANGED probes)
    BY DEF SettingsPageNext, ShowSettings, EditField, SaveSettings, ReadConfig, WriteConfig,
           RefuseConfig, ReceiveSettings, setupVars
<1>3. SetupTypes'
    BY <1>2, SetupLoadedKeepsTypes
<1>4. ASSUME IsList(saves'), \A j \in DOMAIN saves' : FieldsOnly(saves'[j]),
             DOMAIN file' \subseteq ConfigFields
      PROVE  FileTypes'
    BY <1>4 DEF FileTypes, FieldsOnly, ConfigFields, Fields
<1>5. ASSUME NEW s, FieldsOnly(s), saves' = Append(saves, s), file' = file
      PROVE  FileTypes'
    <2>1. IsList(saves') /\ \A j \in DOMAIN saves' :
             saves'[j] = s \/ (j \in DOMAIN saves /\ saves'[j] = saves[j])
        BY <1>1, <1>5, ListAppend
    <2> QED
        BY <1>1, <1>4, <1>5, <2>1 DEF FileTypes
<1>6. ASSUME ShowSettings
      PROVE  FileTypes'
    <2> DEFINE s == SettingsRequest("get", <<>>, <<>>)
    <2>1. FieldsOnly(s)
        BY ListEmpty DEF SettingsRequest, FieldsOnly, FileTypes
    <2>2. saves' = Append(saves, s) /\ file' = file
        BY <1>6 DEF ShowSettings
    <2> HIDE DEF s
    <2> QED
        BY <1>5, <2>1, <2>2
<1>7. ASSUME NEW kind \in {"runtime", "models"}, SaveSettings(kind)
      PROVE  FileTypes'
    <2>1. DOMAIN ReadForm(kind) \subseteq ConfigFields
        BY DEF ReadForm, Restrict, Filled, Fields, ConfigFields, RuntimeTexts
    <2>2. \A edited : FieldsOnly(SettingsRequest(kind, ReadForm(kind), edited))
        BY <2>1 DEF SettingsRequest, FieldsOnly, FileTypes
    <2> QED
        BY <1>5, <1>7, <2>2 DEF SaveSettings
<1>8. ASSUME NEW i \in DOMAIN saves, ReadConfig(i) \/ WriteConfig(i)
      PROVE  FileTypes'
    <2> DEFINE merged == MergeConfig(saves[i].config, saves[i].updates)
    <2>1. DOMAIN merged \subseteq ConfigFields /\ DOMAIN file \subseteq ConfigFields
        BY <1>1 DEF MergeConfig, Filled, FieldsOnly, FileTypes
    <2>2. /\ file' \in {file, merged}
          /\ \/ saves' = [saves EXCEPT ![i].stage = 2, ![i].config = file]
             \/ saves' = [saves EXCEPT ![i].stage = 3, ![i].config = merged]
        BY <1>8 DEF ReadConfig, WriteConfig
    <2> HIDE DEF merged
    <2>3. saves' = [j \in DOMAIN saves |-> saves'[j]] /\ DOMAIN saves' = DOMAIN saves
        BY <2>2
    <2>4. IsList(saves')
        BY <1>1, <2>3, ListOf
    <2>5. \A j \in DOMAIN saves : FieldsOnly(saves'[j])
        BY <1>1, <2>1, <2>2 DEF FieldsOnly, SaveFields
    <2> QED
        BY <1>4, <2>1, <2>2, <2>3, <2>4, <2>5
<1>9. ASSUME NEW i \in DOMAIN saves, RefuseConfig(i) \/ ReceiveSettings(i)
      PROVE  FileTypes'
    <2>1. saves' = RemoveAt(saves, i) /\ file' = file
        BY <1>9 DEF RefuseConfig, ReceiveSettings
    <2>2. IsList(saves') /\ \A j \in DOMAIN saves' : \E k \in DOMAIN saves : saves'[j] = saves[k]
        BY <1>1, <2>1, ListRemove
    <2> QED
        BY <1>1, <1>4, <2>1, <2>2 DEF FileTypes
<1>10. ASSUME NEW f, NEW value, EditField(f, value)
       PROVE  FileTypes'
    BY <1>10 DEF EditField, FileTypes, ConfigFields, Fields
<1> QED
    BY <1>3, <1>6, <1>7, <1>8, <1>9, <1>10 DEF SettingsPageNext

(* The guidance tab. *)
DocOf(d, doc) ==
    /\ DOMAIN d = DocFields /\ d.role \in Roles
    /\ d.stage = 3 => d.doc.role \in Roles
    /\ d.kind \notin {"read", "save", "reset"} => doc.role \in Roles

LEMMA GuidanceTypesAre ==
    ASSUME guidance'.role \in Roles, guidance'.open => guidance'.doc.role \in Roles,
           \A j \in DOMAIN docs' : DocOf(docs'[j], guidance'.doc)
    PROVE  GuidanceTypes'
    BY DEF GuidanceTypes, DocTypes, DocOf

LEMMA GuidancePageKeepsTypes ==
    ASSUME GuidanceTypes, GuidanceInv, GuidancePageNext
    PROVE  GuidanceTypes'
<1>1. /\ IsList(docs) /\ DOMAIN guidance = {"role", "doc", "editor", "open", "pressed"}
      /\ \A j \in DOMAIN docs : DocOf(docs[j], guidance.doc)
    BY DEF GuidanceInv, GuidanceDocs, GuidanceDetail, GuidanceTypes, DocTypes, DocOf
<1>2. \A doc, other : doc.role \in Roles => \A d : DocOf(d, other) => DocOf(d, doc)
    BY DEF DocOf
<1>3. ASSUME NEW t, IsList(t), NEW doc, \A j \in DOMAIN t : DocOf(t[j], doc),
             NEW d, DocOf(d, doc)
      PROVE  \A j \in DOMAIN Append(t, d) : DocOf(Append(t, d)[j], doc)
    BY <1>3, ListAppend
<1>4. ASSUME NEW role \in Roles, SelectGuidanceRole(role)
      PROVE  GuidanceTypes'
    <2> DEFINE d == GuidanceRequest("read", role, "home", NoDoc.body)
    <2>1. docs' = Append(docs, d) /\ guidance' = [guidance EXCEPT !.role = role, !.open = FALSE, !.pressed = {}]
        BY <1>4 DEF SelectGuidanceRole, TurnTo
    <2>2. DocOf(d, guidance.doc)
        BY DEF GuidanceRequest, DocOf, DocFields
    <2> HIDE DEF d
    <2>3. ~guidance'.open /\ guidance'.doc = guidance.doc /\ guidance'.role = role
        BY <1>1, <2>1
    <2> QED
        BY <1>1, <1>3, <2>1, <2>2, <2>3, GuidanceTypesAre
<1>5. CASE EditGuidance
    <2>1. docs' = docs /\ guidance.open /\ guidance' = [guidance EXCEPT !.editor.edited = TRUE]
        BY <1>5 DEF EditGuidance
    <2>2. guidance'.open = guidance.open /\ guidance'.doc = guidance.doc /\ guidance'.role = guidance.role
        BY <1>1, <2>1
    <2> QED
        BY <1>1, <2>1, <2>2, GuidanceTypesAre DEF GuidanceTypes
<1>6. ASSUME NEW kind \in {"save", "reset"}, NEW scope, SubmitGuidance(kind, scope)
      PROVE  GuidanceTypes'
    <2> DEFINE d == GuidanceRequest(kind, guidance.role, scope, guidance.editor)
    <2>1. /\ docs' = Append(docs, d) /\ guidance.open
          /\ guidance' = [guidance EXCEPT !.pressed = guidance.pressed \cup {kind}]
        BY <1>6 DEF SubmitGuidance
    <2>2. DocOf(d, guidance.doc)
        BY <2>1 DEF GuidanceTypes, GuidanceRequest, DocOf, DocFields
    <2> HIDE DEF d
    <2>3. guidance'.open = guidance.open /\ guidance'.doc = guidance.doc /\ guidance'.role = guidance.role
        BY <1>1, <2>1
    <2>4. \A j \in DOMAIN docs' : DocOf(docs'[j], guidance.doc)
        BY <1>1, <1>3, <2>1, <2>2
    <2> QED
        BY <2>1, <2>3, <2>4, GuidanceTypesAre DEF GuidanceTypes
<1>7. ASSUME NEW i \in DOMAIN docs, ServeGuidance(i)
      PROVE  GuidanceTypes'
    <2>1. PICK after :
             docs' = [docs EXCEPT ![i].stage = 3,
                                  ![i].doc = ReadGuidance(after, docs[i].role, docs[i].scope)]
        BY <1>7 DEF ServeGuidance
    <2> DEFINE doc == ReadGuidance(after, docs[i].role, docs[i].scope)
    <2>2. doc.role \in Roles
        BY <1>1 DEF ReadGuidance, DocOf
    <2> HIDE DEF doc
    <2>3. \A j \in DOMAIN docs : DocOf(docs'[j], guidance.doc)
        BY <1>1, <2>1, <2>2 DEF doc, DocOf, DocFields
    <2>4. guidance' = guidance /\ DOMAIN docs' = DOMAIN docs
        BY <1>7, <2>1 DEF ServeGuidance
    <2> QED
        BY <2>3, <2>4, GuidanceTypesAre DEF GuidanceTypes
<1>8. ASSUME NEW i \in DOMAIN docs, ReceiveGuidance(i)
      PROVE  GuidanceTypes'
    <2> DEFINE rest == RemoveAt(docs, i)
    <2>1. IsList(rest) /\ \A j \in DOMAIN rest : DocOf(rest[j], guidance.doc)
        BY <1>1, ListRemove
    <2>2. DocOf(docs[i], guidance.doc) /\ docs[i].stage = 3 /\ docs[i].doc.role \in Roles
        BY <1>1, <1>8 DEF ReceiveGuidance, Moves, DocOf
    <2>3. CASE docs[i].kind \in {"save", "reset"}
        <3> DEFINE d == GuidanceRequest("roles", docs[i].role, "home", NoDoc.body)
        <3>1. docs' = Append(rest, d) /\ guidance' = [guidance EXCEPT !.doc = docs[i].doc]
            BY <1>8, <2>3 DEF ReceiveGuidance
        <3>2. DocOf(d, docs[i].doc)
            BY <2>2 DEF GuidanceRequest, DocOf, DocFields
        <3> HIDE DEF d, rest
        <3>3. \A j \in DOMAIN rest : DocOf(rest[j], docs[i].doc)
            BY <1>2, <2>1, <2>2
        <3>4. \A j \in DOMAIN docs' : DocOf(docs'[j], docs[i].doc)
            BY <1>3, <2>1, <3>1, <3>2, <3>3
        <3>5. guidance'.open = guidance.open /\ guidance'.doc = docs[i].doc /\ guidance'.role = guidance.role
            BY <1>1, <3>1
        <3> QED
            BY <2>2, <3>4, <3>5, GuidanceTypesAre DEF GuidanceTypes
    <2>4. CASE docs[i].kind \notin {"save", "reset"}
        <3>1. PICK doc :
                 /\ docs' = rest
                 /\ guidance' = [guidance EXCEPT !.doc = doc, !.editor = doc.body,
                                                 !.open = TRUE, !.pressed = {}]
                 /\ \/ docs[i].kind = "read" /\ doc = docs[i].doc
                    \/ docs[i].kind # "read" /\ doc = guidance.doc
            BY <1>8, <2>4 DEF ReceiveGuidance, RenderDetail
        <3>2. doc.role \in Roles
            BY <2>2, <2>4, <3>1 DEF DocOf
        <3> HIDE DEF rest
        <3>3. guidance'.doc = doc /\ guidance'.role = guidance.role
            BY <1>1, <3>1
        <3>4. \A j \in DOMAIN docs' : DocOf(docs'[j], doc)
            BY <1>2, <2>1, <3>1, <3>2
        <3>5. guidance.role \in Roles
            BY DEF GuidanceTypes
        <3> QED
            BY <3>2, <3>3, <3>4, <3>5, GuidanceTypesAre
    <2> QED
        BY <2>3, <2>4
<1> QED
    BY <1>4, <1>5, <1>6, <1>7, <1>8 DEF GuidancePageNext

(* All steps. *)
LEMMA InterruptedKeepsTypes ==
    ASSUME TypeInv, PageInv, SetupInv, GuidanceInv, Interrupted
    PROVE  TypeInv'
<1>1. docker \in Docker /\ build \in BuildStatus /\ setup \in Panels
    BY DEF TypeInv, SetupTypes
<1>2. docker' = docker /\ build' \in {"idle", build} /\ probes' = <<>>
    BY DEF Interrupted, SetupCallsFail
<1>3. ProbesTyped'
    BY <1>2, ListEmpty DEF ProbesTyped
<1>4. FailedSetup \in Panels
    BY <1>1 DEF FailedSetup, Panels
<1>5. setup' = FailedSetup \/ setup' = [FailedSetup EXCEPT !.startOff = ~FailedSetup.ready]
    BY DEF Interrupted, StartCallsFail
<1>6. setup' \in Panels
    <2> DEFINE failed == FailedSetup
    <2>1. failed \in Panels /\ (setup' = failed \/ setup' = [failed EXCEPT !.startOff = ~failed.ready])
        BY <1>4, <1>5
    <2> HIDE DEF failed
    <2> QED
        BY <2>1 DEF Panels
<1>7. build' \in BuildStatus
    BY <1>1, <1>2 DEF BuildStatus
<1>8. SetupTypes'
    BY <1>1, <1>2, <1>3, <1>6, <1>7, SetupTypesAre
<1>9. StartTypes'
    BY TypesSame DEF Interrupted, StartCallsFail
<1>10. FileTypes'
    <2>1. file' = file /\ DOMAIN saves' = {}
        BY ListEmpty DEF Interrupted, SettingsCallsFail
    <2> QED
        BY <2>1 DEF TypeInv, FileTypes, ConfigFields, Fields
<1>11. GuidanceTypes'
    <2>1. DOMAIN docs' = {} /\ guidance' = [guidance EXCEPT !.pressed = {}]
        BY ListEmpty DEF Interrupted, GuidanceCallsFail
    <2>2. guidance'.open = guidance.open /\ guidance'.doc = guidance.doc /\ guidance'.role = guidance.role
        BY <2>1 DEF GuidanceInv, GuidanceDetail
    <2> QED
        BY <2>1, <2>2 DEF TypeInv, GuidanceTypes, DocTypes
<1> QED
    BY <1>8, <1>9, <1>10, <1>11 DEF TypeInv

LEMMA NextKeepsTypeInv ==
    ASSUME TypeInv, PageInv, SetupInv, BranchInv, SavesInv, GuidanceInv, [Next]_vars
    PROVE  TypeInv'
<1>1. CASE Interrupted
    BY <1>1, InterruptedKeepsTypes
<1>2. CASE Deliver
    <2>1. SetupTypes'
        <3>1. UNCHANGED <<docker, build, setup>> /\ (LoadSetup \/ UNCHANGED probes)
            BY <1>2 DEF Deliver, setupVars
        <3> QED
            BY <3>1, SetupLoadedKeepsTypes DEF TypeInv, SetupInv
    <2> QED
        BY <1>2, <2>1, TypesSame DEF Deliver, startVars, settingsVars, guidanceVars, TypeInv
<1>3. CASE SetupPageNext /\ UNCHANGED <<runPageVars, startVars, settingsVars, guidanceVars>>
    BY <1>3, SetupPageKeepsTypes, TypesSame
    DEF startVars, settingsVars, guidanceVars, TypeInv, SetupInv
<1>4. CASE StartFormNext /\ UNCHANGED <<settingsVars, guidanceVars>>
    BY <1>4, StartFormKeepsTypes, TypesSame DEF settingsVars, guidanceVars, TypeInv, SetupInv
<1>5. CASE SettingsPageNext /\ UNCHANGED <<runPageVars, startVars, guidanceVars>>
    BY <1>5, SettingsKeepTypes, TypesSame
    DEF startVars, guidanceVars, TypeInv, SetupInv, SavesInv
<1>6. CASE GuidancePageNext /\ UNCHANGED <<runPageVars, setupVars, startVars, settingsVars>>
    BY <1>6, GuidancePageKeepsTypes, TypesSame DEF startVars, settingsVars, TypeInv
<1>7. CASE UNCHANGED <<setupVars, startVars, settingsVars, guidanceVars>>
    BY <1>7, TypesSame DEF startVars, settingsVars, guidanceVars, TypeInv
<1> QED
    BY <1>1, <1>2, <1>3, <1>4, <1>5, <1>6, <1>7 DEF Next, vars

LEMMA TypesHold ==
    ASSUME TypeInv, PageInv, AnswerInv
    PROVE  DashboardTypeOK
<1>1. \A r \in Runs : run[r].status \in RunStatus /\ run[r].gate \in Gates[r]
    BY DEF AnswerInv, RunInv, RunTypes
<1>2. \A r \in Runs : \A g \in DOMAIN recorded[r] :
         g \in Gates[r] /\ \A q \in DOMAIN recorded[r][g] : recorded[r][g][q] \in Sources
    BY DEF AnswerInv, RecordedInv, Own
<1>3. /\ selected \in Runs \cup {NoRun} /\ shown.run \in Runs \cup {NoRun}
      /\ cursor \in 0..Len(log)
      /\ DOMAIN form = IF panel.holds = "gate" THEN Asked(shown) ELSE DOMAIN form
    BY DEF PageInv, ChosenInv, StreamInv, AnswerInv, FormInv, IsView
<1>4. setup \in Panels
    BY DEF TypeInv, SetupTypes
<1>5. DOMAIN file \in SUBSET (Fields("runtime") \cup Roles)
    BY DEF TypeInv, FileTypes, ConfigFields
<1>6. /\ start.enabled => start.branch \in start.list
      /\ guidance.open => guidance.doc.role \in Roles
    BY DEF TypeInv, StartTypes, GuidanceTypes
<1> QED
    BY <1>1, <1>2, <1>3, <1>4, <1>5, <1>6 DEF DashboardTypeOK, Panels, Docker

(* Every part of the page and of the server stays within its values: an    *)
(* answer is one to a gate of its run, the branch picked is in the list,   *)
(* only fields there are get into the configuration, and the guidance that *)
(* is open is that of a role, whatever is lost and in whatever order.      *)
THEOREM DashboardTypes == Spec => []DashboardTypeOK
<1> DEFINE All == /\ PageInv /\ AnswerInv /\ SetupInv
                  /\ BranchInv /\ SavesInv /\ GuidanceInv /\ TypeInv
<1>1. Init => All
    BY InitPageInv, InitAnswerInv, InitSetupInv, InitBranchInv, InitSavesInv, InitGuidanceInv,
       InitTypeInv
<1>2. All /\ [Next]_vars => All'
    BY NextKeepsPageInv, NextKeepsAnswerInv, NextKeepsSetupInv, NextKeepsBranchInv,
       NextKeepsSavesInv, NextKeepsGuidanceInv, NextKeepsTypeInv
<1>3. All => DashboardTypeOK
    BY TypesHold
<1> QED
    BY <1>1, <1>2, <1>3, PTL DEF Spec
==============================================================================
