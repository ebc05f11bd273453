---------------------------- MODULE DashboardProofs ----------------------------
(***************************************************************************)
(* Proofs about what the dashboard shows, for any runs, gates, projects    *)
(* and roles and any number of requests under way: of the runs and the     *)
(* setup, when replies come in order, that a page at rest shows what is;   *)
(* and, in any order, that the runner image is built once at a time.       *)
(***************************************************************************)
EXTENDS AnswerProofs, FiniteSetTheorems

-------------------------------------------------------------------------------
(* Lists by position. *)

LEMMA AppendAt ==
    ASSUME NEW s, IsList(s), NEW e
    PROVE  LET t == Append(s, e)
           IN  /\ IsList(t) /\ Len(s) \in Nat /\ DOMAIN s = 1..Len(s) /\ DOMAIN t = 1..(Len(s) + 1)
               /\ Len(t) = Len(s) + 1
               /\ t[Len(s) + 1] = e /\ \A j \in DOMAIN s : t[j] = s[j]
<1> DEFINE t == Append(s, e)
<1>1. PICK S : s \in Seq(S)
    BY DEF IsList
<1> DEFINE T == S \cup {e}
<1>2. s \in Seq(T) /\ e \in T
    <2>1. s \in [1..Len(s) -> S] /\ Len(s) \in Nat
        BY <1>1
    <2>2. s \in [1..Len(s) -> T]
        BY <2>1
    <2> QED
        BY <2>1, <2>2, SeqDef
<1> HIDE DEF T
<1>3. /\ t \in Seq(T) /\ Len(t) = Len(s) + 1 /\ Len(s) \in Nat
      /\ \A j \in 1..Len(s) : t[j] = s[j]
      /\ t[Len(s) + 1] = e
    BY <1>2
<1>4. IsList(t) /\ DOMAIN t = 1..Len(t) /\ DOMAIN s = 1..Len(s)
    BY <1>2, <1>3 DEF IsList
<1> QED
    BY <1>3, <1>4

LEMMA RemovedAt ==
    ASSUME NEW s, IsList(s), NEW i \in DOMAIN s
    PROVE  LET t == RemoveAt(s, i)
           IN  /\ IsList(t) /\ Len(s) \in Nat /\ DOMAIN s = 1..Len(s) /\ DOMAIN t = 1..(Len(s) - 1)
               /\ Len(t) = Len(s) - 1
               /\ \A j \in DOMAIN t : t[j] = IF j < i THEN s[j] ELSE s[j + 1]
<1> DEFINE t == RemoveAt(s, i)
<1>1. PICK S : s \in Seq(S)
    BY DEF IsList
<1>2. Len(s) \in Nat /\ DOMAIN s = 1..Len(s) /\ i \in 1..Len(s)
    BY <1>1
<1> DEFINE a == SubSeq(s, 1, i - 1)
           b == SubSeq(s, i + 1, Len(s))
<1>3. /\ a \in Seq(S) /\ Len(a) = i - 1 /\ \A j \in 1..(i - 1) : a[j] = s[j]
      /\ b \in Seq(S) /\ Len(b) = Len(s) - i
      /\ \A j \in 1..(Len(s) - i) : b[j] = s[i + j]
    BY <1>1, <1>2, SubSeqProperties
<1>4. t = a \o b
    BY DEF RemoveAt
<1> HIDE DEF a, b, t
<1>5. /\ t \in Seq(S) /\ Len(t) = Len(a) + Len(b)
      /\ \A j \in 1..Len(t) : t[j] = IF j <= Len(a) THEN a[j] ELSE b[j - Len(a)]
    <2>1. /\ a \o b \in Seq(S) /\ Len(a \o b) = Len(a) + Len(b)
          /\ \A j \in 1..(Len(a) + Len(b)) :
                (a \o b)[j] = IF j <= Len(a) THEN a[j] ELSE b[j - Len(a)]
        BY <1>3, ConcatProperties
    <2> QED
        BY <1>4, <2>1
<1>6. DOMAIN t = 1..(Len(s) - 1) /\ Len(t) = Len(s) - 1 /\ IsList(t)
    BY <1>2, <1>3, <1>5 DEF IsList
<1>7. ASSUME NEW j \in DOMAIN t
      PROVE  t[j] = IF j < i THEN s[j] ELSE s[j + 1]
    <2>1. CASE j < i
        BY <1>2, <1>3, <1>5, <1>6, <2>1
    <2>2. CASE ~(j < i)
        <3>1. t[j] = b[j - (i - 1)] /\ j - (i - 1) \in 1..(Len(s) - i)
            <4>1. j \in 1..Len(t) /\ Len(t) = Len(s) - 1 /\ Len(a) = i - 1 /\ ~(j <= i - 1)
                BY <1>2, <1>3, <1>6, <2>2
            <4>2. t[j] = b[j - Len(a)]
                BY <1>5, <4>1
            <4>3. j - (i - 1) \in 1..(Len(s) - i)
                BY <1>2, <1>6, <2>2
            <4> QED
                BY <4>1, <4>2, <4>3
        <3>2. b[j - (i - 1)] = s[i + (j - (i - 1))]
            BY <1>3, <3>1
        <3>3. i + (j - (i - 1)) = j + 1
            BY <1>2, <1>6
        <3> QED
            BY <2>2, <3>1, <3>2, <3>3
    <2> QED
        BY <2>1, <2>2
<1> QED
    BY <1>2, <1>6, <1>7 DEF t

(* The elements of a finite set, as a list. *)
LEMMA ListOfSet ==
    ASSUME NEW S, IsFiniteSet(S)
    PROVE  /\ IsList(SetToSeq(S))
           /\ \A x \in S : \E k \in DOMAIN SetToSeq(S) : SetToSeq(S)[k] = x
<1> DEFINE n == Cardinality(S)
           f == SetToSeq(S)
<1>1. n \in Nat /\ ExistsBijection(1..n, S)
    BY FS_CardinalityType
<1>2. \E g \in [1..n -> S] : IsInjective(g)
    BY <1>1 DEF ExistsBijection, Bijection, Injection
<1>3. f \in [1..n -> S] /\ IsInjective(f)
    BY <1>2 DEF SetToSeq
<1>4. f \in Injection(1..n, S)
    BY <1>3 DEF Injection
<1>5. Cardinality(1..n) = n /\ IsFiniteSet(1..n)
    BY <1>1, FS_Interval
<1> HIDE DEF n, f
<1>6. f \in Surjection(1..n, S)
    <2>1. Cardinality(1..n) = Cardinality(S)
        BY <1>5 DEF n
    <2> QED
        BY <1>4, <2>1, FS_Injection
<1>7. IsList(f)
    <2>1. f \in Seq(S)
        BY <1>1, <1>3, SeqDef
    <2> QED
        BY <2>1 DEF IsList
<1>8. \A x \in S : \E k \in DOMAIN f : f[k] = x
    BY <1>3, <1>6 DEF Surjection
<1> QED
    BY <1>7, <1>8 DEF f

(* Which requests bring the page a view, a list of runs, or a setup, and   *)
(* the last of those that are under way.                                   *)
Bears(c, what) ==
    \/ what = "view" /\ c.kind = "view"
    \/ what = "list" /\ (c.kind = "list" \/ (c.kind = "view" /\ c.run # NoRun))
    \/ what = "setup" /\ c.kind = "setup"

LastOf(s, i, what) ==
    i \in DOMAIN s /\ Bears(s[i], what) /\ \A j \in DOMAIN s : j > i => ~Bears(s[j], what)

NoneOf(s, what) == \A j \in DOMAIN s : ~Bears(s[j], what)

LEMMA AppendLast ==
    ASSUME NEW s, IsList(s), NEW e, NEW what
    PROVE  LET t == Append(s, e)
           IN  /\ Bears(e, what) => ~NoneOf(t, what) /\ \A j : LastOf(t, j, what) => t[j] = e
               /\ ~Bears(e, what) =>
                     /\ NoneOf(t, what) => NoneOf(s, what)
                     /\ \A j : LastOf(t, j, what) => LastOf(s, j, what) /\ t[j] = s[j]
<1> DEFINE t == Append(s, e)
<1>1. /\ DOMAIN s = 1..Len(s) /\ DOMAIN t = 1..(Len(s) + 1) /\ Len(s) \in Nat
      /\ t[Len(s) + 1] = e /\ \A j \in DOMAIN s : t[j] = s[j]
    BY AppendAt
<1> HIDE DEF t
<1>2. ASSUME Bears(e, what)
      PROVE  ~NoneOf(t, what) /\ \A j : LastOf(t, j, what) => t[j] = e
    <2>1. ~NoneOf(t, what)
        BY <1>1, <1>2 DEF NoneOf
    <2>2. ASSUME NEW j, LastOf(t, j, what)
          PROVE  t[j] = e
        <3>1. j \in DOMAIN t /\ ~(Len(s) + 1 > j)
            BY <1>1, <1>2, <2>2 DEF LastOf
        <3> QED
            BY <1>1, <3>1
    <2> QED
        BY <2>1, <2>2
<1>3. ASSUME ~Bears(e, what), NoneOf(t, what)
      PROVE  NoneOf(s, what)
    BY <1>1, <1>3 DEF NoneOf
<1>4. ASSUME ~Bears(e, what), NEW j, LastOf(t, j, what)
      PROVE  LastOf(s, j, what) /\ t[j] = s[j]
    <2>1. j \in DOMAIN s
        BY <1>1, <1>4 DEF LastOf
    <2>2. \A k \in DOMAIN s : k > j => ~Bears(s[k], what)
        BY <1>1, <1>4 DEF LastOf
    <2> QED
        BY <1>1, <1>4, <2>1, <2>2 DEF LastOf
<1> QED
    BY <1>2, <1>3, <1>4 DEF t

(* A request that is taken out was the last of its kind, or leaves the     *)
(* last one where it is; the first request is never after another.         *)
LEMMA RemoveLast ==
    ASSUME NEW s, IsList(s), NEW i \in DOMAIN s, NEW what
    PROVE  LET t == RemoveAt(s, i)
           IN  /\ NoneOf(t, what) => NoneOf(s, what) \/ LastOf(s, i, what)
               /\ \A j : LastOf(t, j, what) =>
                     \E k \in DOMAIN s : /\ t[j] = s[k]
                                         /\ LastOf(s, k, what) \/ (LastOf(s, i, what) /\ i # 1)
<1> DEFINE t == RemoveAt(s, i)
<1>1. /\ DOMAIN s = 1..Len(s) /\ DOMAIN t = 1..(Len(s) - 1) /\ Len(s) \in Nat
      /\ \A j \in DOMAIN t : t[j] = IF j < i THEN s[j] ELSE s[j + 1]
    BY RemovedAt
<1> HIDE DEF t
<1>2. ASSUME NEW m \in DOMAIN s, m # i, NEW j, j = IF m < i THEN m ELSE m - 1
      PROVE  j \in DOMAIN t /\ t[j] = s[m]
    <2>1. CASE m < i
        BY <1>1, <1>2, <2>1
    <2>2. CASE m > i
        <3>1. j = m - 1 /\ j \in DOMAIN t /\ ~(j < i) /\ j + 1 = m
            BY <1>1, <1>2, <2>2
        <3> QED
            BY <1>1, <3>1
    <2> QED
        BY <1>1, <1>2, <2>1, <2>2
<1>3. ASSUME NoneOf(t, what)
      PROVE  NoneOf(s, what) \/ LastOf(s, i, what)
    <2>1. \A m \in DOMAIN s : m # i => ~Bears(s[m], what)
        BY <1>2, <1>3 DEF NoneOf
    <2> QED
        BY <1>1, <2>1 DEF NoneOf, LastOf
<1>4. ASSUME NEW j, LastOf(t, j, what)
      PROVE  \E k \in DOMAIN s : /\ t[j] = s[k]
                                 /\ LastOf(s, k, what) \/ (LastOf(s, i, what) /\ i # 1)
    <2> DEFINE k == IF j < i THEN j ELSE j + 1
    <2>1. j \in DOMAIN t
        BY <1>4 DEF LastOf
    <2>2. k \in DOMAIN s /\ t[j] = s[k] /\ k # i
        BY <1>1, <2>1
    <2>3. ASSUME NEW m \in DOMAIN s, m > k, m # i
          PROVE  ~Bears(s[m], what)
        <3> DEFINE n == IF m < i THEN m ELSE m - 1
        <3>1. n \in DOMAIN t /\ t[n] = s[m]
            BY <1>2, <2>3
        <3>2. n > j
            BY <1>1, <2>1, <2>3
        <3> QED
            BY <1>4, <3>1, <3>2 DEF LastOf
    <2>4. Bears(s[k], what)
        BY <1>4, <2>2 DEF LastOf
    <2>5. CASE i > k /\ Bears(s[i], what)
        <3>1. \A m \in DOMAIN s : m > i => ~Bears(s[m], what)
            BY <1>1, <2>2, <2>3, <2>5
        <3>2. i # 1
            BY <1>1, <2>2, <2>5
        <3> QED
            BY <2>2, <2>5, <3>1, <3>2 DEF LastOf
    <2>6. CASE ~(i > k /\ Bears(s[i], what))
        <3>1. \A m \in DOMAIN s : m > k => ~Bears(s[m], what)
            BY <2>3, <2>6
        <3> QED
            BY <2>2, <2>4, <3>1 DEF LastOf
    <2> QED
        BY <2>5, <2>6
<1> QED
    BY <1>3, <1>4 DEF t

(* In an ordered session the reply that comes is that of the first request *)
(* of its part.                                                            *)
LEMMA FirstReply ==
    ASSUME NEW s, IsList(s), \A j \in DOMAIN s : s[j].stage \in {1, 2, 3},
           NEW i \in DOMAIN s, Moves(s, i, 3), ordered
    PROVE  i = 1
<1>1. DOMAIN s = 1..Len(s) /\ Len(s) \in Nat
    <2>1. PICK S : s \in Seq(S)
        BY DEF IsList
    <2> QED
        BY <2>1
<1>2. \A j \in 1..(i - 1) : s[j].stage > 3
    BY DEF Moves, InTurn
<1>3. CASE i > 1
    <2>1. 1 \in 1..(i - 1) /\ 1 \in DOMAIN s
        BY <1>1, <1>3
    <2>2. s[1].stage \in {1, 2, 3} /\ s[1].stage > 3
        BY <1>2, <2>1
    <2> QED
        BY <2>2
<1> QED
    BY <1>1, <1>3

-------------------------------------------------------------------------------
(* The stream of events. *)

(* An event of r is on its way, or in the table.                           *)
Due(r) == \E k \in (cursor + 1)..Len(log) : log[k] = r
InLog(r) == \E k \in DOMAIN log : log[k] = r

StreamInv == IsList(log) /\ cursor \in 0..Len(log)

(* Every change of what a run shows, and of the build and its image, is    *)
(* made together with its event; and no event is taken back.               *)
Announced ==
    /\ UNCHANGED <<cursor, ordered>> /\ DOMAIN run' = Runs
    /\ \/ UNCHANGED <<log, run, build>> /\ docker'.image = docker.image
       \/ \E e : /\ log' = Append(log, e)
                 /\ \A r \in Runs \ {e} : run'[r] = run[r]
                 /\ e # NoRun => build' = build /\ docker'.image = docker.image

LEMMA AnnouncedIsDue ==
    ASSUME StreamInv, Announced
    PROVE  /\ StreamInv'
           /\ \A r : (Due(r) => Due(r)') /\ (InLog(r) => InLog(r)')
           /\ \A r \in Runs : run'[r] = run[r] \/ (Due(r)' /\ InLog(r)')
           /\ (build' = build /\ docker'.image = docker.image) \/ (Due(NoRun)' /\ InLog(NoRun)')
<1>1. CASE UNCHANGED <<log, run, build>> /\ docker'.image = docker.image
    BY <1>1 DEF StreamInv, Announced, Due, InLog
<1>2. ASSUME NEW e, log' = Append(log, e),
             \A r \in Runs \ {e} : run'[r] = run[r],
             e # NoRun => build' = build /\ docker'.image = docker.image
      PROVE  /\ StreamInv'
             /\ \A r : (Due(r) => Due(r)') /\ (InLog(r) => InLog(r)')
             /\ \A r \in Runs : run'[r] = run[r] \/ (Due(r)' /\ InLog(r)')
             /\ (build' = build /\ docker'.image = docker.image) \/ (Due(NoRun)' /\ InLog(NoRun)')
    <2>1. /\ IsList(log') /\ DOMAIN log = 1..Len(log) /\ Len(log) \in Nat
          /\ DOMAIN log' = 1..(Len(log) + 1) /\ Len(log') = Len(log) + 1
          /\ log'[Len(log) + 1] = e /\ \A j \in DOMAIN log : log'[j] = log[j]
        BY <1>2, AppendAt DEF StreamInv
    <2>2. cursor' = cursor /\ cursor \in 0..Len(log)
        BY DEF Announced, StreamInv
    <2>3. StreamInv'
        BY <2>1, <2>2 DEF StreamInv
    <2>4. \A r : (Due(r) => Due(r)') /\ (InLog(r) => InLog(r)')
        BY <2>1, <2>2 DEF Due, InLog
    <2>5. Due(e)' /\ InLog(e)'
        BY <2>1, <2>2 DEF Due, InLog
    <2>6. \A r \in Runs : run'[r] = run[r] \/ (Due(r)' /\ InLog(r)')
        BY <1>2, <2>5
    <2>7. (build' = build /\ docker'.image = docker.image) \/ (Due(NoRun)' /\ InLog(NoRun)')
        BY <1>2, <2>5
    <2> QED
        BY <2>3, <2>4, <2>6, <2>7
<1> QED
    BY <1>1, <1>2 DEF Announced

(* An event of another run that is delivered leaves x due.                  *)
LEMMA DeliveredElse ==
    ASSUME StreamInv, Undelivered, UNCHANGED log, cursor' = cursor + 1,
           NEW x, x # log[cursor + 1], Due(x)
    PROVE  Due(x)'
<1>1. PICK k \in (cursor + 1)..Len(log) : log[k] = x
    BY DEF Due
<1>2. PICK S : log \in Seq(S)
    BY DEF StreamInv, IsList
<1>3. k \in (cursor' + 1)..Len(log)
    BY <1>1, <1>2 DEF StreamInv
<1> QED
    BY <1>1, <1>3 DEF Due

LEMMA NothingDue ==
    ASSUME StreamInv, ~Undelivered
    PROVE  \A x : ~Due(x)
<1>1. PICK S : log \in Seq(S)
    BY DEF StreamInv, IsList
<1>2. Len(log) \in Nat /\ cursor \in 0..Len(log) /\ ~(cursor < Len(log))
    BY <1>1 DEF StreamInv, Undelivered
<1> QED
    BY <1>2 DEF Due

RunsKnown == DOMAIN run = Runs
DockerKnown == DOMAIN docker = {"daemon", "image"}

LEMMA SetRunAnnounces ==
    ASSUME RunsKnown, NEW r, NEW status, NEW gate, SetRun(r, status, gate)
    PROVE  /\ log' = Append(log, r) /\ DOMAIN run' = Runs
           /\ \A x \in Runs \ {r} : run'[x] = run[x]
    BY DEF SetRun, AppendEvent, RunsKnown

(* The forms of the page change nothing on the server that it shows.       *)
LEMMA SettingsLeaveServer ==
    ASSUME SettingsPageNext
    PROVE  UNCHANGED <<cursor, ordered, log, docker, build, builds>>
<1>1. CASE ShowSettings
    BY <1>1 DEF ShowSettings, setupVars
<1>2. ASSUME NEW f, NEW value, EditField(f, value)
      PROVE  UNCHANGED <<cursor, ordered, log, docker, build, builds>>
    BY <1>2 DEF EditField, setupVars
<1>3. ASSUME NEW kind, SaveSettings(kind)
      PROVE  UNCHANGED <<cursor, ordered, log, docker, build, builds>>
    BY <1>3 DEF SaveSettings, setupVars
<1>4. ASSUME NEW i, ReadConfig(i)
      PROVE  UNCHANGED <<cursor, ordered, log, docker, build, builds>>
    BY <1>4 DEF ReadConfig, setupVars, streamVars
<1>5. ASSUME NEW i, WriteConfig(i)
      PROVE  UNCHANGED <<cursor, ordered, log, docker, build, builds>>
    BY <1>5 DEF WriteConfig, setupVars, streamVars
<1>6. ASSUME NEW i, ReceiveSettings(i)
      PROVE  UNCHANGED <<cursor, ordered, log, docker, build, builds>>
    BY <1>6 DEF ReceiveSettings, setupVars, streamVars
<1>7. ASSUME NEW i, RefuseConfig(i)
      PROVE  UNCHANGED <<cursor, ordered, log, docker, build, builds>>
    BY <1>7 DEF RefuseConfig, setupVars, streamVars
<1> QED
    BY <1>1, <1>2, <1>3, <1>4, <1>5, <1>6, <1>7 DEF SettingsPageNext

LEMMA StartFormLeavesServer ==
    ASSUME StartFormNext
    PROVE  UNCHANGED <<cursor, ordered, docker, build, builds>>
<1>1. ASSUME NEW p, LoadProjectBranches(p)
      PROVE  UNCHANGED <<cursor, ordered, docker, build, builds>>
    BY <1>1 DEF LoadProjectBranches, setupVars
<1>2. CASE SubmitStart
    BY <1>2 DEF SubmitStart
<1>3. ASSUME NEW i, ListLocalBranches(i)
      PROVE  UNCHANGED <<cursor, ordered, docker, build, builds>>
    BY <1>3 DEF ListLocalBranches, setupVars, streamVars
<1>4. ASSUME NEW i, ReceiveBranches(i)
      PROVE  UNCHANGED <<cursor, ordered, docker, build, builds>>
    BY <1>4 DEF ReceiveBranches, setupVars, streamVars
<1>5. ASSUME NEW i, CheckStart(i)
      PROVE  UNCHANGED <<cursor, ordered, docker, build, builds>>
    BY <1>5 DEF CheckStart, setupVars, streamVars
<1>6. ASSUME NEW i, ServeStart(i)
      PROVE  UNCHANGED <<cursor, ordered, docker, build, builds>>
    BY <1>6 DEF ServeStart, setupVars
<1>7. ASSUME NEW i, ReceiveStart(i)
      PROVE  UNCHANGED <<cursor, ordered, docker, build, builds>>
    BY <1>7 DEF ReceiveStart, streamVars
<1> QED
    BY <1>1, <1>2, <1>3, <1>4, <1>5, <1>6, <1>7 DEF StartFormNext

LEMMA RunPageAnnounces ==
    ASSUME RunsKnown, DockerKnown, RunPageNext, UNCHANGED setupVars
    PROVE  Announced
<1>1. UNCHANGED <<build, docker>>
    BY DEF setupVars
<1>2. ASSUME NEW r \in Runs, ChooseRun(r)
      PROVE  Announced
    BY <1>1, <1>2 DEF ChooseRun, serverRunVars, RunsKnown, Announced
<1>3. ASSUME NEW r \in Runs, Advance(r)
      PROVE  Announced
    <2>1. log' = Append(log, r) /\ UNCHANGED <<cursor, ordered>>
        BY <1>3 DEF Advance, AppendEvent
    <2>2. DOMAIN run' = Runs /\ \A x \in Runs \ {r} : run'[x] = run[x]
        BY <1>3 DEF Advance, RunsKnown
    <2> QED
        BY <1>1, <2>1, <2>2 DEF Announced
<1>4. ASSUME NEW i \in DOMAIN calls,
             ServeRun(i) \/ ServeRuns(i) \/ RenderRun(i) \/ RenderRuns(i) \/ ReceivePosted(i)
      PROVE  Announced
    BY <1>1, <1>4
    DEF ServeRun, ServeRuns, RenderRun, RenderRuns, ReceivePosted, serverRunVars, streamVars,
        RunsKnown, Announced
<1>5. ASSUME NEW i \in DOMAIN calls, ServeCommand(i)
      PROVE  Announced
    BY <1>1, <1>5 DEF ServeCommand, EnqueueCommand, AppendEvent, RunsKnown, Announced
<1>6. ASSUME NEW q, TypeText(q) \/ \E button : ToggleQuestion(button, q)
      PROVE  Announced
    BY <1>1, <1>6 DEF TypeText, ToggleQuestion, serverRunVars, RunsKnown, Announced
<1>7. ASSUME NEW button, SubmitGateAnswers(button) \/ ClickAction(button)
      PROVE  Announced
    BY <1>1, <1>7 DEF SubmitGateAnswers, ClickAction, serverRunVars, RunsKnown, Announced
<1>8. ASSUME NEW i \in DOMAIN queue, TakeCommand(i)
      PROVE  Announced
    <2>1. UNCHANGED <<cursor, ordered>>
        BY <1>8 DEF TakeCommand
    <2>2. \/ UNCHANGED <<run, log>>
          \/ \E r, status, gate : SetRun(r, status, gate)
        BY <1>8 DEF TakeCommand, AnswerGate
    <2>3. CASE UNCHANGED <<run, log>>
        BY <1>1, <2>1, <2>3 DEF RunsKnown, Announced
    <2>4. CASE \E r, status, gate : SetRun(r, status, gate)
        BY <1>1, <2>1, <2>4, SetRunAnnounces DEF Announced
    <2> QED
        BY <2>2, <2>3, <2>4
<1> QED
    BY <1>2, <1>3, <1>4, <1>5, <1>6, <1>7, <1>8 DEF RunPageNext

LEMMA SetupPageAnnounces ==
    ASSUME RunsKnown, DockerKnown, SetupPageNext, UNCHANGED runPageVars
    PROVE  Announced
<1>1. UNCHANGED run /\ DOMAIN run' = Runs
    BY DEF runPageVars, RunsKnown
<1>2. CASE RefreshSetup \/ PollSetup \/ PressBuild
    BY <1>1, <1>2 DEF RefreshSetup, PollSetup, PressBuild, streamVars, Announced
<1>3. CASE RunnerBuildEnds
    BY <1>1, <1>3 DEF RunnerBuildEnds, AppendEvent, Announced
<1>4. CASE DockerChanges
    <2>1. docker'.image = docker.image
        BY <1>4 DEF DockerChanges, DockerKnown
    <2> QED
        BY <1>1, <1>4, <2>1 DEF DockerChanges, Announced
<1>5. ASSUME NEW i \in DOMAIN probes,
             ProbeDocker(i) \/ SetupStatus(i) \/ ReceiveSetup(i) \/ ReceiveBuild(i)
      PROVE  Announced
    BY <1>1, <1>5 DEF ProbeDocker, SetupStatus, ReceiveSetup, ReceiveBuild, streamVars, Announced
<1>6. ASSUME NEW i \in DOMAIN probes, ServeBuild(i)
      PROVE  Announced
    BY <1>1, <1>6 DEF ServeBuild, StartRunnerBuild, AppendEvent, Announced
<1> QED
    BY <1>2, <1>3, <1>4, <1>5, <1>6 DEF SetupPageNext

LEMMA StartFormAnnounces ==
    ASSUME RunsKnown, StartFormNext
    PROVE  Announced
<1>1. UNCHANGED <<cursor, ordered, docker, build>>
    BY StartFormLeavesServer
<1>2. UNCHANGED <<run, log>> \/ \E r : SetRun(r, "queued", 0)
    <2>1. ASSUME NEW p, LoadProjectBranches(p)
          PROVE  UNCHANGED <<run, log>>
        BY <2>1 DEF LoadProjectBranches, runPageVars
    <2>2. CASE SubmitStart
        BY <2>2 DEF SubmitStart, runPageVars
    <2>3. ASSUME NEW i, ListLocalBranches(i)
          PROVE  UNCHANGED <<run, log>>
        BY <2>3 DEF ListLocalBranches, runPageVars, streamVars
    <2>4. ASSUME NEW i, ReceiveBranches(i)
          PROVE  UNCHANGED <<run, log>>
        BY <2>4 DEF ReceiveBranches, runPageVars, streamVars
    <2>5. ASSUME NEW i, CheckStart(i)
          PROVE  UNCHANGED <<run, log>>
        BY <2>5 DEF CheckStart, runPageVars, streamVars
    <2>6. ASSUME NEW i, ServeStart(i)
          PROVE  UNCHANGED <<run, log>> \/ \E r : SetRun(r, "queued", 0)
        <3>1. (\E r \in Runs : CreateRun(i, r)) \/ UNCHANGED <<run, log>>
            BY <2>6 DEF ServeStart
        <3>2. ASSUME NEW r \in Runs, CreateRun(i, r)
              PROVE  SetRun(r, "queued", 0)
            BY <3>2 DEF CreateRun
        <3> QED
            BY <3>1, <3>2
    <2>7. ASSUME NEW i, ReceiveStart(i)
          PROVE  UNCHANGED <<run, log>>
        BY <2>7 DEF ReceiveStart, serverRunVars, streamVars
    <2> QED
        BY <2>1, <2>2, <2>3, <2>4, <2>5, <2>6, <2>7 DEF StartFormNext
<1>3. CASE UNCHANGED <<run, log>>
    BY <1>1, <1>3 DEF RunsKnown, Announced
<1>4. CASE \E r : SetRun(r, "queued", 0)
    BY <1>1, <1>4, SetRunAnnounces DEF Announced
<1> QED
    BY <1>2, <1>3, <1>4

LEMMA OthersAnnounce ==
    ASSUME RunsKnown, UNCHANGED runPageVars,
           \/ SettingsPageNext
           \/ GuidancePageNext /\ UNCHANGED setupVars
           \/ UNCHANGED <<streamVars, setupVars>>
    PROVE  Announced
<1>1. UNCHANGED run /\ DOMAIN run' = Runs
    BY DEF runPageVars, RunsKnown
<1>2. CASE SettingsPageNext
    <2>1. UNCHANGED <<cursor, ordered, log, build, docker>>
        BY <1>2, SettingsLeaveServer
    <2> QED
        BY <1>1, <2>1 DEF Announced
<1>3. CASE GuidancePageNext /\ UNCHANGED setupVars
    <2>1. UNCHANGED <<cursor, ordered, log>>
        <3>1. ASSUME NEW role, SelectGuidanceRole(role)
              PROVE  UNCHANGED <<cursor, ordered, log>>
            BY <3>1 DEF SelectGuidanceRole
        <3>2. CASE EditGuidance
            BY <3>2 DEF EditGuidance
        <3>3. ASSUME NEW kind, NEW scope, SubmitGuidance(kind, scope)
              PROVE  UNCHANGED <<cursor, ordered, log>>
            BY <3>3 DEF SubmitGuidance
        <3>4. ASSUME NEW i, ServeGuidance(i)
              PROVE  UNCHANGED <<cursor, ordered, log>>
            BY <3>4 DEF ServeGuidance, streamVars
        <3>5. ASSUME NEW i, ReceiveGuidance(i)
              PROVE  UNCHANGED <<cursor, ordered, log>>
            BY <3>5 DEF ReceiveGuidance, streamVars
        <3> QED
            BY <1>3, <3>1, <3>2, <3>3, <3>4, <3>5 DEF GuidancePageNext
    <2> QED
        BY <1>1, <1>3, <2>1 DEF setupVars, Announced
<1>4. CASE UNCHANGED <<streamVars, setupVars>>
    BY <1>1, <1>4 DEF setupVars, streamVars, Announced
<1> QED
    BY <1>2, <1>3, <1>4

(* No step changes what the page shows without an event, but for the       *)
(* delivery of an event and the restart of the server.                     *)
LEMMA ChangesAreAnnounced ==
    ASSUME RunsKnown, DockerKnown, [Next]_vars, ~Deliver, ~Interrupted
    PROVE  Announced
    BY RunPageAnnounces, SetupPageAnnounces, StartFormAnnounces, OthersAnnounce DEF Next, vars

-------------------------------------------------------------------------------
(* The settled page. *)

Stages == \A i \in DOMAIN calls : calls[i].stage \in {1, 2, 3}

(* A view is as the run is, or an event of the run is on its way; a list   *)
(* of runs is as they are, or an event of one of them is.                  *)
Standing(r, view) == view = View(r) \/ Due(r)
ListStanding(list) == list = Statuses \/ \E r \in Runs : Due(r)

(* In an ordered session the last view under way is of the selected run,   *)
(* and stands once it is read; with none under way, what is shown stands.  *)
ViewInv ==
    ordered /\ selected \in Runs =>
        /\ \A i : LastOf(calls, i, "view") =>
              /\ calls[i].run = selected
              /\ calls[i].stage = 1 \/ Standing(selected, calls[i].view)
        /\ NoneOf(calls, "view") => Standing(selected, shown)

ListInv ==
    ordered =>
        /\ \A i : LastOf(calls, i, "list") => calls[i].stage # 3 \/ ListStanding(calls[i].list)
        /\ NoneOf(calls, "list") => ListStanding(listed)

(* What has been seen of a run is in the table of events, which is sent    *)
(* again when the stream is opened again.                                  *)
GoodList(list) ==
    list = [r \in Runs |-> list[r]] /\ \A r \in Runs : list[r] # "absent" => InLog(r)

ListsInv == GoodList(listed) /\ \A i \in DOMAIN calls : GoodList(calls[i].list)
RunsInv == RunsKnown /\ \A r \in Runs : run[r].status # "absent" => InLog(r)
ChosenInv ==
    /\ selected \in Runs \cup {NoRun}
    /\ selected \in Runs => InLog(selected)
    /\ \A i \in DOMAIN forms : forms[i].run \in Runs => InLog(forms[i].run)

PageInv ==
    /\ StreamInv /\ DockerKnown /\ RunsInv
    /\ Stages /\ ListsInv /\ ChosenInv /\ ViewInv /\ ListInv

(* How a step that selects no run may move the requests on: the last of    *)
(* each kind stays the last, what it brings is kept or read anew, and when *)
(* none is left its answer is shown.                                       *)
ViewFollows(c, d) ==
    d.run = c.run /\ (d.view = View(c.run) \/ (d.view = c.view /\ (c.stage = 1 => d.stage = 1)))

ListFollows(c, d) ==
    d.list = Statuses \/ (d.list = c.list /\ (c.stage # 3 => d.stage # 3))

ViewsMove ==
    /\ \A j : LastOf(calls', j, "view") =>
          \E k : LastOf(calls, k, "view") /\ ViewFollows(calls[k], calls'[j])
    /\ NoneOf(calls', "view") =>
          \/ NoneOf(calls, "view") /\ shown' = shown
          \/ \E k : LastOf(calls, k, "view") /\ calls[k].stage # 1 /\ shown' = calls[k].view

ListsMove ==
    /\ \A j : LastOf(calls', j, "list") =>
          \E k : LastOf(calls, k, "list") /\ ListFollows(calls[k], calls'[j])
    /\ NoneOf(calls', "list") =>
          \/ NoneOf(calls, "list") /\ listed' = listed
          \/ \E k : LastOf(calls, k, "list") /\ calls[k].stage = 3 /\ listed' = calls[k].list

ListsFrom ==
    /\ listed' = listed \/ \E k \in DOMAIN calls : listed' = calls[k].list
    /\ \A j \in DOMAIN calls' :
          calls'[j].list = Statuses \/ \E k \in DOMAIN calls : calls'[j].list = calls[k].list

PageMoves ==
    /\ selected' = selected /\ Stages' /\ ListsFrom
    /\ ordered /\ selected \in Runs => ViewsMove
    /\ ordered => ListsMove

(* Announced steps let stand what stands. *)
LEMMA StandingLasts ==
    ASSUME StreamInv, Announced
    PROVE  /\ \A r \in Runs : \A v : Standing(r, v) => v = View(r)' \/ Due(r)'
           /\ \A l : ListStanding(l) => l = Statuses' \/ \E r \in Runs : Due(r)'
<1>1. /\ \A r : Due(r) => Due(r)'
      /\ \A r \in Runs : run'[r] = run[r] \/ Due(r)'
    BY AnnouncedIsDue
<1>2. ASSUME NEW r \in Runs, NEW v, Standing(r, v)
      PROVE  v = View(r)' \/ Due(r)'
    BY <1>1, <1>2 DEF Standing, View
<1>3. ASSUME NEW l, ListStanding(l)
      PROVE  l = Statuses' \/ \E r \in Runs : Due(r)'
    <2>1. CASE \A r \in Runs : run'[r] = run[r]
        <3>1. Statuses' = Statuses
            BY <2>1 DEF Statuses
        <3> QED
            BY <1>1, <1>3, <3>1 DEF ListStanding
    <2>2. CASE \E r \in Runs : run'[r] # run[r]
        BY <1>1, <2>2
    <2> QED
        BY <2>1, <2>2
<1> QED
    BY <1>2, <1>3

LEMMA RunsInvLasts ==
    ASSUME StreamInv, Announced, RunsInv
    PROVE  RunsInv'
<1>1. /\ \A r : InLog(r) => InLog(r)'
      /\ \A r \in Runs : run'[r] = run[r] \/ InLog(r)'
    BY AnnouncedIsDue
<1> QED
    BY <1>1 DEF RunsInv, RunsKnown, Announced

LEMMA ListsLast ==
    ASSUME ListsInv, RunsInv, ListsFrom, \A r : InLog(r) => InLog(r)'
    PROVE  ListsInv'
<1>1. \A l : GoodList(l) => l = [r \in Runs |-> l[r]] /\ \A r \in Runs : l[r] # "absent" => InLog(r)'
    BY DEF GoodList
<1>2. GoodList(Statuses)
    BY DEF GoodList, Statuses, RunsInv
<1>3. ASSUME NEW j \in DOMAIN calls'
      PROVE  GoodList(calls[j].list)'
    <2>1. PICK m : m = calls'[j].list /\ GoodList(m)
        BY <1>2 DEF ListsFrom, ListsInv
    <2>2. m = [r \in Runs |-> m[r]] /\ \A r \in Runs : m[r] # "absent" => InLog(r)'
        BY <1>1, <2>1
    <2> QED
        BY <2>1, <2>2 DEF GoodList
<1>4. GoodList(listed)'
    <2>1. PICK l : l = listed' /\ GoodList(l)
        BY DEF ListsFrom, ListsInv
    <2>2. l = [r \in Runs |-> l[r]] /\ \A r \in Runs : l[r] # "absent" => InLog(r)'
        BY <1>1, <2>1
    <2> QED
        BY <2>1, <2>2 DEF GoodList
<1> QED
    BY <1>3, <1>4 DEF ListsInv

LEMMA PageMovesKeep ==
    ASSUME PageInv, Announced, PageMoves
    PROVE  RunsInv' /\ Stages' /\ ListsInv' /\ ViewInv' /\ ListInv'
<1> USE DEF PageInv
<1>1. RunsInv' /\ Stages'
    BY RunsInvLasts DEF PageMoves
<1>2. ListsInv'
    BY ListsLast, AnnouncedIsDue DEF PageMoves
<1>3. ASSUME ordered, selected \in Runs
      PROVE  /\ \A i : LastOf(calls', i, "view") =>
                   /\ calls'[i].run = selected
                   /\ calls'[i].stage = 1 \/ calls'[i].view = View(selected)' \/ Due(selected)'
             /\ NoneOf(calls', "view") => shown' = View(selected)' \/ Due(selected)'
    <2>1. PICK s \in Runs : s = selected
        BY <1>3
    <2>2. s = selected'
        BY <2>1 DEF PageMoves
    <2>3. \A v : Standing(s, v) => v = View(s)' \/ Due(s)'
        BY StandingLasts
    <2>4. ASSUME NEW i, LastOf(calls', i, "view")
          PROVE  /\ calls'[i].run = s
                 /\ calls'[i].stage = 1 \/ calls'[i].view = View(s)' \/ Due(s)'
        <3>1. PICK k : LastOf(calls, k, "view") /\ ViewFollows(calls[k], calls'[i])
            BY <1>3, <2>4 DEF PageMoves, ViewsMove
        <3>2. calls[k].run = s /\ (calls[k].stage = 1 \/ Standing(s, calls[k].view))
            BY <1>3, <2>1, <3>1 DEF ViewInv
        <3>3. calls'[i].stage = 1 \/ Standing(s, calls'[i].view)
            BY <3>1, <3>2 DEF ViewFollows, Standing
        <3> QED
            BY <2>3, <3>1, <3>2, <3>3 DEF ViewFollows
    <2>5. ASSUME NoneOf(calls', "view")
          PROVE  shown' = View(s)' \/ Due(s)'
        <3>1. Standing(s, shown')
            BY <1>3, <2>1, <2>5 DEF PageMoves, ViewsMove, ViewInv
        <3> QED
            BY <2>3, <3>1
    <2> QED
        BY <2>1, <2>2, <2>4, <2>5
<1>4. ViewInv'
    <2>1. ordered' = ordered /\ selected' = selected
        BY DEF Announced, PageMoves
    <2> QED
        BY <1>3, <2>1 DEF ViewInv, Standing
<1>5. ListInv'
    <2>1. \A l : ListStanding(l) => l = Statuses' \/ \E r \in Runs : Due(r)'
        BY StandingLasts
    <2>2. ASSUME ordered, NEW i, LastOf(calls', i, "list")
          PROVE  calls'[i].stage # 3 \/ calls'[i].list = Statuses' \/ \E r \in Runs : Due(r)'
        <3>1. PICK k : LastOf(calls, k, "list") /\ ListFollows(calls[k], calls'[i])
            BY <2>2 DEF PageMoves, ListsMove
        <3>2. calls[k].stage # 3 \/ ListStanding(calls[k].list)
            BY <2>2, <3>1 DEF ListInv
        <3>3. calls'[i].stage # 3 \/ ListStanding(calls'[i].list)
            BY <3>1, <3>2 DEF ListFollows, ListStanding
        <3> QED
            BY <2>1, <3>3
    <2>3. ASSUME ordered, NoneOf(calls', "list")
          PROVE  listed' = Statuses' \/ \E r \in Runs : Due(r)'
        <3>1. ListStanding(listed')
            BY <2>3 DEF PageMoves, ListsMove, ListInv
        <3> QED
            BY <2>1, <3>1
    <2>4. ordered' = ordered
        BY DEF Announced
    <2> QED
        BY <2>2, <2>3, <2>4 DEF ListInv, ListStanding
<1> QED
    BY <1>1, <1>2, <1>4, <1>5

-------------------------------------------------------------------------------
(* How each step moves the requests of the page on. *)

(* The same request, but for its button.                                   *)
SameCall(c, d) ==
    d.kind = c.kind /\ d.run = c.run /\ d.stage = c.stage /\ d.view = c.view /\ d.list = c.list

SameCalls(s, t) == DOMAIN t = DOMAIN s /\ \A j \in DOMAIN s : SameCall(s[j], t[j])

LEMMA SameLast ==
    ASSUME NEW s, NEW t, NEW what, DOMAIN t = DOMAIN s,
           \A j \in DOMAIN s : t[j].kind = s[j].kind /\ t[j].run = s[j].run
    PROVE  /\ \A j : LastOf(t, j, what) <=> LastOf(s, j, what)
           /\ NoneOf(t, what) <=> NoneOf(s, what)
<1>1. \A j \in DOMAIN s : Bears(t[j], what) <=> Bears(s[j], what)
    BY DEF Bears
<1> QED
    BY <1>1 DEF LastOf, NoneOf

LEMMA DetachedIsSame ==
    ASSUME NEW cs, \A j \in DOMAIN cs : DOMAIN cs[j] = RequestFields
    PROVE  SameCalls(cs, Detached(cs))
    BY DEF SameCalls, SameCall, Detached, RequestFields

LEMMA CallsAreGood ==
    ASSUME AnswerInv
    PROVE  IsList(calls) /\ \A j \in DOMAIN calls : GoodCall(calls[j]) /\ DOMAIN calls[j] = RequestFields
    BY DEF AnswerInv, CallsInv, GoodCall

(* Steps that leave the requests as they are, or detach their buttons.     *)
LEMMA SameCallsMove ==
    ASSUME PageInv, SameCalls(calls, calls'), UNCHANGED <<selected, shown, listed>>
    PROVE  PageMoves
<1>1. DOMAIN calls' = DOMAIN calls /\ \A j \in DOMAIN calls : SameCall(calls[j], calls'[j])
    BY DEF SameCalls
<1>2. \A what : /\ \A j : LastOf(calls', j, what) <=> LastOf(calls, j, what)
                /\ NoneOf(calls', what) <=> NoneOf(calls, what)
    BY <1>1, SameLast DEF SameCall
<1>3. \A j : LastOf(calls, j, "view") => ViewFollows(calls[j], calls'[j])
    BY <1>1 DEF SameCall, LastOf, ViewFollows
<1>4. \A j : LastOf(calls, j, "list") => ListFollows(calls[j], calls'[j])
    BY <1>1 DEF SameCall, LastOf, ListFollows
<1>5. ViewsMove /\ ListsMove
    BY <1>2, <1>3, <1>4 DEF ViewsMove, ListsMove
<1>6. Stages' /\ ListsFrom
    BY <1>1 DEF PageInv, Stages, SameCall, ListsFrom
<1> QED
    BY <1>5, <1>6 DEF PageMoves

LEMMA UnchangedMove ==
    ASSUME PageInv, UNCHANGED <<calls, selected, shown, listed>>
    PROVE  PageMoves
    BY SameCallsMove DEF SameCalls, SameCall

(* A command that is sent brings the page nothing.                         *)
LEMMA PostMoves ==
    ASSUME PageInv, AnswerInv, NEW command, Post(command), UNCHANGED <<selected, shown, listed>>
    PROVE  PageMoves
<1> DEFINE c == [Request("post", shown.run) EXCEPT !.command = command, !.live = TRUE]
<1>1. c.kind = "post" /\ c.stage = 1 /\ c.list = Statuses
    BY DEF Request
<1>2. calls' = Append(calls, c) /\ IsList(calls)
    BY CallsAreGood DEF Post, Load
<1>3. ~Bears(c, "view") /\ ~Bears(c, "list")
    BY <1>1 DEF Bears
<1> HIDE DEF c
<1>4. /\ \A j : LastOf(calls', j, "view") => LastOf(calls, j, "view") /\ calls'[j] = calls[j]
      /\ NoneOf(calls', "view") => NoneOf(calls, "view")
      /\ \A j : LastOf(calls', j, "list") => LastOf(calls, j, "list") /\ calls'[j] = calls[j]
      /\ NoneOf(calls', "list") => NoneOf(calls, "list")
    <2>1. ASSUME NEW what, ~Bears(c, what)
          PROVE  /\ \A j : LastOf(Append(calls, c), j, what) =>
                       LastOf(calls, j, what) /\ Append(calls, c)[j] = calls[j]
                 /\ NoneOf(Append(calls, c), what) => NoneOf(calls, what)
        BY <1>2, <2>1, AppendLast
    <2> QED
        BY <1>2, <1>3, <2>1
<1>5. ViewsMove
    BY <1>4 DEF ViewsMove, ViewFollows
<1>6. ListsMove
    BY <1>4 DEF ListsMove, ListFollows
<1>7. \A j \in DOMAIN calls' : calls'[j] = c \/ (j \in DOMAIN calls /\ calls'[j] = calls[j])
    BY <1>2, ListAppend
<1>8. Stages' /\ ListsFrom
    BY <1>1, <1>7 DEF PageInv, Stages, ListsFrom
<1> QED
    BY <1>5, <1>6, <1>8 DEF PageMoves

(* A request that is answered on the server, without another effect on the *)
(* page: only its stage, view and list change.                             *)
LEMMA ServedMoves ==
    ASSUME PageInv, NEW i \in DOMAIN calls, NEW c,
           calls' = [calls EXCEPT ![i] = c], UNCHANGED <<selected, shown, listed>>,
           c.kind = calls[i].kind, c.run = calls[i].run, c.stage \in {2, 3},
           c.kind = "view" => ViewFollows(calls[i], c),
           c.kind \in {"view", "list"} => ListFollows(calls[i], c),
           c.list = Statuses \/ c.list = calls[i].list
    PROVE  PageMoves
<1>1. DOMAIN calls' = DOMAIN calls
    OBVIOUS
<1>2. \A j \in DOMAIN calls : j # i => calls'[j] = calls[j]
    OBVIOUS
<1>3. calls'[i] = c
    OBVIOUS
<1>4. \A j \in DOMAIN calls : calls'[j].kind = calls[j].kind /\ calls'[j].run = calls[j].run
    BY <1>2, <1>3
<1>5. \A what : /\ \A j : LastOf(calls', j, what) <=> LastOf(calls, j, what)
                /\ NoneOf(calls', what) <=> NoneOf(calls, what)
    BY <1>1, <1>4, SameLast
<1>6. \A j : LastOf(calls, j, "view") => ViewFollows(calls[j], calls'[j])
    BY <1>2, <1>3 DEF LastOf, Bears, ViewFollows
<1>7. \A j : LastOf(calls, j, "list") => ListFollows(calls[j], calls'[j])
    BY <1>2, <1>3 DEF LastOf, Bears, ListFollows
<1>8. ViewsMove /\ ListsMove
    BY <1>5, <1>6, <1>7 DEF ViewsMove, ListsMove
<1>9. Stages'
    BY <1>1, <1>2, <1>3 DEF PageInv, Stages
<1>10. ListsFrom
    BY <1>1, <1>2, <1>3 DEF ListsFrom
<1> QED
    BY <1>8, <1>9, <1>10 DEF PageMoves

LEMMA ServeRunMoves ==
    ASSUME PageInv, AnswerInv, NEW i \in DOMAIN calls, ServeRun(i)
    PROVE  PageMoves
<1>1. /\ calls[i].stage = 1 /\ calls[i].kind = "view" /\ UNCHANGED <<selected, shown, listed>>
      /\ DOMAIN calls[i] = RequestFields /\ IsList(calls)
    BY CallsAreGood DEF ServeRun, Moves, viewVars
<1>2. CASE calls[i].run # NoRun
    <2> DEFINE c == [calls[i] EXCEPT !.stage = 2, !.view = View(calls[i].run)]
    <2>1. calls' = [calls EXCEPT ![i] = c]
        BY <1>2 DEF ServeRun
    <2>2. /\ c.kind = calls[i].kind /\ c.run = calls[i].run /\ c.stage = 2
          /\ c.view = View(calls[i].run) /\ c.list = calls[i].list
        BY <1>1 DEF RequestFields
    <2> HIDE DEF c
    <2>3. ViewFollows(calls[i], c) /\ ListFollows(calls[i], c)
        BY <1>1, <2>2 DEF ViewFollows, ListFollows
    <2> QED
        BY <1>1, <2>1, <2>2, <2>3, ServedMoves
<1>3. CASE calls[i].run = NoRun
    <2>1. calls' = RemoveAt(calls, i)
        BY <1>3 DEF ServeRun
    <2>2. \A what : /\ NoneOf(calls', what) => NoneOf(calls, what) \/ LastOf(calls, i, what)
                    /\ \A j : LastOf(calls', j, what) =>
                          \E k \in DOMAIN calls :
                              /\ calls'[j] = calls[k]
                              /\ LastOf(calls, k, what) \/ (LastOf(calls, i, what) /\ i # 1)
        BY <1>1, <2>1, RemoveLast
    <2>3. ordered /\ selected \in Runs => ~LastOf(calls, i, "view")
        BY <1>3, RunPageAssumption DEF PageInv, ViewInv
    <2>4. ~LastOf(calls, i, "list")
        BY <1>1, <1>3 DEF LastOf, Bears
    <2>5. ordered /\ selected \in Runs => ViewsMove
        BY <1>1, <2>2, <2>3 DEF ViewsMove, ViewFollows
    <2>6. ListsMove
        BY <1>1, <2>2, <2>4 DEF ListsMove, ListFollows
    <2>7. \A j \in DOMAIN calls' : \E k \in DOMAIN calls : calls'[j] = calls[k]
        BY <1>1, <2>1, ListRemove
    <2>8. Stages' /\ ListsFrom
        BY <1>1, <2>7 DEF PageInv, Stages, ListsFrom
    <2> QED
        BY <1>1, <2>5, <2>6, <2>8 DEF PageMoves
<1> QED
    BY <1>2, <1>3

LEMMA ServeRunsMoves ==
    ASSUME PageInv, AnswerInv, NEW i \in DOMAIN calls, ServeRuns(i)
    PROVE  PageMoves
<1>1. /\ calls[i].stage = 2 /\ UNCHANGED <<selected, shown, listed>>
      /\ DOMAIN calls[i] = RequestFields
    BY CallsAreGood DEF ServeRuns, Moves, viewVars
<1> DEFINE c == [calls[i] EXCEPT !.stage = 3, !.list = Statuses]
<1>2. calls' = [calls EXCEPT ![i] = c]
    BY DEF ServeRuns
<1>3. /\ c.kind = calls[i].kind /\ c.run = calls[i].run /\ c.stage = 3
      /\ c.view = calls[i].view /\ c.list = Statuses
    BY <1>1 DEF RequestFields
<1> HIDE DEF c
<1> QED
    BY <1>1, <1>2, <1>3, ServedMoves DEF ViewFollows, ListFollows

LEMMA ServeCommandMoves ==
    ASSUME PageInv, AnswerInv, NEW i \in DOMAIN calls, ServeCommand(i)
    PROVE  PageMoves
<1>1. /\ calls[i].kind = "post" /\ UNCHANGED <<selected, shown, listed>>
      /\ DOMAIN calls[i] = RequestFields
    BY CallsAreGood DEF ServeCommand, viewVars
<1> DEFINE c == [calls[i] EXCEPT !.stage = 3]
<1>2. calls' = [calls EXCEPT ![i] = c]
    BY DEF ServeCommand
<1>3. c.kind = "post" /\ c.run = calls[i].run /\ c.stage = 3 /\ c.list = calls[i].list
    BY <1>1 DEF RequestFields
<1> HIDE DEF c
<1> QED
    BY <1>1, <1>2, <1>3, ServedMoves

(* The reply of request i is rendered, if it is of a view or a list.       *)
LEMMA ReceivedMoves ==
    ASSUME PageInv, AnswerInv, NEW i \in DOMAIN calls, Moves(calls, i, 3),
           SameCalls(RemoveAt(calls, i), calls'), UNCHANGED selected,
           shown' = IF calls[i].kind = "view" THEN calls[i].view ELSE shown,
           listed' = IF calls[i].kind \in {"view", "list"} THEN calls[i].list ELSE listed
    PROVE  PageMoves
<1> DEFINE rest == RemoveAt(calls, i)
<1>1. IsList(calls) /\ calls[i].stage = 3
    BY CallsAreGood DEF Moves
<1>2. \A what : /\ NoneOf(rest, what) => NoneOf(calls, what) \/ LastOf(calls, i, what)
                /\ \A j : LastOf(rest, j, what) =>
                      \E k \in DOMAIN calls :
                          /\ rest[j] = calls[k]
                          /\ LastOf(calls, k, what) \/ (LastOf(calls, i, what) /\ i # 1)
    BY <1>1, RemoveLast
<1>3. \A j \in DOMAIN rest : \E k \in DOMAIN calls : rest[j] = calls[k]
    BY <1>1, ListRemove
<1> HIDE DEF rest
<1>4. DOMAIN calls' = DOMAIN rest /\ \A j \in DOMAIN rest : SameCall(rest[j], calls'[j])
    BY DEF SameCalls, rest
<1>5. \A what : /\ \A j : LastOf(calls', j, what) <=> LastOf(rest, j, what)
                /\ NoneOf(calls', what) <=> NoneOf(rest, what)
    BY <1>4, SameLast DEF SameCall
<1>6. ordered => i = 1
    BY <1>1, FirstReply DEF PageInv, Stages
<1>7. ASSUME ordered, NEW what
      PROVE  /\ NoneOf(calls', what) => NoneOf(calls, what) \/ LastOf(calls, i, what)
             /\ \A j : LastOf(calls', j, what) =>
                   \E k : LastOf(calls, k, what) /\ SameCall(calls[k], calls'[j])
    <2>1. NoneOf(calls', what) => NoneOf(calls, what) \/ LastOf(calls, i, what)
        BY <1>2, <1>5
    <2>2. ASSUME NEW j, LastOf(calls', j, what)
          PROVE  \E k : LastOf(calls, k, what) /\ SameCall(calls[k], calls'[j])
        <3>1. PICK k \in DOMAIN calls : rest[j] = calls[k] /\ LastOf(calls, k, what)
            BY <1>2, <1>5, <1>6, <1>7, <2>2
        <3>2. j \in DOMAIN rest
            BY <1>4, <2>2 DEF LastOf
        <3> QED
            BY <1>4, <3>1, <3>2
    <2> QED
        BY <2>1, <2>2
<1>8. ordered => ViewsMove
    <2>1. ASSUME ordered, NEW j, LastOf(calls', j, "view")
          PROVE  \E k : LastOf(calls, k, "view") /\ ViewFollows(calls[k], calls'[j])
        BY <1>7, <2>1 DEF SameCall, ViewFollows
    <2>2. ASSUME ordered, NoneOf(calls', "view")
          PROVE  \/ NoneOf(calls, "view") /\ shown' = shown
                 \/ \E k : LastOf(calls, k, "view") /\ calls[k].stage # 1 /\ shown' = calls[k].view
        <3>1. CASE LastOf(calls, i, "view")
            <4>1. calls[i].kind = "view"
                BY <3>1 DEF LastOf, Bears
            <4> QED
                BY <1>1, <3>1, <4>1
        <3>2. CASE NoneOf(calls, "view")
            <4>1. calls[i].kind # "view"
                BY <3>2 DEF NoneOf, Bears
            <4> QED
                BY <3>2, <4>1
        <3> QED
            BY <1>7, <2>2, <3>1, <3>2
    <2> QED
        BY <2>1, <2>2 DEF ViewsMove
<1>9. ordered => ListsMove
    <2>1. ASSUME ordered, NEW j, LastOf(calls', j, "list")
          PROVE  \E k : LastOf(calls, k, "list") /\ ListFollows(calls[k], calls'[j])
        BY <1>7, <2>1 DEF SameCall, ListFollows
    <2>2. ASSUME ordered, NoneOf(calls', "list")
          PROVE  \/ NoneOf(calls, "list") /\ listed' = listed
                 \/ \E k : LastOf(calls, k, "list") /\ calls[k].stage = 3 /\ listed' = calls[k].list
        <3>1. CASE LastOf(calls, i, "list")
            <4>1. calls[i].kind \in {"view", "list"}
                BY <3>1 DEF LastOf, Bears
            <4> QED
                BY <1>1, <3>1, <4>1
        <3>2. CASE NoneOf(calls, "list")
            <4>1. calls[i].kind \notin {"view", "list"}
                <5>1. calls[i].kind = "view" => calls[i].run # NoRun
                    <6>1. GoodCall(calls[i])
                        BY CallsAreGood
                    <6> QED
                        BY <1>1, <6>1, RunPageAssumption DEF GoodCall
                <5> QED
                    BY <3>2, <5>1 DEF NoneOf, Bears
            <4> QED
                BY <3>2, <4>1
        <3> QED
            BY <1>7, <2>2, <3>1, <3>2
    <2> QED
        BY <2>1, <2>2 DEF ListsMove
<1>10. Stages' /\ ListsFrom
    BY <1>3, <1>4 DEF PageInv, Stages, SameCall, ListsFrom
<1> QED
    BY <1>8, <1>9, <1>10 DEF PageMoves

-------------------------------------------------------------------------------
(* A request for a run, an event, and a restart. *)

(* The view of a run that is asked for now is the last, and is read later. *)
LEMMA AskedIsFresh ==
    ASSUME IsList(calls), NEW r \in Runs, SelectRun(r)
    PROVE  ViewInv' /\ ListInv'
<1> DEFINE c == Request("view", r)
<1>1. c.kind = "view" /\ c.stage = 1 /\ c.run = r
    BY DEF Request
<1>2. Bears(c, "view") /\ Bears(c, "list")
    BY <1>1, RunPageAssumption DEF Bears
<1>3. calls' = Append(calls, c) /\ selected' = r
    BY DEF SelectRun, Load
<1> HIDE DEF c
<1>4. /\ ~NoneOf(calls', "view") /\ \A j : LastOf(calls', j, "view") => calls'[j] = c
      /\ ~NoneOf(calls', "list") /\ \A j : LastOf(calls', j, "list") => calls'[j] = c
    <2>1. ASSUME NEW what, Bears(c, what)
          PROVE  /\ ~NoneOf(Append(calls, c), what)
                 /\ \A j : LastOf(Append(calls, c), j, what) => Append(calls, c)[j] = c
        BY <2>1, AppendLast
    <2> QED
        BY <1>2, <1>3, <2>1
<1>5. ViewInv'
    BY <1>1, <1>3, <1>4 DEF ViewInv
<1>6. ListInv'
    BY <1>1, <1>4 DEF ListInv
<1> QED
    BY <1>5, <1>6

LEMMA LoadedFrom ==
    ASSUME Stages, IsList(calls), NEW c, c.stage \in {1, 2}, c.list = Statuses,
           calls' = Append(calls, c), listed' = listed
    PROVE  Stages' /\ ListsFrom
<1>1. \A j \in DOMAIN calls' : calls'[j] = c \/ (j \in DOMAIN calls /\ calls'[j] = calls[j])
    BY ListAppend
<1> QED
    BY <1>1 DEF Stages, ListsFrom

LEMMA SelectRunKeepsPage ==
    ASSUME PageInv, AnswerInv, Announced, NEW r \in Runs, InLog(r), SelectRun(r),
           UNCHANGED <<shown, listed>>
    PROVE  /\ RunsInv' /\ Stages' /\ ListsInv' /\ ViewInv' /\ ListInv'
           /\ selected' \in Runs /\ InLog(selected)'
<1> USE DEF PageInv
<1> DEFINE c == Request("view", r)
<1>1. c.stage = 1 /\ c.list = Statuses
    BY DEF Request
<1>2. calls' = Append(calls, c) /\ IsList(calls) /\ selected' = r
    BY CallsAreGood DEF SelectRun, Load
<1> HIDE DEF c
<1>3. Stages' /\ ListsFrom
    BY <1>1, <1>2, LoadedFrom
<1>4. ListsInv' /\ RunsInv'
    BY <1>3, ListsLast, RunsInvLasts, AnnouncedIsDue
<1>5. ViewInv' /\ ListInv'
    BY <1>2, AskedIsFresh
<1>6. InLog(selected)'
    <2>1. InLog(r)'
        BY AnnouncedIsDue
    <2> QED
        BY <1>2, <2>1 DEF InLog
<1> QED
    BY <1>2, <1>3, <1>4, <1>5, <1>6

LEMMA DeliverKeepsPage ==
    ASSUME PageInv, AnswerInv, Deliver
    PROVE  PageInv'
<1> USE DEF PageInv
<1>1. PICK r \in Runs \cup {NoRun} : NextEvent(r) /\ HandleRunEvent(r)
    BY DEF Deliver
<1>2. UNCHANGED <<run, log, ordered, shown, listed, docker, forms>>
    BY DEF Deliver, serverRunVars, viewVars, startVars, setupVars
<1>3. IsList(calls)
    BY CallsAreGood
<1>4. StreamInv' /\ r = log[cursor + 1] /\ cursor' = cursor + 1
    <2>1. PICK S : log \in Seq(S)
        BY DEF StreamInv, IsList
    <2>2. Len(log) \in Nat
        BY <2>1
    <2> QED
        BY <1>1, <1>2, <2>2 DEF NextEvent, Undelivered, StreamInv
<1>5. ASSUME NEW x, x # r, Due(x)
      PROVE  Due(x)'
    BY <1>1, <1>2, <1>4, <1>5, DeliveredElse DEF NextEvent
<1>6. \A x : InLog(x) => InLog(x)'
    BY <1>2 DEF InLog
<1>7. InLog(r)
    <2>1. PICK S : log \in Seq(S)
        BY DEF StreamInv, IsList
    <2>2. cursor + 1 \in DOMAIN log
        BY <1>1, <2>1 DEF StreamInv, NextEvent, Undelivered
    <2> QED
        BY <1>4, <2>2 DEF InLog
<1>8. RunsInv' /\ DockerKnown' /\ Statuses' = Statuses /\ \A x : View(x)' = View(x)
    BY <1>2, <1>6 DEF RunsInv, RunsKnown, DockerKnown, Statuses, View
<1>9. PICK c : /\ calls' = Append(calls, c) /\ c.stage \in {1, 2} /\ c.list = Statuses
               /\ \/ r = selected /\ selected' = r /\ c = Request("view", r)
                  \/ r # selected /\ selected' = selected /\ c.kind = "list" /\ c.stage = 2
    <2>1. CASE r = selected
        <3>1. SelectRun(r)
            BY <1>1, <2>1 DEF HandleRunEvent
        <3>2. calls' = Append(calls, Request("view", r)) /\ selected' = r
            BY <3>1 DEF SelectRun, Load
        <3>3. Request("view", r).stage = 1 /\ Request("view", r).list = Statuses
            BY DEF Request
        <3> QED
            BY <2>1, <3>2, <3>3
    <2>2. CASE r # selected
        <3> DEFINE c == [Request("list", NoRun) EXCEPT !.stage = 2]
        <3>1. calls' = Append(calls, c) /\ selected' = selected
            BY <1>1, <2>2 DEF HandleRunEvent, LoadRuns, Load
        <3>2. c.stage = 2 /\ c.list = Statuses /\ c.kind = "list"
            BY DEF Request
        <3> QED
            BY <2>2, <3>1, <3>2
    <2> QED
        BY <2>1, <2>2
<1>10. Stages' /\ ListsInv'
    BY <1>2, <1>3, <1>6, <1>9, LoadedFrom, ListsLast
<1>11. ChosenInv'
    <2>1. selected' = selected
        BY <1>9
    <2> QED
        BY <1>2, <1>6, <2>1 DEF ChosenInv, InLog
<1>12. ASSUME NEW what, ~Bears(c, what)
       PROVE  /\ NoneOf(Append(calls, c), what) => NoneOf(calls, what)
              /\ \A j : LastOf(Append(calls, c), j, what) =>
                    LastOf(calls, j, what) /\ Append(calls, c)[j] = calls[j]
    BY <1>3, <1>12, AppendLast
<1>13. ASSUME NEW what, Bears(c, what)
       PROVE  /\ ~NoneOf(Append(calls, c), what)
              /\ \A j : LastOf(Append(calls, c), j, what) => Append(calls, c)[j] = c
    BY <1>3, <1>13, AppendLast
<1>14. CASE r = selected /\ r \in Runs
    <2>1. ViewInv' /\ ListInv'
        BY <1>1, <1>3, <1>14, AskedIsFresh DEF HandleRunEvent
    <2> QED
        BY <1>4, <1>8, <1>10, <1>11, <2>1
<1>15. CASE r = selected /\ r = NoRun
    <2>1. c.kind = "view" /\ c.run = NoRun
        BY <1>9, <1>15 DEF Request
    <2>2. ~Bears(c, "list")
        BY <2>1 DEF Bears
    <2>3. /\ NoneOf(calls', "list") => NoneOf(calls, "list")
          /\ \A j : LastOf(calls', j, "list") => LastOf(calls, j, "list") /\ calls'[j] = calls[j]
        BY <1>9, <1>12, <2>2
    <2>4. \A l : ListStanding(l) => l = Statuses' \/ \E x \in Runs : Due(x)'
        BY <1>5, <1>8, <1>15, RunPageAssumption DEF ListStanding
    <2>5. ListInv'
        BY <1>2, <2>3, <2>4 DEF ListInv, ListStanding
    <2>6. ViewInv'
        BY <1>9, <1>15, RunPageAssumption DEF ViewInv
    <2> QED
        BY <1>4, <1>8, <1>10, <1>11, <2>5, <2>6
<1>16. CASE r # selected
    <2>1. c.kind = "list" /\ c.stage = 2 /\ selected' = selected
        BY <1>9, <1>16
    <2>2. ~Bears(c, "view") /\ Bears(c, "list")
        BY <2>1 DEF Bears
    <2>3. /\ NoneOf(calls', "view") => NoneOf(calls, "view")
          /\ \A j : LastOf(calls', j, "view") => LastOf(calls, j, "view") /\ calls'[j] = calls[j]
        BY <1>9, <1>12, <2>2
    <2>4. ~NoneOf(calls', "list") /\ \A j : LastOf(calls', j, "list") => calls'[j] = c
        BY <1>9, <1>13, <2>2
    <2>5. ListInv'
        BY <2>1, <2>4 DEF ListInv
    <2>6. PICK s : s = selected
        OBVIOUS
    <2>7. \A v : Standing(s, v) => v = View(s)' \/ Due(s)'
        BY <1>5, <1>8, <1>16, <2>6 DEF Standing
    <2>8. ASSUME ordered, s \in Runs
          PROVE  /\ \A j : LastOf(calls', j, "view") =>
                       /\ calls'[j].run = s
                       /\ calls'[j].stage = 1 \/ calls'[j].view = View(s)' \/ Due(s)'
                 /\ NoneOf(calls', "view") => shown' = View(s)' \/ Due(s)'
        BY <1>2, <2>3, <2>6, <2>7, <2>8 DEF ViewInv
    <2>9. ViewInv'
        BY <1>2, <2>1, <2>6, <2>8 DEF ViewInv, Standing
    <2> QED
        BY <1>4, <1>8, <1>10, <1>11, <2>5, <2>9
<1> QED
    BY <1>14, <1>15, <1>16

(* The table is sent again from the start: whatever the page has missed,   *)
(* an event will make it ask.                                              *)
LEMMA InterruptedKeepsPage ==
    ASSUME PageInv, Interrupted
    PROVE  PageInv'
<1> USE DEF PageInv
<1>1. /\ UNCHANGED <<run, log, ordered, shown, listed, docker, selected>>
      /\ calls' = <<>> /\ forms' = <<>> /\ cursor' = 0
    BY DEF Interrupted, RunCallsFail, SetupCallsFail, StartCallsFail, Reconnect, serverRunVars
<1>2. PICK S : log \in Seq(S)
    BY DEF StreamInv, IsList
<1>3. StreamInv' /\ \A x : InLog(x) => Due(x)' /\ InLog(x)'
    BY <1>1, <1>2 DEF StreamInv, InLog, Due
<1>4. RunsInv' /\ DockerKnown' /\ Stages' /\ ListsInv' /\ ChosenInv'
    <2>1. DOMAIN calls' = {} /\ DOMAIN forms' = {}
        BY <1>1, ListEmpty
    <2> QED
        BY <1>1, <2>1 DEF RunsInv, RunsKnown, DockerKnown, Stages, ListsInv, GoodList, InLog, ChosenInv
<1>5. \A j, what : ~LastOf(calls', j, what)
    BY <1>1, ListEmpty DEF LastOf
<1>6. ViewInv'
    <2>1. PICK s : s = selected
        OBVIOUS
    <2>2. s \in Runs => Due(s)'
        BY <1>3, <2>1 DEF ChosenInv
    <2> QED
        BY <1>1, <1>5, <2>1, <2>2 DEF ViewInv, Standing
<1>7. ListInv'
    <2>1. listed = Statuses \/ \E r \in Runs : InLog(r)
        <3>1. listed = [r \in Runs |-> listed[r]] /\ \A r \in Runs : listed[r] # "absent" => InLog(r)
            BY DEF ListsInv, GoodList
        <3>2. CASE \A r \in Runs : listed[r] = "absent" /\ run[r].status = "absent"
            <4>1. \A r \in Runs : listed[r] = run[r].status
                BY <3>2
            <4> QED
                BY <3>1, <4>1 DEF Statuses
        <3>3. CASE \E r \in Runs : listed[r] # "absent" \/ run[r].status # "absent"
            BY <3>1, <3>3 DEF RunsInv
        <3> QED
            BY <3>2, <3>3
    <2>2. listed' = Statuses' \/ \E r \in Runs : Due(r)'
        <3>1. Statuses' = Statuses
            BY <1>1 DEF Statuses
        <3> QED
            BY <1>1, <1>3, <2>1, <3>1
    <2> QED
        BY <1>5, <2>2 DEF ListInv, ListStanding
<1> QED
    BY <1>3, <1>4, <1>6, <1>7

-------------------------------------------------------------------------------
(* All steps. *)

LEMMA InitPageInv ==
    ASSUME Init
    PROVE  PageInv
<1>1. IsFiniteSet(Runs \ NewRuns)
    BY RunPageAssumption, FS_Subset
<1>2. IsList(log) /\ \A r \in Runs \ NewRuns : InLog(r)
    BY <1>1, ListOfSet DEF Init, InLog
<1>3. StreamInv
    <2>1. PICK S : log \in Seq(S)
        BY <1>2 DEF IsList
    <2>2. Len(log) \in Nat
        BY <2>1
    <2> QED
        BY <1>2, <2>2 DEF Init, StreamInv
<1>4. DockerKnown
    BY DEF Init, SetupInit, DockerKnown
<1>5. /\ run = [r \in Runs |->
                   IF r \in NewRuns THEN [status |-> "absent", gate |-> 0, opened |-> 0]
                   ELSE [status |-> "awaiting_user", gate |-> 1, opened |-> 1]]
      /\ selected = NoRun /\ calls = <<>> /\ forms = <<>> /\ listed = Statuses
    BY DEF Init, RunPageInit, StartInit
<1>6. RunsInv
    BY <1>2, <1>5 DEF RunsInv, RunsKnown
<1>7. Stages /\ ChosenInv
    BY <1>5, ListEmpty, RunPageAssumption DEF Stages, ChosenInv
<1>8. ListsInv
    <2>1. listed = [r \in Runs |-> listed[r]] /\ \A r \in Runs : listed[r] = run[r].status
        BY <1>5 DEF Statuses
    <2> QED
        BY <1>5, <1>6, <2>1, ListEmpty DEF ListsInv, GoodList, RunsInv
<1>9. ViewInv
    BY <1>5, RunPageAssumption DEF ViewInv
<1>10. ListInv
    BY <1>5, ListEmpty DEF ListInv, LastOf, ListStanding
<1> QED
    BY <1>3, <1>4, <1>6, <1>7, <1>8, <1>9, <1>10 DEF PageInv

(* The forms under way bring runs that are in the table of events.         *)
FormsFrom ==
    \A j \in DOMAIN forms' :
        \/ forms'[j].run = NoRun \/ InLog(forms[j].run)'
        \/ \E k \in DOMAIN forms : forms'[j].run = forms[k].run

LEMMA ChosenLasts ==
    ASSUME ChosenInv, StreamInv, Announced, FormsFrom,
           selected' = selected \/ (selected' \in Runs /\ InLog(selected)')
    PROVE  ChosenInv'
<1>1. \A r : InLog(r) => InLog(r)'
    BY AnnouncedIsDue
<1>2. PICK s : s = selected'
    OBVIOUS
<1>3. s \in Runs \cup {NoRun} /\ (s \in Runs => InLog(s)')
    <2>1. CASE selected' = selected
        BY <1>1, <1>2, <2>1 DEF ChosenInv
    <2>2. CASE selected' \in Runs /\ InLog(selected)'
        BY <1>2, <2>2 DEF InLog
    <2> QED
        BY <2>1, <2>2
<1>4. ASSUME NEW j \in DOMAIN forms', forms'[j].run \in Runs
      PROVE  InLog(forms[j].run)'
    <2>1. CASE \E k \in DOMAIN forms : forms'[j].run = forms[k].run
        <3>1. PICK r : r = forms'[j].run /\ InLog(r)
            BY <1>4, <2>1 DEF ChosenInv
        <3> QED
            BY <1>1, <3>1 DEF InLog
    <2> QED
        BY <1>4, <2>1, RunPageAssumption DEF FormsFrom
<1> QED
    BY <1>2, <1>3, <1>4 DEF ChosenInv, InLog

LEMMA FormsUnchanged ==
    ASSUME UNCHANGED forms
    PROVE  FormsFrom
    BY DEF FormsFrom

(* What remains to be shown of a step that announces its changes.          *)
LEMMA MovesKeepPage ==
    ASSUME PageInv, Announced, DockerKnown', FormsFrom, PageMoves
    PROVE  PageInv'
<1>1. StreamInv'
    BY AnnouncedIsDue DEF PageInv
<1>2. ChosenInv'
    BY ChosenLasts DEF PageInv, PageMoves
<1> QED
    BY <1>1, <1>2, PageMovesKeep DEF PageInv

LEMMA SelectingKeepsPage ==
    ASSUME PageInv, AnswerInv, Announced, DockerKnown', FormsFrom,
           NEW r \in Runs, InLog(r), SelectRun(r), UNCHANGED <<shown, listed>>
    PROVE  PageInv'
<1>1. StreamInv'
    BY AnnouncedIsDue DEF PageInv
<1>2. /\ RunsInv' /\ Stages' /\ ListsInv' /\ ViewInv' /\ ListInv'
      /\ selected' \in Runs /\ InLog(selected)'
    BY SelectRunKeepsPage
<1>3. ChosenInv'
    BY <1>2, ChosenLasts DEF PageInv
<1> QED
    BY <1>1, <1>2, <1>3 DEF PageInv

LEMMA RunPageKeepsPage ==
    ASSUME PageInv, AnswerInv, RunPageNext, UNCHANGED <<setupVars, startVars>>
    PROVE  PageInv'
<1>1. Announced /\ DockerKnown' /\ FormsFrom
    <2>1. RunsKnown /\ DockerKnown
        BY DEF PageInv, RunsInv
    <2>2. Announced
        BY <2>1, RunPageAnnounces
    <2>3. UNCHANGED <<docker, forms>>
        BY DEF setupVars, startVars
    <2> QED
        BY <2>1, <2>2, <2>3, FormsUnchanged DEF DockerKnown
<1>2. PageMoves => PageInv'
    BY <1>1, MovesKeepPage
<1>3. ASSUME NEW r \in Runs, ChooseRun(r)
      PROVE  PageInv'
    <2>1. SelectRun(r) /\ UNCHANGED <<shown, listed>> /\ listed[r] # "absent"
        BY <1>3 DEF ChooseRun, viewVars
    <2>2. InLog(r)
        BY <2>1 DEF PageInv, ListsInv, GoodList
    <2> QED
        BY <1>1, <2>1, <2>2, SelectingKeepsPage
<1>4. ASSUME NEW r \in Runs, Advance(r)
      PROVE  PageInv'
    <2>1. UNCHANGED <<calls, selected, shown, listed>>
        BY <1>4 DEF Advance, viewVars
    <2> QED
        BY <1>2, <2>1, UnchangedMove
<1>5. ASSUME NEW i \in DOMAIN calls, ServeRun(i) \/ ServeRuns(i) \/ ServeCommand(i)
      PROVE  PageInv'
    BY <1>2, <1>5, ServeRunMoves, ServeRunsMoves, ServeCommandMoves
<1>6. ASSUME NEW i \in DOMAIN calls, RenderRun(i)
      PROVE  PageInv'
    <2> DEFINE rest == RemoveAt(calls, i)
    <2>1. \A j \in DOMAIN rest : DOMAIN rest[j] = RequestFields
        <3>1. \A j \in DOMAIN rest : \E k \in DOMAIN calls : rest[j] = calls[k]
            BY CallsAreGood, ListRemove
        <3> QED
            BY <3>1, CallsAreGood
    <2> HIDE DEF rest
    <2>2. SameCalls(rest, Detached(rest))
        BY <2>1, DetachedIsSame
    <2>3. /\ Moves(calls, i, 3) /\ calls[i].kind = "view" /\ UNCHANGED selected
          /\ calls' = Detached(rest) /\ shown' = calls[i].view /\ listed' = calls[i].list
        BY <1>6 DEF RenderRun, rest
    <2>4. SameCalls(RemoveAt(calls, i), calls')
        BY <2>2, <2>3 DEF rest
    <2> QED
        BY <1>2, <2>3, <2>4, ReceivedMoves
<1>7. ASSUME NEW i \in DOMAIN calls, RenderRuns(i) \/ ReceivePosted(i)
      PROVE  PageInv'
    <2>1. /\ Moves(calls, i, 3) /\ UNCHANGED <<selected, shown>>
          /\ calls' = RemoveAt(calls, i)
          /\ \/ calls[i].kind = "list" /\ listed' = calls[i].list
             \/ calls[i].kind = "post" /\ listed' = listed
        BY <1>7 DEF RenderRuns, ReceivePosted
    <2>2. SameCalls(RemoveAt(calls, i), calls')
        BY <2>1 DEF SameCalls, SameCall
    <2> QED
        BY <1>2, <2>1, <2>2, ReceivedMoves
<1>8. ASSUME NEW q, TypeText(q)
      PROVE  PageInv'
    <2>1. UNCHANGED <<calls, selected, shown, listed>>
        BY <1>8 DEF TypeText
    <2> QED
        BY <1>2, <2>1, UnchangedMove
<1>9. ASSUME NEW q, NEW button, ToggleQuestion(button, q)
      PROVE  PageInv'
    <2>1. calls' = Detached(calls) /\ UNCHANGED <<selected, shown, listed>>
        BY <1>9 DEF ToggleQuestion
    <2>2. SameCalls(calls, Detached(calls))
        BY CallsAreGood, DetachedIsSame
    <2>3. SameCalls(calls, calls')
        BY <2>1, <2>2
    <2> QED
        BY <1>2, <2>1, <2>3, SameCallsMove
<1>10. ASSUME NEW button, SubmitGateAnswers(button)
       PROVE  PageInv'
    <2>1. UNCHANGED <<selected, shown, listed>>
        BY <1>10 DEF SubmitGateAnswers
    <2>2. \E command : Post(command)
        BY <1>10 DEF SubmitGateAnswers
    <2> QED
        BY <1>2, <2>1, <2>2, PostMoves
<1>11. ASSUME NEW kind, ClickAction(kind)
       PROVE  PageInv'
    <2>1. UNCHANGED <<selected, shown, listed>>
        BY <1>11 DEF ClickAction
    <2>2. \E command : Post(command)
        BY <1>11 DEF ClickAction
    <2> QED
        BY <1>2, <2>1, <2>2, PostMoves
<1>12. ASSUME NEW i \in DOMAIN queue, TakeCommand(i)
       PROVE  PageInv'
    <2>1. UNCHANGED <<calls, selected, shown, listed>>
        BY <1>12 DEF TakeCommand, viewVars
    <2> QED
        BY <1>2, <2>1, UnchangedMove
<1> QED
    BY <1>3, <1>4, <1>5, <1>6, <1>7, <1>8, <1>9, <1>10, <1>11, <1>12 DEF RunPageNext

LEMMA StartFormKeepsPage ==
    ASSUME PageInv, AnswerInv, StartFormNext
    PROVE  PageInv'
<1>1. Announced /\ DockerKnown'
    BY StartFormAnnounces, StartFormLeavesServer DEF PageInv, RunsInv, DockerKnown
<1>2. ASSUME FormsFrom, UNCHANGED <<calls, selected, shown, listed>>
      PROVE  PageInv'
    BY <1>1, <1>2, UnchangedMove, MovesKeepPage
<1>3. IsList(forms) /\ \A j \in DOMAIN forms : GoodForm(forms[j])
    BY DEF AnswerInv, FormsInv
<1>4. ASSUME NEW f, f.run = NoRun, forms' = Append(forms, f)
      PROVE  FormsFrom
    <2>1. \A j \in DOMAIN forms' : forms'[j] = f \/ (j \in DOMAIN forms /\ forms'[j] = forms[j])
        BY <1>3, <1>4, ListAppend
    <2> QED
        BY <1>4, <2>1 DEF FormsFrom
<1>5. ASSUME NEW i \in DOMAIN forms, forms' = RemoveAt(forms, i)
      PROVE  FormsFrom
    <2>1. \A j \in DOMAIN forms' : \E k \in DOMAIN forms : forms'[j] = forms[k]
        BY <1>3, <1>5, ListRemove
    <2> QED
        BY <2>1 DEF FormsFrom
<1>6. ASSUME NEW p, LoadProjectBranches(p)
      PROVE  PageInv'
    <2>1. forms' = Append(forms, FormRequest("branches", p)) /\ FormRequest("branches", p).run = NoRun
        BY <1>6 DEF LoadProjectBranches, FormRequest
    <2>2. UNCHANGED <<calls, selected, shown, listed>>
        BY <1>6 DEF LoadProjectBranches, runPageVars
    <2> QED
        BY <1>2, <1>4, <2>1, <2>2
<1>7. CASE SubmitStart
    <2> DEFINE f == [FormRequest("start", start.project) EXCEPT !.branch = start.branch]
    <2>1. forms' = Append(forms, f) /\ f.run = NoRun
        BY <1>7 DEF SubmitStart, FormRequest
    <2>2. UNCHANGED <<calls, selected, shown, listed>>
        BY <1>7 DEF SubmitStart, runPageVars
    <2> HIDE DEF f
    <2> QED
        BY <1>2, <1>4, <2>1, <2>2
<1>8. ASSUME NEW i \in DOMAIN forms, ListLocalBranches(i) \/ CheckStart(i)
      PROVE  PageInv'
    <2>1. \/ forms' = [forms EXCEPT ![i].stage = 3, ![i].list = Branches[forms[i].project]]
          \/ forms' = [forms EXCEPT ![i].stage = 2, ![i].ready = Ready]
        BY <1>8 DEF ListLocalBranches, CheckStart
    <2>2. FormsFrom
        BY <1>3, <2>1 DEF FormsFrom, GoodForm, FormFields
    <2>3. UNCHANGED <<calls, selected, shown, listed>>
        BY <1>8 DEF ListLocalBranches, CheckStart, runPageVars
    <2> QED
        BY <1>2, <2>2, <2>3
<1>9. ASSUME NEW i \in DOMAIN forms, ServeStart(i)
      PROVE  PageInv'
    <2>1. ASSUME forms' = [forms EXCEPT ![i].stage = 3]
          PROVE  FormsFrom
        BY <1>3, <2>1 DEF FormsFrom, GoodForm, FormFields
    <2>2. ASSUME NEW r \in Runs, CreateRun(i, r)
          PROVE  FormsFrom
        <3>1. log' = Append(log, r) /\ forms' = [forms EXCEPT ![i].stage = 3, ![i].run = r]
            BY <2>2 DEF CreateRun, SetRun, AppendEvent
        <3>2. IsList(log)
            BY DEF PageInv, StreamInv
        <3>3. /\ DOMAIN log' = 1..(Len(log) + 1) /\ Len(log) \in Nat
              /\ log'[Len(log) + 1] = r
            BY <3>1, <3>2, AppendAt
        <3>4. InLog(r)'
            BY <3>3 DEF InLog
        <3>5. ASSUME NEW j \in DOMAIN forms'
              PROVE  (j \in DOMAIN forms /\ forms'[j].run = forms[j].run) \/ forms'[j].run = r
            BY <1>3, <3>1, <3>5 DEF GoodForm, FormFields
        <3> QED
            BY <3>4, <3>5 DEF FormsFrom, InLog
    <2>3. FormsFrom
        BY <1>9, <2>1, <2>2 DEF ServeStart
    <2>4. UNCHANGED <<calls, selected, shown, listed>>
        BY <1>9 DEF ServeStart, viewVars
    <2> QED
        BY <1>2, <2>3, <2>4
<1>10. ASSUME NEW i \in DOMAIN forms, ReceiveBranches(i)
       PROVE  PageInv'
    <2>1. forms' = RemoveAt(forms, i) /\ UNCHANGED <<calls, selected, shown, listed>>
        BY <1>10 DEF ReceiveBranches, runPageVars
    <2> QED
        BY <1>2, <1>5, <2>1
<1>11. ASSUME NEW i \in DOMAIN forms, ReceiveStart(i)
       PROVE  PageInv'
    <2>1. forms' = RemoveAt(forms, i) /\ UNCHANGED <<shown, listed>>
        BY <1>11 DEF ReceiveStart, viewVars
    <2>2. CASE UNCHANGED <<selected, calls>>
        BY <1>2, <1>5, <2>1, <2>2
    <2>3. CASE forms[i].run # NoRun /\ SelectRun(forms[i].run)
        <3>1. PICK r : r = forms[i].run
            OBVIOUS
        <3>2. r \in Runs /\ InLog(r) /\ SelectRun(r)
            BY <1>3, <2>3, <3>1 DEF GoodForm, PageInv, ChosenInv
        <3> QED
            BY <1>1, <1>5, <2>1, <3>2, SelectingKeepsPage
    <2> QED
        BY <1>11, <2>2, <2>3 DEF ReceiveStart
<1> QED
    BY <1>6, <1>7, <1>8, <1>9, <1>10, <1>11 DEF StartFormNext

(* Docker keeps its two states. *)
LEMMA SetupKeepsDocker ==
    ASSUME DockerKnown, SetupPageNext
    PROVE  DockerKnown'
<1>1. CASE RefreshSetup \/ PollSetup \/ PressBuild
    BY <1>1 DEF RefreshSetup, PollSetup, PressBuild, DockerKnown
<1>2. CASE RunnerBuildEnds \/ DockerChanges
    BY <1>2 DEF RunnerBuildEnds, DockerChanges, DockerKnown
<1>3. ASSUME NEW i \in DOMAIN probes,
             ProbeDocker(i) \/ SetupStatus(i) \/ ReceiveSetup(i) \/ ServeBuild(i) \/ ReceiveBuild(i)
      PROVE  DockerKnown'
    BY <1>3 DEF ProbeDocker, SetupStatus, ReceiveSetup, ServeBuild, ReceiveBuild, DockerKnown
<1> QED
    BY <1>1, <1>2, <1>3 DEF SetupPageNext

LEMMA OthersKeepPage ==
    ASSUME PageInv, UNCHANGED <<runPageVars, startVars>>, Announced, DockerKnown'
    PROVE  PageInv'
<1>1. UNCHANGED <<calls, selected, shown, listed, forms>>
    BY DEF runPageVars, startVars
<1> QED
    BY <1>1, FormsUnchanged, UnchangedMove, MovesKeepPage

LEMMA NextKeepsPageInv ==
    ASSUME PageInv, AnswerInv, [Next]_vars
    PROVE  PageInv'
<1>1. RunsKnown /\ DockerKnown
    BY DEF PageInv, RunsInv
<1>2. CASE Deliver
    BY <1>2, DeliverKeepsPage
<1>3. CASE Interrupted
    BY <1>3, InterruptedKeepsPage
<1>4. CASE RunPageNext /\ UNCHANGED <<setupVars, startVars, settingsVars, guidanceVars>>
    BY <1>4, RunPageKeepsPage
<1>5. CASE SetupPageNext /\ UNCHANGED <<runPageVars, startVars, settingsVars, guidanceVars>>
    BY <1>1, <1>5, SetupPageAnnounces, SetupKeepsDocker, OthersKeepPage
<1>6. CASE StartFormNext
    BY <1>6, StartFormKeepsPage
<1>7. CASE SettingsPageNext /\ UNCHANGED <<runPageVars, startVars, guidanceVars>>
    <2>1. Announced /\ UNCHANGED docker
        BY <1>1, <1>7, OthersAnnounce, SettingsLeaveServer
    <2> QED
        BY <1>1, <1>7, <2>1, OthersKeepPage DEF DockerKnown
<1>8. CASE GuidancePageNext /\ UNCHANGED <<runPageVars, setupVars, startVars, settingsVars>>
    <2>1. Announced /\ UNCHANGED docker
        BY <1>1, <1>8, OthersAnnounce DEF setupVars
    <2> QED
        BY <1>1, <1>8, <2>1, OthersKeepPage DEF DockerKnown
<1>9. CASE UNCHANGED vars
    <2>1. Announced /\ UNCHANGED docker
        BY <1>1, <1>9, OthersAnnounce DEF vars, setupVars
    <2> QED
        BY <1>1, <1>9, <2>1, OthersKeepPage DEF vars, DockerKnown
<1> QED
    BY <1>2, <1>3, <1>4, <1>5, <1>6, <1>7, <1>8, <1>9 DEF Next

(* With nothing under way and every event handled, what stands is so.      *)
LEMMA PageInvSettles ==
    ASSUME PageInv
    PROVE  SettledPage
<1>1. ASSUME ordered, AtRest
      PROVE  listed = Statuses /\ (selected # NoRun => shown = View(selected))
    <2>1. \A what : NoneOf(calls, what)
        BY <1>1, ListEmpty DEF AtRest, NoneOf
    <2>2. \A r : ~Due(r)
        BY <1>1, NothingDue DEF PageInv, AtRest
    <2>3. listed = Statuses
        BY <1>1, <2>1, <2>2 DEF PageInv, ListInv, ListStanding
    <2>4. ASSUME selected # NoRun
          PROVE  shown = View(selected)
        BY <1>1, <2>1, <2>2, <2>4 DEF PageInv, ChosenInv, ViewInv, Standing
    <2> QED
        BY <2>3, <2>4
<1> QED
    BY <1>1 DEF SettledPage

(* When replies come in order, the page that has handled every event and   *)
(* waits for nothing shows the runs and the selected one as they are, for  *)
(* any runs, however the operator works, and after lost connections.       *)
THEOREM PageSettles == Spec => []SettledPage
<1>1. Init => PageInv /\ AnswerInv
    BY InitPageInv, InitAnswerInv
<1>2. PageInv /\ AnswerInv /\ [Next]_vars => (PageInv /\ AnswerInv)'
    BY NextKeepsPageInv, NextKeepsAnswerInv
<1>3. PageInv /\ AnswerInv => SettledPage
    BY PageInvSettles
<1> QED
    BY <1>1, <1>2, <1>3, PTL DEF Spec

-------------------------------------------------------------------------------
(* The settled setup. *)

(* A status says that there is an image when its daemon runs and there is. *)
ImageOf(d) == d.image = (d.daemon /\ docker.image)

ProbeFields == {"kind", "stage", "docker", "build"}
PanelFields == {"docker", "build", "ready", "failed", "polling", "pressed", "startOff"}

ProbesInv ==
    /\ IsList(probes)
    /\ \A i \in DOMAIN probes :
          DOMAIN probes[i] = ProbeFields /\ probes[i].stage \in {1, 2, 3}

PanelInv ==
    /\ DOMAIN setup = PanelFields
    /\ setup.build = "building" => setup.polling
    /\ ~setup.failed => setup.ready = IsReady(setup)

(* In an ordered session the last status under way, as far as it is made,  *)
(* is as docker and the build are, or a setup event is on its way; with    *)
(* none under way the panel is so, unless it could not be loaded or the    *)
(* server has forgotten its build.                                         *)
StatusInv ==
    ordered =>
        /\ \A i : LastOf(probes, i, "setup") =>
              \/ probes[i].stage = 1
              \/ ImageOf(probes[i].docker) /\ (probes[i].stage = 2 \/ probes[i].build = build)
              \/ Due(NoRun)
        /\ NoneOf(probes, "setup") =>
              \/ setup.failed
              \/ ImageOf(setup.docker) /\ (setup.build = build \/ build = "idle")
              \/ Due(NoRun)

SetupInv == ProbesInv /\ PanelInv /\ StatusInv

(* How a step may move the requests for the setup, and the panel, on.      *)
PanelKept ==
    /\ setup'.docker = setup.docker /\ setup'.build = setup.build
    /\ setup'.failed = setup.failed

ProbeFollows(c, d) ==
    \/ d.stage = 1
    \/ d.stage = 2 /\ ImageOf(d.docker)
    \/ d.stage = c.stage /\ d.docker = c.docker /\ d.build = c.build
    \/ c.stage = 2 /\ d.docker = c.docker /\ d.build = build

SetupMoves ==
    /\ \A j : LastOf(probes', j, "setup") =>
          \/ probes'[j].stage = 1
          \/ \E k : LastOf(probes, k, "setup") /\ ProbeFollows(probes[k], probes'[j])
    /\ NoneOf(probes', "setup") =>
          \/ NoneOf(probes, "setup") /\ PanelKept
          \/ \E k : /\ LastOf(probes, k, "setup") /\ probes[k].stage = 3
                    /\ setup'.docker = probes[k].docker /\ setup'.build = probes[k].build

LEMMA SetupMovesKeep ==
    ASSUME StreamInv, ProbesInv, StatusInv, Announced, ordered => SetupMoves
    PROVE  StatusInv'
<1>1. /\ Due(NoRun) => Due(NoRun)'
      /\ (build' = build /\ docker'.image = docker.image) \/ Due(NoRun)'
    BY AnnouncedIsDue
<1>2. ordered' = ordered
    BY DEF Announced
<1>3. CASE Due(NoRun)'
    BY <1>3 DEF StatusInv
<1>4. CASE ~Due(NoRun)'
    <2>1. build' = build /\ docker'.image = docker.image /\ ~Due(NoRun)
        BY <1>1, <1>4
    <2>2. \A d : ImageOf(d) => d.image = (d.daemon /\ docker'.image)
        BY <2>1 DEF ImageOf
    <2>3. ASSUME ordered, NEW j, LastOf(probes', j, "setup")
          PROVE  \/ probes'[j].stage = 1
                 \/ ImageOf(probes'[j].docker) /\ (probes'[j].stage = 2 \/ probes'[j].build = build)
        <3>1. CASE probes'[j].stage = 1
            BY <3>1
        <3>2. ASSUME NEW k, LastOf(probes, k, "setup"), ProbeFollows(probes[k], probes'[j])
              PROVE  \/ probes'[j].stage = 1
                     \/ ImageOf(probes'[j].docker)
                        /\ (probes'[j].stage = 2 \/ probes'[j].build = build)
            <4>1. \/ probes[k].stage = 1
                  \/ ImageOf(probes[k].docker) /\ (probes[k].stage = 2 \/ probes[k].build = build)
                BY <2>1, <2>3, <3>2 DEF StatusInv
            <4> QED
                BY <3>2, <4>1 DEF ProbeFollows
        <3> QED
            BY <2>3, <3>1, <3>2 DEF SetupMoves
    <2>4. ASSUME ordered, NoneOf(probes', "setup")
          PROVE  \/ setup'.failed
                 \/ ImageOf(setup'.docker) /\ (setup'.build = build \/ build = "idle")
        <3>1. CASE NoneOf(probes, "setup") /\ PanelKept
            BY <2>1, <2>4, <3>1 DEF StatusInv, PanelKept
        <3>2. ASSUME NEW k, LastOf(probes, k, "setup"), probes[k].stage = 3,
                     setup'.docker = probes[k].docker, setup'.build = probes[k].build
              PROVE  ImageOf(setup'.docker) /\ setup'.build = build
            BY <2>1, <2>4, <3>2 DEF StatusInv
        <3> QED
            BY <2>4, <3>1, <3>2 DEF SetupMoves
    <2> QED
        BY <1>2, <2>1, <2>2, <2>3, <2>4 DEF StatusInv, ImageOf
<1> QED
    BY <1>3, <1>4

(* Steps that leave the requests alone, send one more, or answer one.      *)
LEMMA SameProbesMove ==
    ASSUME UNCHANGED probes, PanelKept
    PROVE  SetupMoves
    BY DEF SetupMoves, ProbeFollows

LEMMA AskingMoves ==
    ASSUME NEW s, IsList(s), probes' = Append(s, ProbeRequest("setup"))
    PROVE  SetupMoves
<1> DEFINE c == ProbeRequest("setup")
<1>1. c.stage = 1 /\ Bears(c, "setup")
    BY DEF ProbeRequest, Bears
<1> HIDE DEF c
<1>2. ASSUME NEW what, Bears(c, what)
      PROVE  ~NoneOf(Append(s, c), what) /\ \A j : LastOf(Append(s, c), j, what) => Append(s, c)[j] = c
    BY <1>2, AppendLast
<1>3. probes' = Append(s, c)
    BY DEF c
<1> QED
    BY <1>1, <1>2, <1>3 DEF SetupMoves

LEMMA AnsweredMoves ==
    ASSUME ProbesInv, NEW i \in DOMAIN probes, NEW c, probes' = [probes EXCEPT ![i] = c],
           c.kind = probes[i].kind, c.kind = "setup" => ProbeFollows(probes[i], c), PanelKept
    PROVE  SetupMoves
<1>1. /\ DOMAIN probes' = DOMAIN probes /\ probes'[i] = c
      /\ \A j \in DOMAIN probes : j # i => probes'[j] = probes[j]
    OBVIOUS
<1>2. \A j \in DOMAIN probes : Bears(probes'[j], "setup") <=> Bears(probes[j], "setup")
    BY <1>1 DEF Bears
<1>3. /\ \A j : LastOf(probes', j, "setup") <=> LastOf(probes, j, "setup")
      /\ NoneOf(probes', "setup") <=> NoneOf(probes, "setup")
    BY <1>1, <1>2 DEF LastOf, NoneOf
<1>4. \A j : LastOf(probes, j, "setup") => ProbeFollows(probes[j], probes'[j])
    BY <1>1 DEF LastOf, Bears, ProbeFollows
<1> QED
    BY <1>3, <1>4 DEF SetupMoves

(* Requests stay of their form. *)
GoodProbe(c) == DOMAIN c = ProbeFields /\ c.stage \in {1, 2, 3}

LEMMA AppendKeepsProbes ==
    ASSUME NEW s, IsList(s), \A j \in DOMAIN s : GoodProbe(s[j]), NEW kind,
           probes' = Append(s, ProbeRequest(kind))
    PROVE  ProbesInv'
<1> DEFINE c == ProbeRequest(kind)
<1>1. GoodProbe(c)
    BY DEF GoodProbe, ProbeRequest, ProbeFields
<1> HIDE DEF c
<1>2. /\ IsList(Append(s, c))
      /\ \A j \in DOMAIN Append(s, c) :
            Append(s, c)[j] = c \/ (j \in DOMAIN s /\ Append(s, c)[j] = s[j])
    BY ListAppend
<1>3. probes' = Append(s, c)
    BY DEF c
<1> QED
    BY <1>1, <1>2, <1>3 DEF ProbesInv, GoodProbe

LEMMA ProbesAreGood ==
    ASSUME ProbesInv
    PROVE  IsList(probes) /\ \A j \in DOMAIN probes : GoodProbe(probes[j])
    BY DEF ProbesInv, GoodProbe

LEMMA RemoveKeepsProbes ==
    ASSUME ProbesInv, NEW i \in DOMAIN probes
    PROVE  IsList(RemoveAt(probes, i)) /\ \A j \in DOMAIN RemoveAt(probes, i) :
               GoodProbe(RemoveAt(probes, i)[j])
    BY ProbesAreGood, ListRemove

LEMMA AnswerKeepsProbes ==
    ASSUME ProbesInv, NEW i \in DOMAIN probes, NEW c, GoodProbe(c),
           probes' = [probes EXCEPT ![i] = c]
    PROVE  ProbesInv'
<1>1. probes' = [j \in DOMAIN probes |-> probes'[j]] /\ IsList(probes)
    BY DEF ProbesInv
<1>2. IsList(probes') /\ DOMAIN probes' = DOMAIN probes
    BY <1>1, ListOf
<1> QED
    BY <1>2 DEF ProbesInv, GoodProbe

(* The panel changes in nothing that is said of it. *)
LEMMA PanelStays ==
    ASSUME PanelInv,
           \/ UNCHANGED setup
           \/ \E v : setup' = [setup EXCEPT !.pressed = v]
           \/ \E v : setup' = [setup EXCEPT !.startOff = v]
    PROVE  PanelInv' /\ PanelKept
<1>1. CASE UNCHANGED setup
    BY <1>1 DEF PanelInv, PanelKept, IsReady
<1>2. CASE \E v : setup' = [setup EXCEPT !.pressed = v]
    BY <1>2 DEF PanelInv, PanelKept, PanelFields, IsReady
<1>3. CASE \E v : setup' = [setup EXCEPT !.startOff = v]
    BY <1>3 DEF PanelInv, PanelKept, PanelFields, IsReady
<1> QED
    BY <1>1, <1>2, <1>3

(* The docker of a new status. *)
LEMMA ProbedIsCurrent ==
    ASSUME DockerKnown
    PROVE  ImageOf(Probed)
    BY DEF DockerKnown, Probed, ImageOf

LEMMA InitSetupInv ==
    ASSUME Init
    PROVE  SetupInv
<1>1. /\ docker \in [daemon : BOOLEAN, image : BOOLEAN]
      /\ build = "idle" /\ probes = <<>>
      /\ setup = [docker |-> Probed, build |-> build, ready |-> Ready, failed |-> FALSE,
                  polling |-> FALSE, pressed |-> FALSE, startOff |-> ~Ready]
    BY DEF Init, SetupInit
<1>2. ImageOf(Probed)
    BY <1>1, ProbedIsCurrent DEF DockerKnown
<1>3. ProbesInv
    BY <1>1, ListEmpty DEF ProbesInv
<1>4. Ready = IsReady(setup)
    <2>1. Probed.daemon = docker.daemon /\ Probed.image = (docker.daemon /\ docker.image)
        BY <1>1 DEF Probed
    <2> QED
        BY <1>1, <2>1 DEF Ready, IsReady
<1>5. PanelInv
    BY <1>1, <1>4 DEF PanelInv, PanelFields
<1>6. StatusInv
    BY <1>1, <1>2, ListEmpty DEF StatusInv, LastOf
<1> QED
    BY <1>3, <1>5, <1>6 DEF SetupInv

(* What remains to be shown of a step that announces its changes. *)
LEMMA MovesKeepSetup ==
    ASSUME StreamInv, SetupInv, Announced, ProbesInv', PanelInv', ordered => SetupMoves
    PROVE  SetupInv'
    BY SetupMovesKeep DEF SetupInv

LEMMA LoadKeepsSetup ==
    ASSUME StreamInv, SetupInv, Announced, LoadSetup, UNCHANGED setup
    PROVE  SetupInv'
<1>1. probes' = Append(probes, ProbeRequest("setup"))
    BY DEF LoadSetup
<1>2. IsList(probes) /\ ProbesInv'
    BY <1>1, ProbesAreGood, AppendKeepsProbes DEF SetupInv
<1>3. SetupMoves
    BY <1>1, <1>2, AskingMoves
<1>4. PanelInv'
    BY PanelStays DEF SetupInv
<1> QED
    BY <1>2, <1>3, <1>4, MovesKeepSetup

LEMMA SameKeepsSetup ==
    ASSUME StreamInv, SetupInv, Announced, UNCHANGED probes,
           UNCHANGED setup \/ \E v : setup' = [setup EXCEPT !.startOff = v]
    PROVE  SetupInv'
<1>1. PanelInv' /\ PanelKept
    BY PanelStays DEF SetupInv
<1>2. ProbesInv' /\ SetupMoves
    BY <1>1, SameProbesMove DEF SetupInv, ProbesInv
<1> QED
    BY <1>1, <1>2, MovesKeepSetup

LEMMA ReceiveSetupKeeps ==
    ASSUME StreamInv, SetupInv, Announced, NEW i \in DOMAIN probes, ReceiveSetup(i)
    PROVE  SetupInv'
<1> USE DEF SetupInv
<1> DEFINE rest == RemoveAt(probes, i)
<1>1. /\ Moves(probes, i, 3) /\ probes[i].kind = "setup" /\ probes[i].stage = 3
      /\ probes' = rest
    BY DEF ReceiveSetup, Moves
<1>2. setup' = [docker |-> probes[i].docker, build |-> probes[i].build,
                ready |-> IsReady(probes[i]), failed |-> FALSE,
                polling |-> probes[i].build = "building", pressed |-> FALSE,
                startOff |-> ~IsReady(probes[i])]
    BY DEF ReceiveSetup, ShowSetup
<1>3. IsList(rest) /\ \A j \in DOMAIN rest : GoodProbe(rest[j])
    BY RemoveKeepsProbes
<1>4. ProbesInv'
    BY <1>1, <1>3 DEF ProbesInv, GoodProbe
<1>5. PanelInv'
    BY <1>2 DEF PanelInv, PanelFields, IsReady
<1>6. /\ NoneOf(rest, "setup") => NoneOf(probes, "setup") \/ LastOf(probes, i, "setup")
      /\ \A j : LastOf(rest, j, "setup") =>
            \E k \in DOMAIN probes :
                rest[j] = probes[k] /\ (LastOf(probes, k, "setup") \/ (LastOf(probes, i, "setup") /\ i # 1))
    BY RemoveLast DEF ProbesInv
<1>7. ordered => i = 1
    BY <1>1, FirstReply DEF ProbesInv
<1> HIDE DEF rest
<1>8. ~NoneOf(probes, "setup")
    BY <1>1 DEF NoneOf, Bears
<1>9. ordered => SetupMoves
    <2>1. ASSUME ordered, NEW j, LastOf(probes', j, "setup")
          PROVE  \E k : LastOf(probes, k, "setup") /\ ProbeFollows(probes[k], probes'[j])
        <3>1. PICK k \in DOMAIN probes : rest[j] = probes[k] /\ LastOf(probes, k, "setup")
            BY <1>1, <1>6, <1>7, <2>1
        <3>2. ProbeFollows(probes[k], probes'[j])
            BY <1>1, <3>1 DEF ProbeFollows
        <3> QED
            BY <3>1, <3>2
    <2>2. ASSUME ordered, NoneOf(probes', "setup")
          PROVE  /\ LastOf(probes, i, "setup") /\ probes[i].stage = 3
                 /\ setup'.docker = probes[i].docker /\ setup'.build = probes[i].build
        BY <1>1, <1>2, <1>6, <1>8, <2>2
    <2> QED
        BY <2>1, <2>2 DEF SetupMoves
<1> QED
    BY <1>4, <1>5, <1>9, MovesKeepSetup

LEMMA SetupPageKeepsSetup ==
    ASSUME StreamInv, DockerKnown, SetupInv, Announced, SetupPageNext
    PROVE  SetupInv'
<1>1. CASE RefreshSetup \/ PollSetup
    BY <1>1, LoadKeepsSetup DEF RefreshSetup, PollSetup
<1>2. CASE PressBuild
    <2> DEFINE c == ProbeRequest("build")
    <2>1. probes' = Append(probes, c) /\ setup' = [setup EXCEPT !.pressed = TRUE]
        BY <1>2 DEF PressBuild
    <2>2. ProbesInv' /\ IsList(probes)
        BY <2>1, ProbesAreGood, AppendKeepsProbes DEF SetupInv
    <2>3. PanelInv' /\ PanelKept
        BY <2>1, PanelStays DEF SetupInv
    <2>4. ~Bears(c, "setup")
        BY DEF Bears, ProbeRequest
    <2> HIDE DEF c
    <2>5. /\ NoneOf(Append(probes, c), "setup") => NoneOf(probes, "setup")
          /\ \A j : LastOf(Append(probes, c), j, "setup") =>
                LastOf(probes, j, "setup") /\ Append(probes, c)[j] = probes[j]
        BY <2>2, <2>4, AppendLast
    <2>6. SetupMoves
        BY <2>1, <2>3, <2>5 DEF SetupMoves, ProbeFollows
    <2> QED
        BY <2>2, <2>3, <2>6, MovesKeepSetup
<1>3. CASE RunnerBuildEnds \/ DockerChanges
    BY <1>3, SameKeepsSetup DEF RunnerBuildEnds, DockerChanges
<1>4. ASSUME NEW i \in DOMAIN probes, ProbeDocker(i) \/ SetupStatus(i) \/ ServeBuild(i)
      PROVE  SetupInv'
    <2>1. PICK c : /\ probes' = [probes EXCEPT ![i] = c] /\ GoodProbe(c)
                   /\ c.kind = probes[i].kind
                   /\ c.kind = "setup" => ProbeFollows(probes[i], c)
        <3>1. GoodProbe(probes[i])
            BY ProbesAreGood DEF SetupInv
        <3>2. CASE ProbeDocker(i)
            <4> DEFINE c == [probes[i] EXCEPT !.stage = 2, !.docker = Probed]
            <4>1. probes' = [probes EXCEPT ![i] = c]
                BY <3>2 DEF ProbeDocker
            <4>2. GoodProbe(c) /\ c.kind = probes[i].kind /\ c.stage = 2 /\ c.docker = Probed
                BY <3>1 DEF GoodProbe, ProbeFields
            <4> HIDE DEF c
            <4>3. ProbeFollows(probes[i], c)
                BY <4>2, ProbedIsCurrent DEF ProbeFollows
            <4> QED
                BY <4>1, <4>2, <4>3
        <3>3. CASE SetupStatus(i)
            <4> DEFINE c == [probes[i] EXCEPT !.stage = 3, !.build = build]
            <4>1. probes' = [probes EXCEPT ![i] = c] /\ probes[i].stage = 2
                BY <3>3 DEF SetupStatus, Moves
            <4>2. /\ GoodProbe(c) /\ c.kind = probes[i].kind
                  /\ c.docker = probes[i].docker /\ c.build = build
                BY <3>1 DEF GoodProbe, ProbeFields
            <4> HIDE DEF c
            <4>3. ProbeFollows(probes[i], c)
                BY <4>1, <4>2 DEF ProbeFollows
            <4> QED
                BY <4>1, <4>2, <4>3
        <3>4. CASE ServeBuild(i)
            <4> DEFINE c == [probes[i] EXCEPT !.stage = 3]
            <4>1. probes' = [probes EXCEPT ![i] = c] /\ probes[i].kind = "build"
                BY <3>4 DEF ServeBuild
            <4>2. GoodProbe(c) /\ c.kind = probes[i].kind
                BY <3>1 DEF GoodProbe, ProbeFields
            <4> HIDE DEF c
            <4> QED
                BY <4>1, <4>2
        <3> QED
            BY <1>4, <3>2, <3>3, <3>4
    <2>2. UNCHANGED setup
        BY <1>4 DEF ProbeDocker, SetupStatus, ServeBuild
    <2>3. ProbesInv'
        BY <2>1, AnswerKeepsProbes DEF SetupInv
    <2>4. PanelInv' /\ PanelKept
        BY <2>2, PanelStays DEF SetupInv
    <2>5. SetupMoves
        BY <2>1, <2>4, AnsweredMoves DEF SetupInv
    <2> QED
        BY <2>3, <2>4, <2>5, MovesKeepSetup
<1>5. ASSUME NEW i \in DOMAIN probes, ReceiveSetup(i)
      PROVE  SetupInv'
    BY <1>5, ReceiveSetupKeeps
<1>6. ASSUME NEW i \in DOMAIN probes, ReceiveBuild(i)
      PROVE  SetupInv'
    <2> DEFINE rest == RemoveAt(probes, i)
    <2>1. probes' = Append(rest, ProbeRequest("setup")) /\ UNCHANGED setup
        BY <1>6 DEF ReceiveBuild
    <2>2. IsList(rest) /\ \A j \in DOMAIN rest : GoodProbe(rest[j])
        BY RemoveKeepsProbes DEF SetupInv
    <2> HIDE DEF rest
    <2>3. ProbesInv' /\ SetupMoves
        BY <2>1, <2>2, AskingMoves, AppendKeepsProbes
    <2>4. PanelInv'
        BY <2>1, PanelStays DEF SetupInv
    <2> QED
        BY <2>3, <2>4, MovesKeepSetup
<1> QED
    BY <1>1, <1>2, <1>3, <1>4, <1>5, <1>6 DEF SetupPageNext

LEMMA StartFormKeepsSetup ==
    ASSUME StreamInv, SetupInv, Announced, StartFormNext
    PROVE  SetupInv'
<1>1. UNCHANGED probes /\ (UNCHANGED setup \/ \E v : setup' = [setup EXCEPT !.startOff = v])
    <2>1. ASSUME NEW p, LoadProjectBranches(p)
          PROVE  UNCHANGED <<probes, setup>>
        BY <2>1 DEF LoadProjectBranches, setupVars
    <2>2. ASSUME SubmitStart
          PROVE  UNCHANGED probes /\ \E v : setup' = [setup EXCEPT !.startOff = v]
        BY <2>2 DEF SubmitStart
    <2>3. ASSUME NEW i, ListLocalBranches(i)
          PROVE  UNCHANGED <<probes, setup>>
        BY <2>3 DEF ListLocalBranches, setupVars
    <2>4. ASSUME NEW i, ReceiveBranches(i)
          PROVE  UNCHANGED <<probes, setup>>
        BY <2>4 DEF ReceiveBranches, setupVars
    <2>5. ASSUME NEW i, CheckStart(i)
          PROVE  UNCHANGED <<probes, setup>>
        BY <2>5 DEF CheckStart, setupVars
    <2>6. ASSUME NEW i, ServeStart(i)
          PROVE  UNCHANGED <<probes, setup>>
        BY <2>6 DEF ServeStart, setupVars
    <2>7. ASSUME NEW i, ReceiveStart(i)
          PROVE  UNCHANGED probes /\ \E v : setup' = [setup EXCEPT !.startOff = v]
        BY <2>7 DEF ReceiveStart
    <2> QED
        BY <2>1, <2>2, <2>3, <2>4, <2>5, <2>6, <2>7 DEF StartFormNext
<1> QED
    BY <1>1, SameKeepsSetup

LEMMA SettingsKeepSetup ==
    ASSUME StreamInv, SetupInv, Announced, SettingsPageNext
    PROVE  SetupInv'
<1>1. UNCHANGED setup /\ (UNCHANGED probes \/ LoadSetup)
    <2>1. CASE ShowSettings
        BY <2>1 DEF ShowSettings, setupVars
    <2>2. ASSUME NEW f, NEW value, EditField(f, value)
          PROVE  UNCHANGED <<probes, setup>>
        BY <2>2 DEF EditField, setupVars
    <2>3. ASSUME NEW kind, SaveSettings(kind)
          PROVE  UNCHANGED <<probes, setup>>
        BY <2>3 DEF SaveSettings, setupVars
    <2>4. ASSUME NEW i, ReadConfig(i)
          PROVE  UNCHANGED <<probes, setup>>
        BY <2>4 DEF ReadConfig, setupVars
    <2>5. ASSUME NEW i, WriteConfig(i)
          PROVE  UNCHANGED <<probes, setup>>
        BY <2>5 DEF WriteConfig, setupVars
    <2>6. ASSUME NEW i, ReceiveSettings(i)
          PROVE  UNCHANGED setup /\ (UNCHANGED probes \/ LoadSetup)
        BY <2>6 DEF ReceiveSettings, setupVars
    <2>7. ASSUME NEW i, RefuseConfig(i)
          PROVE  UNCHANGED <<probes, setup>>
        BY <2>7 DEF RefuseConfig, setupVars
    <2> QED
        BY <2>1, <2>2, <2>3, <2>4, <2>5, <2>6, <2>7 DEF SettingsPageNext
<1> QED
    BY <1>1, LoadKeepsSetup, SameKeepsSetup

LEMMA DeliverKeepsSetup ==
    ASSUME StreamInv, SetupInv, Deliver
    PROVE  SetupInv'
<1> USE DEF SetupInv
<1>1. PICK r \in Runs \cup {NoRun} :
         /\ NextEvent(r)
         /\ IF r = NoRun
            THEN LoadSetup /\ UNCHANGED <<docker, build, builds, setup>>
            ELSE UNCHANGED setupVars
    BY DEF Deliver
<1>2. UNCHANGED <<log, ordered, docker, build, setup>>
    BY <1>1 DEF Deliver, setupVars
<1>3. PanelInv'
    BY <1>2, PanelStays
<1>4. CASE r = NoRun
    <2>1. probes' = Append(probes, ProbeRequest("setup"))
        BY <1>1, <1>4 DEF LoadSetup
    <2>2. IsList(probes) /\ ProbesInv'
        BY <2>1, ProbesAreGood, AppendKeepsProbes
    <2> DEFINE c == ProbeRequest("setup")
    <2>3. c.stage = 1 /\ Bears(c, "setup")
        BY DEF ProbeRequest, Bears
    <2> HIDE DEF c
    <2>4. ASSUME NEW what, Bears(c, what)
          PROVE  /\ ~NoneOf(Append(probes, c), what)
                 /\ \A j : LastOf(Append(probes, c), j, what) => Append(probes, c)[j] = c
        BY <2>2, <2>4, AppendLast
    <2>5. probes' = Append(probes, c)
        BY <2>1 DEF c
    <2>6. StatusInv'
        BY <2>3, <2>4, <2>5 DEF StatusInv
    <2> QED
        BY <1>3, <2>2, <2>6
<1>5. CASE r # NoRun
    <2>1. UNCHANGED probes
        BY <1>1, <1>5 DEF setupVars
    <2>2. Due(NoRun) => Due(NoRun)'
        BY <1>1, <1>2, <1>5, DeliveredElse DEF NextEvent
    <2>3. ProbesInv' /\ StatusInv'
        BY <1>2, <2>1, <2>2 DEF ProbesInv, StatusInv, ImageOf
    <2> QED
        BY <1>3, <2>3
<1> QED
    BY <1>4, <1>5

(* A panel that was as it should be stays so when nothing was asked; the   *)
(* events of a build that was missed are sent again.                       *)
LEMMA InterruptedKeepsSetup ==
    ASSUME StreamInv, SetupInv, Interrupted
    PROVE  SetupInv'
<1> USE DEF SetupInv
<1>1. /\ probes' = <<>> /\ cursor' = 0
      /\ UNCHANGED <<log, ordered, docker>>
      /\ build' = "idle" \/ build' = build
    BY DEF Interrupted, SetupCallsFail, Reconnect
<1>2. \E v : setup' = FailedSetup \/ setup' = [FailedSetup EXCEPT !.startOff = v]
    BY DEF Interrupted, StartCallsFail
<1>3. /\ DOMAIN setup' = PanelFields /\ setup'.docker = setup.docker
      /\ setup'.build = setup.build /\ setup'.polling = setup.polling
      /\ setup'.failed \/ (setup'.failed = setup.failed /\ setup'.ready = setup.ready /\ probes = <<>>)
    <2>1. PICK v : setup' = FailedSetup \/ setup' = [FailedSetup EXCEPT !.startOff = v]
        BY <1>2
    <2>2. DOMAIN setup = PanelFields
        BY DEF PanelInv
    <2>3. CASE probes = <<>>
        BY <2>1, <2>2, <2>3 DEF FailedSetup, PanelFields
    <2>4. CASE probes # <<>>
        BY <2>1, <2>2, <2>4 DEF FailedSetup, PanelFields
    <2> QED
        BY <2>3, <2>4
<1>4. PanelInv'
    BY <1>3 DEF PanelInv, IsReady
<1>5. ProbesInv' /\ \A j, what : ~LastOf(probes', j, what)
    BY <1>1, ListEmpty DEF ProbesInv, LastOf
<1>6. ASSUME ordered, ~setup'.failed
      PROVE  \/ ImageOf(setup.docker) /\ (setup.build = build \/ build = "idle")
             \/ Due(NoRun)
    BY <1>3, <1>6, ListEmpty DEF StatusInv, NoneOf
<1>7. Due(NoRun) => Due(NoRun)'
    BY <1>1 DEF Due, StreamInv
<1>8. StatusInv'
    BY <1>1, <1>3, <1>5, <1>6, <1>7 DEF StatusInv, ImageOf
<1> QED
    BY <1>4, <1>5, <1>8

LEMMA NextKeepsSetupInv ==
    ASSUME PageInv, SetupInv, [Next]_vars
    PROVE  SetupInv'
<1>1. StreamInv /\ RunsKnown /\ DockerKnown
    BY DEF PageInv, RunsInv
<1>2. CASE Deliver
    BY <1>1, <1>2, DeliverKeepsSetup
<1>3. CASE Interrupted
    BY <1>1, <1>3, InterruptedKeepsSetup
<1>4. CASE SetupPageNext /\ UNCHANGED <<runPageVars, startVars, settingsVars, guidanceVars>>
    BY <1>1, <1>4, SetupPageAnnounces, SetupPageKeepsSetup
<1>5. CASE StartFormNext
    BY <1>1, <1>5, StartFormAnnounces, StartFormKeepsSetup
<1>6. CASE SettingsPageNext /\ UNCHANGED <<runPageVars, startVars, guidanceVars>>
    BY <1>1, <1>6, OthersAnnounce, SettingsKeepSetup
<1>7. ASSUME UNCHANGED setupVars, ~Deliver, ~Interrupted
      PROVE  SetupInv'
    <2>1. Announced
        BY <1>1, <1>7, ChangesAreAnnounced
    <2> QED
        BY <1>1, <1>7, <2>1, SameKeepsSetup DEF setupVars
<1> QED
    BY <1>2, <1>3, <1>4, <1>5, <1>6, <1>7 DEF Next, vars

LEMMA SetupInvSettles ==
    ASSUME PageInv, SetupInv
    PROVE  SettledSetup
<1>1. ASSUME ordered, probes = <<>>, ~Undelivered, ~setup.polling, ~setup.failed
      PROVE  /\ setup.build = build \/ build = "idle"
             /\ setup.docker.daemon = docker.daemon => setup.ready = Ready
    <2>1. NoneOf(probes, "setup")
        BY <1>1, ListEmpty DEF NoneOf
    <2>2. ~Due(NoRun)
        BY <1>1, NothingDue DEF PageInv
    <2>3. ImageOf(setup.docker) /\ (setup.build = build \/ build = "idle")
        BY <1>1, <2>1, <2>2 DEF SetupInv, StatusInv
    <2>4. setup.build # "building" /\ build # "building" /\ setup.ready = IsReady(setup)
        BY <1>1, <2>3 DEF SetupInv, PanelInv
    <2>5. ASSUME setup.docker.daemon = docker.daemon
          PROVE  setup.ready = Ready
        BY <2>3, <2>4, <2>5 DEF ImageOf, IsReady, Ready
    <2> QED
        BY <2>3, <2>5
<1> QED
    BY <1>1 DEF SettledSetup

(* When replies come in order, a panel that waits for nothing and could be *)
(* loaded shows the build as it is, or one the server has forgotten, and   *)
(* offers to start runs just when the server is ready to, as long as       *)
(* docker itself was not started or stopped since.                         *)
THEOREM SetupSettles == Spec => []SettledSetup
<1>1. Init => PageInv /\ AnswerInv /\ SetupInv
    BY InitPageInv, InitAnswerInv, InitSetupInv
<1>2. PageInv /\ AnswerInv /\ SetupInv /\ [Next]_vars => (PageInv /\ AnswerInv /\ SetupInv)'
    BY NextKeepsPageInv, NextKeepsAnswerInv, NextKeepsSetupInv
<1>3. PageInv /\ AnswerInv /\ SetupInv => SettledSetup
    BY SetupInvSettles
<1> QED
    BY <1>1, <1>2, <1>3, PTL DEF Spec

-------------------------------------------------------------------------------
(* The runner build. *)

(* A docker build of the runner runs exactly while the server says so.     *)
BuildInv == builds = IF build = "building" THEN 1 ELSE 0

BuildSame == build' = build /\ builds' = builds

LEMMA InitBuildInv ==
    ASSUME Init
    PROVE  BuildInv
    BY DEF Init, SetupInit, BuildInv

(* Of the setup panel's steps only the served request, the end of a build  *)
(* and a restart of the server touch the build.                            *)
LEMMA SetupKeepsBuildInv ==
    ASSUME BuildInv, SetupPageNext
    PROVE  BuildInv'
<1>1. CASE RefreshSetup \/ PollSetup \/ PressBuild \/ DockerChanges
    BY <1>1 DEF RefreshSetup, PollSetup, PressBuild, DockerChanges, BuildInv
<1>2. CASE RunnerBuildEnds
    BY <1>2 DEF RunnerBuildEnds, BuildInv
<1>3. ASSUME NEW i \in DOMAIN probes,
             ProbeDocker(i) \/ SetupStatus(i) \/ ReceiveSetup(i) \/ ReceiveBuild(i)
      PROVE  BuildInv'
    BY <1>3 DEF ProbeDocker, SetupStatus, ReceiveSetup, ReceiveBuild, BuildInv
<1>4. ASSUME NEW i \in DOMAIN probes, ServeBuild(i)
      PROVE  BuildInv'
    BY <1>4 DEF ServeBuild, MayBuild, StartRunnerBuild, BuildInv
<1> QED
    BY <1>1, <1>2, <1>3, <1>4 DEF SetupPageNext

(* The steps of the other parts leave it alone. *)
LEMMA OthersKeepBuild ==
    ASSUME \/ Deliver
           \/ UNCHANGED setupVars
           \/ StartFormNext
           \/ SettingsPageNext
    PROVE  BuildSame
<1>1. CASE Deliver
    BY <1>1 DEF Deliver, setupVars, BuildSame
<1>2. CASE UNCHANGED setupVars
    BY <1>2 DEF setupVars, BuildSame
<1>3. CASE StartFormNext
    BY <1>3, StartFormLeavesServer DEF BuildSame
<1>4. CASE SettingsPageNext
    BY <1>4, SettingsLeaveServer DEF BuildSame
<1> QED
    BY <1>1, <1>2, <1>3, <1>4

LEMMA NextKeepsBuildInv ==
    ASSUME BuildInv, [Next]_vars
    PROVE  BuildInv'
<1>1. CASE Interrupted
    BY <1>1 DEF Interrupted, SetupCallsFail, BuildInv
<1>2. CASE SetupPageNext
    BY <1>2, SetupKeepsBuildInv
<1>3. CASE Deliver \/ UNCHANGED setupVars \/ StartFormNext \/ SettingsPageNext
    BY <1>3, OthersKeepBuild DEF BuildSame, BuildInv
<1> QED
    BY <1>1, <1>2, <1>3 DEF Next, vars

(* The runner image is never built twice at the same time: pages that do   *)
(* not know of a build cannot make the server start another.               *)
THEOREM BuiltOnce == Spec => []OneBuild
<1>1. Init => BuildInv
    BY InitBuildInv
<1>2. BuildInv /\ [Next]_vars => BuildInv'
    BY NextKeepsBuildInv
<1>3. BuildInv => OneBuild
    BY DEF BuildInv, OneBuild
<1> QED
    BY <1>1, <1>2, <1>3, PTL DEF Spec
===============================================================================
